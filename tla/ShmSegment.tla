----------------------------- MODULE ShmSegment ------------------------------
(***************************************************************************)
(* The life cycle of a named shared-memory segment, as the POSIX build of  *)
(* sim/shm_bridge has it: processes create the segment, open it, move its  *)
(* handle and drop it, one system call at a time, and may die at any point.*)
(* An object is the number of the shm_open() call that made it.            *)
(***************************************************************************)
EXTENDS Naturals

CONSTANTS
  Processes,  \* Processes that use the name.
  MaxObjects  \* Segments ever created. Bounds the model.

VARIABLES
  name,     \* Object the name leads to, or None.
  created,  \* Objects created.
  call,     \* The call each process is in: its next step and its object.
  held,     \* The ShmSegment a process keeps: object and owns_segment_.
  crashed   \* Objects whose owner died.
vars == <<name, created, call, held, crashed>>

None == 0
NoCall == [step |-> "none", object |-> None]
NoSegment == [object |-> None, owns |-> FALSE]

Init ==
  /\ name = None /\ created = 0 /\ crashed = {}
  /\ call = [p \in Processes |-> NoCall]
  /\ held = [p \in Processes |-> NoSegment]

Steps(p, step) == call[p].step = step
Goes(p, step, object) == call' = [call EXCEPT ![p] = [step |-> step, object |-> object]]
Returns(p) == call' = [call EXCEPT ![p] = NoCall]

(***************************************************************************)
(* create() and open_existing().                                           *)
(***************************************************************************)
\* shm_open(O_CREAT | O_EXCL): the call fails as long as the name exists.
CreateName(p) ==
  /\ Steps(p, "none")
  /\ name = None /\ created < MaxObjects
  /\ created' = created + 1 /\ name' = created'
  /\ Goes(p, "truncate", created')
  /\ UNCHANGED <<held, crashed>>

\* ftruncate() and mmap(): either may fail, and the name goes again.
SizeSegment(p) ==
  /\ Steps(p, "truncate")
  /\ Goes(p, "map", call[p].object)
  /\ UNCHANGED <<name, created, held, crashed>>

\* Seeded fault: the error path of create() is left to the destructor of a
\* segment that does not own the name yet.
GiveUpCreateKeepsName(p) ==
  /\ call[p].step \in {"truncate", "map"}
  /\ Returns(p)
  /\ UNCHANGED <<name, created, held, crashed>>

GiveUpCreate(p) ==
  /\ call[p].step \in {"truncate", "map"}
  /\ name' = None
  /\ Returns(p)
  /\ UNCHANGED <<created, held, crashed>>

\* open_existing(): shm_open() finds the object, mmap() maps it or fails. What it
\* is sized to by then is not looked at.
OpenName(p) ==
  /\ Steps(p, "none")
  /\ name # None
  /\ Goes(p, "mapExisting", name)
  /\ UNCHANGED <<name, created, held, crashed>>

GiveUpOpen(p) ==
  /\ Steps(p, "mapExisting")
  /\ Returns(p)
  /\ UNCHANGED <<name, created, held, crashed>>

\* reset(): unmaps and closes; an owner unlinks what the name leads to by then.
Unlinked(segment) == IF segment.owns THEN None ELSE name

\* Seeded fault: operator= overwrites the handle it has without a reset().
AdoptOver(p, segment) ==
  /\ name' = name
  /\ held' = [held EXCEPT ![p] = segment]

\* The returned handle is moved into the one the process keeps, which is reset
\* first; the handle moved from owns nothing any more.
Adopt(p, segment) ==
  /\ name' = Unlinked(held[p])
  /\ held' = [held EXCEPT ![p] = segment]

CreateReturns(p) ==
  /\ Steps(p, "map")
  /\ Adopt(p, [object |-> call[p].object, owns |-> TRUE])
  /\ Returns(p)
  /\ UNCHANGED <<created, crashed>>

OpenReturns(p) ==
  /\ Steps(p, "mapExisting")
  /\ Adopt(p, [object |-> call[p].object, owns |-> FALSE])
  /\ Returns(p)
  /\ UNCHANGED <<created, crashed>>

\* ~ShmSegment(), or a moved-from optional.
Reset(p) ==
  /\ Steps(p, "none") /\ held[p].object # None
  /\ name' = Unlinked(held[p])
  /\ held' = [held EXCEPT ![p] = NoSegment]
  /\ UNCHANGED <<created, call, crashed>>

\* A process dies: the system closes what it had open and leaves the name.
Crash(p) ==
  /\ held[p].object # None \/ ~Steps(p, "none")
  /\ crashed' = crashed
       \cup (IF held[p].owns THEN {held[p].object} ELSE {})
       \cup (IF call[p].step \in {"truncate", "map"} THEN {call[p].object} ELSE {})
  /\ held' = [held EXCEPT ![p] = NoSegment]
  /\ Returns(p)
  /\ UNCHANGED <<name, created>>

Next ==
  \E p \in Processes :
    \/ CreateName(p) \/ SizeSegment(p) \/ GiveUpCreate(p) \/ CreateReturns(p)
    \/ OpenName(p) \/ GiveUpOpen(p) \/ OpenReturns(p)
    \/ Reset(p) \/ Crash(p)

Spec == Init /\ [][Next]_vars

-----------------------------------------------------------------------------
Owns(p, object) ==
  \/ held[p] = [object |-> object, owns |-> TRUE]
  \/ call[p].step \in {"truncate", "map"} /\ call[p].object = object

\* create() is exclusive: at most one process is responsible for unlinking the
\* name, the name leads to its segment for as long as it is, whoever else opens,
\* moves and drops handles, and the name outlives it only by a crash.
NameIsItsOwners ==
  \A object \in 1 .. created :
    /\ object \in crashed \/ (name = object <=> \E p \in Processes : Owns(p, object))
    /\ \A p, q \in Processes : Owns(p, object) /\ Owns(q, object) => p = q

\* Objects are numbered in the order of their creation, and what a process does
\* with one it can only have learnt from create() or from the name.
TypeOK ==
  /\ created \in Nat
  /\ name \in 0 .. created
  /\ call \in [Processes -> [step : {"none", "truncate", "map", "mapExisting"},
                            object : 0 .. created]]
  /\ held \in [Processes -> [object : 0 .. created, owns : BOOLEAN]]
  /\ crashed \subseteq 0 .. created

\* What the proof inducts on. A process answers for the name from its shm_open()
\* on, and hands that on to its own handle only;
Creating(p) == call[p].step \in {"truncate", "map"}
OwnersHaveObjects ==
  \A p \in Processes :
    /\ Creating(p) => call[p].object # None
    /\ held[p].owns => held[p].object # None

\* an object somebody answers for is the one the name leads to;
OwnersHaveTheName ==
  \A p \in Processes :
    /\ Creating(p) => name = call[p].object /\ call[p].object \notin crashed
    /\ held[p].owns => name = held[p].object /\ held[p].object \notin crashed

\* there is one who does, in one place: the call or the handle;
OneOwner ==
  \A p, q \in Processes :
    /\ Creating(p) /\ Creating(q) => p = q
    /\ held[p].owns /\ held[q].owns => p = q
    /\ ~(Creating(p) /\ held[q].owns)

\* and only the object of a dead owner has the name without anybody.
NameHasAnOwner ==
  \/ name = None
  \/ name \in crashed
  \/ \E p \in Processes : Creating(p) \/ held[p].owns

SegmentInv == OwnersHaveObjects /\ OwnersHaveTheName /\ OneOwner /\ NameHasAnOwner
=============================================================================
