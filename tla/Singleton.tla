------------------------------ MODULE Singleton ------------------------------
(***************************************************************************)
(* singleton<T> (includes/singleton.h): the managers of the gateway are    *)
(* created by the first getInstance() that asks for them.  All classes     *)
(* share one mutex, which is not recursive and is held while a constructor *)
(* runs.                                                                   *)
(***************************************************************************)
EXTENDS Naturals

CONSTANTS
  Classes,
  Fragile       \* the classes whose constructor may fail

ASSUME SingletonAssumption == Fragile \subseteq Classes

VARIABLES
  mtx,          \* whether the mutex is held
  instance,     \* what there is of each class
  constructions \* how often the constructor of each class has begun

singletons == <<mtx, instance, constructions>>

SingletonInit ==
  /\ mtx = "free"
  /\ instance = [c \in Classes |-> "absent"]
  /\ constructions = [c \in Classes |-> 0]

\* getInstance of a class there is already: lock, call_once, unlock, return.
Found(c) ==
  /\ mtx = "free"
  /\ instance[c] = "present"
  /\ UNCHANGED singletons

\* The look at the instance is made before the mutex is taken.
BugConstruct(c) ==
  /\ instance[c] \in {"absent", "constructing"}
  /\ mtx' = "held"
  /\ instance' = [instance EXCEPT ![c] = "constructing"]
  /\ constructions' = [constructions EXCEPT ![c] = @ + 1]

\* The first getInstance of a class runs its constructor with the mutex held.
Construct(c) ==
  /\ mtx = "free"
  /\ instance[c] = "absent"
  /\ mtx' = "held"
  /\ instance' = [instance EXCEPT ![c] = "constructing"]
  /\ constructions' = [constructions EXCEPT ![c] = @ + 1]

Constructed(c) ==
  /\ instance[c] = "constructing"
  /\ instance' = [instance EXCEPT ![c] = "present"]
  /\ mtx' = "free"
  /\ UNCHANGED constructions

\* The constructor throws: the destructor of its base, ~singleton, locks the
\* mutex the thread holds already, and the thread never returns.  So it does
\* when the constructor asks for another class, as MySqlPool does to log that
\* it is not connected.
ConstructorFails(c) ==
  /\ c \in Fragile
  /\ instance[c] = "constructing"
  /\ instance' = [instance EXCEPT ![c] = "failed"]
  /\ UNCHANGED <<mtx, constructions>>

\* After ~singleton getInstance returns a null pointer, and before it, while the
\* destructor of T runs, an object that is destroyed a second time.
FoundNull(c) == mtx = "free" /\ instance[c] = "destroyed"

\* The static instance is destroyed: the destructor of T, then ~singleton.
Destroyed(c) ==
  /\ mtx = "free"
  /\ instance[c] = "present"
  /\ instance' = [instance EXCEPT ![c] = "destroyed"]
  /\ UNCHANGED <<mtx, constructions>>

-----------------------------------------------------------------------------
InstanceStates == {"absent", "constructing", "present", "failed", "destroyed"}

SingletonTypeOK ==
  /\ mtx \in {"free", "held"}
  /\ instance \in [Classes -> InstanceStates]
  /\ constructions \in [Classes -> Nat]

\* The mutex will never be released.
Wedged == \E c \in Classes : instance[c] = "failed"
=============================================================================
