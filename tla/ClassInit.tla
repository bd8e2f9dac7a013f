----------------------------- MODULE ClassInit -----------------------------
(***************************************************************************)
(* The static initialisers of Arena.java, Messages.java, Minitable.java    *)
(* and of the generated classes, and JNI_OnLoad (jni/OnLoad.cpp), run by   *)
(* threads that use these classes for the first time.                      *)
(*                                                                         *)
(* External: the class initialisation lock of the Java language (JLS       *)
(* 12.4.2) - a class is initialised by the first thread to need it, others *)
(* wait, and the initialising thread itself goes on with the class as it   *)
(* is; and System.loadLibrary, which locks the library in the same way     *)
(* while its JNI_OnLoad runs.  FindClassInitializes says whether the JVM's *)
(* FindClass initialises the class it finds, as HotSpot's does.            *)
(*                                                                         *)
(* A thread has a stack of routines: initialisers, JNI_OnLoad and, at the  *)
(* bottom, the program's use of a class.  A routine is the sequence of its *)
(* steps that concern classes, the library or native methods.              *)
(***************************************************************************)
EXTENDS Naturals, Sequences, FiniteSets

CONSTANTS
  Threads,   \* application threads
  Reaper,    \* the thread that Arena starts
  Generated, \* the generated message classes
  LinksOf,   \* LinksOf[T] : the classes of T's submessages, as T links them
  EntryPoints, \* the classes that programs use without another one's doing it first
  FindClassInitializes,
  NoThread

ASSUME ThreadsAssumption ==
  Reaper \notin Threads /\ NoThread \notin Threads \cup {Reaper}
ASSUME LinksAssumption == LinksOf \in [Generated -> Seq(Generated)]
ASSUME FindClassAssumption == FindClassInitializes \in BOOLEAN

WithNatives == {"Arena", "Messages", "Minitable"}
Classes == WithNatives \cup {"DefaultInstanceArenaHolder"} \cup Generated
AllThreads == Threads \cup {Reaper}

ASSUME EntryPointsAssumption == EntryPoints \subseteq Classes
ASSUME GeneratedAssumption ==
  Generated \cap (WithNatives \cup {"DefaultInstanceArenaHolder", "JNI_OnLoad", "main", "run"}) = {}

VARIABLES
  status,      \* status[c] : "new", "initializing", "initialized" or "erroneous"
  owner,       \* owner[c] : the thread that initialises c
  library,     \* "unloaded", "loading" or "loaded"
  loader,      \* the thread that loads the library
  registered,  \* the classes whose native methods JNI_OnLoad has registered
  stack        \* stack[t] : routines, the innermost first, with what is left of each

vars == <<status, owner, library, loader, registered, stack>>

----------------------------------------------------------------------------
(* The routines.                                                           *)

Use(c) == [op |-> "use", class |-> c]          \* needs c to be initialised
LoadLibrary == [op |-> "load", class |-> "JNI_OnLoad"]
Register(c) == [op |-> "register", class |-> c]
Native(c) == [op |-> "native", class |-> c]    \* calls a native method of c
Deref(c) == [op |-> "deref", class |-> c]      \* DEFAULT_INSTANCE.minitable
StartReaper == [op |-> "start", class |-> "Arena"]

FindClass(c) == IF FindClassInitializes THEN <<Use(c)>> ELSE <<>>

\* Faulty variant: Minitable is forgotten.
JNI_OnLoad_NoMinitable ==
  FindClass("Arena") \o <<Register("Arena")>> \o FindClass("Messages") \o <<Register("Messages")>>

JNI_OnLoad ==
  FindClass("Arena") \o <<Register("Arena")>>
    \o FindClass("Messages") \o <<Register("Messages")>>
    \o FindClass("Minitable") \o <<Register("Minitable")>>

Linked(T, op(_)) == [i \in 1..Len(LinksOf[T]) |-> op(LinksOf[T][i])]

\* Arena.getDefaultInstanceArena()
GetDefaultInstanceArena == <<Use("Arena"), Use("DefaultInstanceArenaHolder")>>

\* Faulty variant: the minitable first, then the arena.
InitGenerated_MinitableFirst(T) ==
  Linked(T, Use) \o <<Use("Minitable")>> \o Linked(T, Deref) \o GetDefaultInstanceArena
    \o <<Native("Minitable"), Use("Messages"), Native("Messages")>>

\* Faulty variant: a message links its own type.
InitGenerated_LinksItself(T) ==
  GetDefaultInstanceArena \o <<Use(T), Use("Minitable"), Deref(T), Native("Minitable")>>

\* new T(getDefaultInstanceArena()): the arena; the default instances of the linked
\* types; new Minitable, built in the default arena; and the native message.
InitGenerated(T) ==
  GetDefaultInstanceArena \o Linked(T, Use)
    \o <<Use("Minitable")>> \o Linked(T, Deref) \o GetDefaultInstanceArena
    \o <<Native("Minitable"), Use("Messages"), Native("Messages")>>

Initializer(c) ==
  CASE c = "Arena" -> <<Use("Messages"), LoadLibrary, StartReaper>>
    [] c = "Messages" -> <<LoadLibrary, Native("Messages")>>
    [] c = "Minitable" -> <<LoadLibrary>>
    [] c = "DefaultInstanceArenaHolder" -> <<Use("Arena"), Native("Arena")>>
    [] c \in Generated -> InitGenerated(c)

\* How a program begins: new Arena(), or a static method of a generated class.  The
\* other classes are public too, but generated code uses Arena before them.
Entry(c) ==
  CASE c = "Arena" -> <<Use(c), Native(c)>>
    [] c \in Generated -> <<Use(c), Deref(c)>>
    [] OTHER -> <<Use(c)>>

----------------------------------------------------------------------------
Idle(t) == stack[t] = <<>>
Running(t) == ~Idle(t) /\ stack[t][1].steps # <<>>
Step(t) == Head(stack[t][1].steps)
At(t, op) == Running(t) /\ Step(t).op = op

\* The stack of t after the step it is at, and with a routine called from there.
Advanced(t) == [stack EXCEPT ![t][1].steps = Tail(@)]
Called(t, name, steps) ==
  [Advanced(t) EXCEPT ![t] = <<[name |-> name, steps |-> steps]>> \o @]

Init ==
  /\ status = [c \in Classes |-> "new"]
  /\ owner = [c \in Classes |-> NoThread]
  /\ library = "unloaded"
  /\ loader = NoThread
  /\ registered = {}
  /\ stack = [t \in AllThreads |-> <<>>]

Begin(t, c) ==
  /\ Idle(t)
  /\ stack' = [stack EXCEPT ![t] = <<[name |-> "main", steps |-> Entry(c)]>>]
  /\ UNCHANGED <<status, owner, library, loader, registered>>

\* A class that needs no waiting for: initialised, or by this very thread.
UseAvailable(t) ==
  /\ At(t, "use")
  /\ LET c == Step(t).class IN
       status[c] = "initialized" \/ (status[c] = "initializing" /\ owner[c] = t)
  /\ stack' = Advanced(t)
  /\ UNCHANGED <<status, owner, library, loader, registered>>

UseFirst(t) ==
  /\ At(t, "use")
  /\ LET c == Step(t).class IN
       /\ status[c] = "new"
       /\ status' = [status EXCEPT ![c] = "initializing"]
       /\ owner' = [owner EXCEPT ![c] = t]
       /\ stack' = Called(t, c, Initializer(c))
  /\ UNCHANGED <<library, loader, registered>>

LoadAvailable(t) ==
  /\ At(t, "load")
  /\ library = "loaded" \/ (library = "loading" /\ loader = t)
  /\ stack' = Advanced(t)
  /\ UNCHANGED <<status, owner, library, loader, registered>>

LoadFirst(t) ==
  /\ At(t, "load")
  /\ library = "unloaded"
  /\ library' = "loading"
  /\ loader' = t
  /\ stack' = Called(t, "JNI_OnLoad", JNI_OnLoad)
  /\ UNCHANGED <<status, owner, registered>>

RegisterNatives(t) ==
  /\ At(t, "register")
  /\ registered' = registered \cup {Step(t).class}
  /\ stack' = Advanced(t)
  /\ UNCHANGED <<status, owner, library, loader>>

NativeCall(t) ==
  /\ At(t, "native")
  /\ Step(t).class \in registered
  /\ stack' = Advanced(t)
  /\ UNCHANGED <<status, owner, library, loader, registered>>

\* DEFAULT_INSTANCE is null as long as the class is being initialised.
Dereference(t) ==
  /\ At(t, "deref")
  /\ status[Step(t).class] = "initialized"
  /\ stack' = Advanced(t)
  /\ UNCHANGED <<status, owner, library, loader, registered>>

\* The reaper's first step in its loop is a use of Arena.referenceQueue.
Start(t) ==
  /\ At(t, "start")
  /\ stack' = [Advanced(t) EXCEPT ![Reaper] = <<[name |-> "run", steps |-> <<Use("Arena")>>]>>]
  /\ UNCHANGED <<status, owner, library, loader, registered>>

Return(t) ==
  /\ ~Idle(t) /\ stack[t][1].steps = <<>>
  /\ LET c == stack[t][1].name IN
       /\ status' = IF c \in Classes THEN [status EXCEPT ![c] = "initialized"] ELSE status
       /\ library' = IF c = "JNI_OnLoad" THEN "loaded" ELSE library
  /\ stack' = [stack EXCEPT ![t] = Tail(@)]
  /\ UNCHANGED <<owner, loader, registered>>

\* An exception - UnsatisfiedLinkError, NullPointerException or, for a class that
\* is in error already, NoClassDefFoundError - ends every initialiser under way.
Fails(t) ==
  \/ At(t, "native") /\ Step(t).class \notin registered
  \/ At(t, "deref") /\ status[Step(t).class] # "initialized"
  \/ At(t, "use") /\ status[Step(t).class] = "erroneous"

Throw(t) ==
  /\ Fails(t)
  /\ status' = [c \in Classes |->
       IF \E i \in DOMAIN stack[t] : stack[t][i].name = c THEN "erroneous" ELSE status[c]]
  /\ stack' = [stack EXCEPT ![t] = <<>>]
  /\ UNCHANGED <<owner, library, loader, registered>>

ThreadStep(t) ==
  \/ UseAvailable(t) \/ UseFirst(t)
  \/ LoadAvailable(t) \/ LoadFirst(t)
  \/ RegisterNatives(t) \/ NativeCall(t) \/ Dereference(t) \/ Start(t)
  \/ Return(t) \/ Throw(t)

Next ==
  \/ \E t \in Threads, c \in EntryPoints : Begin(t, c)
  \/ \E t \in AllThreads : ThreadStep(t)

\* Threads that can run are scheduled; the program need not use anything.
Spec == Init /\ [][Next]_vars /\ \A t \in AllThreads : WF_vars(ThreadStep(t))

----------------------------------------------------------------------------
(* Properties.                                                             *)

\* No native method is called before JNI_OnLoad has registered it, also where the
\* class is used by one thread while JNI_OnLoad runs in another, or further down
\* the stack of the same one.
NativesRegistered ==
  \A t \in AllThreads : At(t, "native") => Step(t).class \in registered

\* U is the type of a field of T, directly or further down.
Links(T) == {LinksOf[T][i] : i \in DOMAIN LinksOf[T]}
Linking(S) == UNION {Links(T) : T \in S}
Contains(T, U) == \A S \in SUBSET Generated : Linking({T} \cup S) \subseteq S => U \in S
Recursive(T) == Contains(T, T)

\* No default instance is used before it was built (message_template.inja:11,
\* JupbMessageLite.java:48-52), unless its type contains itself; and no class fails
\* but of types that contain such a type.
DefaultInstancesBuilt ==
  /\ \A t \in AllThreads :
       At(t, "deref") /\ ~Recursive(Step(t).class) => status[Step(t).class] = "initialized"
  /\ \A c \in Classes :
       status[c] = "erroneous" => c \in Generated /\ \E d \in Generated : Recursive(d) /\ Contains(c, d)

\* Who t waits for.
WaitsFor(t) ==
  {u \in AllThreads \ {t} :
     \/ At(t, "use") /\ status[Step(t).class] = "initializing" /\ owner[Step(t).class] = u
     \/ At(t, "load") /\ library = "loading" /\ loader = u}

\* No threads wait for each other in a circle: in the order in which Arena,
\* Messages, Minitable and the library are entered there is always one that can go on.
NoWaitCycle ==
  \A S \in SUBSET AllThreads : S # {} => \E t \in S : WaitsFor(t) \cap S = {}

\* Every first use comes to its end.
EveryUseReturns == \A t \in AllThreads : ~Idle(t) ~> Idle(t)
=============================================================================
