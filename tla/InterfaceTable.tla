--------------------------- MODULE InterfaceTable ---------------------------
(***************************************************************************)
(* The native tables behind org.freedesktop.wayland.Interface.             *)
(*                                                                         *)
(* interface.c builds a struct wl_jni_interface the first time C needs the *)
(* struct wl_interface of a Java Interface: its messages are copied one    *)
(* after the other, and the type of an argument is the table of another    *)
(* Interface, built on the spot when that one has none.  interface_ptr is  *)
(* stored last, no lock is taken, and the finalizer of the Java object     *)
(* frees the table, if there is one.                                       *)
(*                                                                         *)
(* Requests and events are built and freed by the same code, one after the *)
(* other: Messages[i] is the requests of i followed by its events.  A      *)
(* message is the sequence of its argument types, None for an argument     *)
(* without one.                                                            *)
(***************************************************************************)
EXTENDS Naturals, Sequences, FiniteSets

CONSTANTS Interfaces,  \* Java Interface objects
          Messages,    \* Messages[i]: the types of the messages of i
          Below,       \* the pairs << j, i >> with j constructed before i
          Threads,     \* Java threads
          Tables,      \* memory blocks a table can be built in
          None,        \* null, NULL
          Moves        \* "memory": malloc and the JVM may run out of memory
                       \* "noMethod": get_java_method may fail
                       \* "race": threads may build tables at the same time

\* Message(name, signature, types) takes Interface objects: those constructed
\* before, and null for the one whose class is being initialised.
ASSUME InterfaceAssumption ==
  /\ None \notin Interfaces \cup Tables
  /\ Moves \subseteq {"memory", "noMethod", "race"}
  /\ Messages \in [Interfaces -> Seq(Seq(Interfaces \cup {None}))]
  /\ \A i \in Interfaces : << i, i >> \notin Below
  /\ \A h, i, j \in Interfaces :
       << h, j >> \in Below /\ << j, i >> \in Below => << h, i >> \in Below
  /\ \A i \in Interfaces : \A m \in 1..Len(Messages[i]) :
       \A k \in 1..Len(Messages[i][m]) :
         Messages[i][m][k] # None => << Messages[i][m][k], i >> \in Below

VARIABLES
  pointer,   \* pointer[i]: the field interface_ptr
  owner,     \* owner[t]: the interface block t was allocated for, None if free
  messages,  \* messages[t]: the messages finished in t, each the sequence of
             \* the tables its types point to
  stack,     \* stack[th]: the frames of create_native_interface, innermost first
  kept,      \* the interfaces the application can reach from a root
  finalized, \* the interfaces whose finalizer has run
  stray      \* the name, signature and types of a copied message stay allocated
             \* with no pointer to them (history)
vars == << pointer, owner, messages, stack, kept, finalized, stray >>

\* A frame is in the message after the finished ones, with types done so far.
Frame == [table : Tables, types : Seq(Tables \cup {None})]

TypeOK ==
  /\ pointer \in [Interfaces -> Tables \cup {None}]
  /\ owner \in [Tables -> Interfaces \cup {None}]
  /\ messages \in [Tables -> Seq(Seq(Tables \cup {None}))]
  /\ stack \in [Threads -> Seq(Frame)]
  /\ kept \in SUBSET Interfaces
  /\ finalized \in SUBSET Interfaces
  /\ stray \in BOOLEAN
  /\ \A t \in Tables : owner[t] = None => messages[t] = << >>

\* new Interface(...)
Init ==
  /\ pointer = [i \in Interfaces |-> None]
  /\ owner = [t \in Tables |-> None]
  /\ messages = [t \in Tables |-> << >>]
  /\ stack = [th \in Threads |-> << >>]
  /\ kept = Interfaces
  /\ finalized = {}
  /\ stray = FALSE

-----------------------------------------------------------------------------

FrameTables(th) == {stack[th][k].table : k \in 1..Len(stack[th])}
Building == UNION {FrameTables(th) : th \in Threads}
Unused == {t \in Tables : owner[t] = None}

\* The block malloc returns; no step depends on which one it is.
Fresh == CHOOSE t \in Tables : t \in Unused

\* Java reachability: an Interface holds its messages and they their types; a
\* thread holds the interfaces it is building tables for.
Names(i) == {j \in Interfaces :
               \E m \in 1..Len(Messages[i]) :
                 \E k \in 1..Len(Messages[i][m]) : Messages[i][m][k] = j}
Closed(S) == \A i \in S : Names(i) \subseteq S
Needs ==
  [i \in Interfaces |->
     {j \in Interfaces : \A S \in SUBSET Interfaces : i \in S /\ Closed(S) => j \in S}]
Roots == kept \cup {owner[t] : t \in Building}
Reachable == UNION {Needs[i] : i \in Roots}

\* The frame thread th is in, the interface and the message it is building.
Top(th) == Head(stack[th])
Current(th) == Messages[owner[Top(th).table]]
Index(th) == Len(messages[Top(th).table]) + 1

\* create_native_interface starts on i: the table, its name and its arrays.
\* Bound: there is a block left.
Push(th, i) ==
  /\ Unused # {}
  /\ owner' = [owner EXCEPT ![Fresh] = i]
  /\ stack' = [stack EXCEPT ![th] = << [table |-> Fresh, types |-> << >>] >> \o @]

\* wl_jni_interface_from_java, called for a proxy, a resource or a global; with
\* a table in interface_ptr it returns that one.
Ask(th, i) ==
  /\ stack[th] = << >>
  /\ i \in kept
  /\ pointer[i] = None
  /\ "race" \in Moves \/ Building = {}
  /\ Push(th, i)
  /\ UNCHANGED << pointer, messages, kept, finalized, stray >>

\* The innermost of the frames gets these types.
WithTypes(frames, types) == [frames EXCEPT ![1].types = types]

\* msg->types[type] = ...
StoreType(th, type) ==
  stack' = [stack EXCEPT ![th] = WithTypes(@, Append(Top(th).types, type))]

\* get_native_message is at a type that is null or has a table.
TakeType(th) ==
  /\ stack[th] # << >>
  /\ Index(th) <= Len(Current(th))
  /\ LET done == Len(Top(th).types)
     IN /\ done < Len(Current(th)[Index(th)])
        /\ LET type == Current(th)[Index(th)][done + 1]
           IN \/ type = None /\ StoreType(th, None)
              \/ /\ type # None
                 /\ pointer[type] # None
                 /\ StoreType(th, pointer[type])
  /\ UNCHANGED << pointer, owner, messages, kept, finalized, stray >>

\* get_native_message is at a type without a table.
BuildType(th) ==
  /\ stack[th] # << >>
  /\ Index(th) <= Len(Current(th))
  /\ LET done == Len(Top(th).types)
     IN /\ done < Len(Current(th)[Index(th)])
        /\ LET type == Current(th)[Index(th)][done + 1]
           IN /\ type # None
              /\ pointer[type] = None
              /\ Push(th, type)
  /\ UNCHANGED << pointer, messages, kept, finalized, stray >>

MessageReady(th) ==
  /\ stack[th] # << >>
  /\ Index(th) <= Len(Current(th))
  /\ Len(Top(th).types) = Len(Current(th)[Index(th)])

\* get_native_message returns and get_java_method finds the handler.
FinishMessage(th) ==
  /\ MessageReady(th)
  /\ messages' = [messages EXCEPT ![Top(th).table] = Append(@, Top(th).types)]
  /\ stack' = [stack EXCEPT ![th] = WithTypes(@, << >>)]
  /\ UNCHANGED << pointer, owner, kept, finalized, stray >>

\* The caller takes the table: get_native_message as the type it is at.
ReturnTo(th, frames, t) ==
  stack' = [stack EXCEPT ![th] =
              IF frames = << >> THEN << >>
              ELSE WithTypes(frames, Append(Head(frames).types, t))]

MutPublishFreesOld(th) ==
  /\ stack[th] # << >>
  /\ Index(th) > Len(Current(th))
  /\ LET t == Top(th).table
         old == {pointer[owner[t]]} \ {None}
     IN /\ pointer' = [pointer EXCEPT ![owner[t]] = t]
        /\ owner' = [b \in Tables |-> IF b \in old THEN None ELSE owner[b]]
        /\ messages' = [b \in Tables |-> IF b \in old THEN << >> ELSE messages[b]]
        /\ ReturnTo(th, Tail(stack[th]), t)
  /\ UNCHANGED << kept, finalized, stray >>

\* All messages are there: interface_ptr is stored and the table returned.
Publish(th) ==
  /\ stack[th] # << >>
  /\ Index(th) > Len(Current(th))
  /\ LET t == Top(th).table
     IN /\ pointer' = [pointer EXCEPT ![owner[t]] = t]
        /\ ReturnTo(th, Tail(stack[th]), t)
  /\ UNCHANGED << owner, messages, kept, finalized, stray >>

MutUndoOutermost(th) ==
  LET out == {stack[th][Len(stack[th])].table}
  IN /\ owner' = [t \in Tables |-> IF t \in out THEN None ELSE owner[t]]
     /\ messages' = [t \in Tables |-> IF t \in out THEN << >> ELSE messages[t]]
     /\ stack' = [stack EXCEPT ![th] = << >>]
     /\ UNCHANGED << pointer, kept, finalized >>

\* delete_types, delete_events, delete_methods, delete_name, delete_interface
\* in every frame: each sees the exception of the one it called.  The loops that
\* free the messages start below the one that failed, which get_native_message
\* has freed itself if it is the one that did.
Undo(th) ==
  LET out == FrameTables(th)
  IN /\ owner' = [t \in Tables |-> IF t \in out THEN None ELSE owner[t]]
     /\ messages' = [t \in Tables |-> IF t \in out THEN << >> ELSE messages[t]]
     /\ stack' = [stack EXCEPT ![th] = << >>]
     /\ UNCHANGED << pointer, kept, finalized >>

\* An allocation fails anywhere in a table or a message.
OutOfMemory(th) ==
  /\ "memory" \in Moves
  /\ stack[th] # << >>
  /\ Undo(th)
  /\ UNCHANGED stray

\* get_java_method fails, mostly because the class has no handler, for the
\* message just copied: its name, signature and types stay allocated.
MethodMissing(th) ==
  /\ "noMethod" \in Moves
  /\ MessageReady(th)
  /\ Undo(th)
  /\ stray' = TRUE

Drop(i) ==
  /\ i \in kept
  /\ kept' = kept \ {i}
  /\ UNCHANGED << pointer, owner, messages, stack, finalized, stray >>

MutFreesTypesToo(i) ==
  {pointer[i]} \cup {t \in Tables : \E m \in 1..Len(messages[pointer[i]]) :
                      \E k \in 1..Len(messages[pointer[i]][m]) :
                        messages[pointer[i]][m][k] = t}

\* destroyNative frees the table and what its messages own, not their types.
FreedWith(i) == {pointer[i]}

\* Interface.finalize: destroyNative for an interface that has a table.
Finalize(i) ==
  /\ i \notin Reachable \cup finalized
  /\ finalized' = finalized \cup {i}
  /\ LET out == IF pointer[i] = None THEN {} ELSE FreedWith(i)
     IN /\ owner' = [t \in Tables |-> IF t \in out THEN None ELSE owner[t]]
        /\ messages' = [t \in Tables |-> IF t \in out THEN << >> ELSE messages[t]]
  /\ pointer' = [pointer EXCEPT ![i] = None]
  /\ UNCHANGED << stack, kept, stray >>

-----------------------------------------------------------------------------

Advance(th) ==
  \/ TakeType(th)
  \/ BuildType(th)
  \/ FinishMessage(th)
  \/ Publish(th)

Fail(th) == OutOfMemory(th) \/ MethodMissing(th)

Next ==
  \/ \E th \in Threads, i \in Interfaces : Ask(th, i)
  \/ \E th \in Threads : Advance(th)
  \/ \E th \in Threads : Fail(th)
  \/ \E i \in Interfaces : Drop(i) \/ Finalize(i)

Spec == Init /\ [][Next]_vars

-----------------------------------------------------------------------------
(* Properties. *)

\* The table of type i[m][k] is the one messages[t][m][k] points to.
Describes(t, i) ==
  /\ owner[t] = i
  /\ Len(messages[t]) = Len(Messages[i])
  /\ \A m \in 1..Len(Messages[i]) :
       /\ Len(messages[t][m]) = Len(Messages[i][m])
       /\ \A k \in 1..Len(Messages[i][m]) :
            IF Messages[i][m][k] = None THEN messages[t][m][k] = None
            ELSE /\ messages[t][m][k] \in Tables
                 /\ owner[messages[t][m][k]] = Messages[i][m][k]

\* A table another thread or a later call can read is finished, and as long as
\* its Interface is reachable every type in it leads to a table of the right
\* interface that is still allocated: whatever failed, raced or was finalized.
ReadableIsWhole ==
  \A i \in Reachable : pointer[i] # None => Describes(pointer[i], i)

\* Blocks nobody will free.
Lost(t) ==
  /\ owner[t] # None /\ t \notin Building
  /\ pointer[owner[t]] # t \/ owner[t] \in finalized

\* A table is lost in one way only: another thread built the table of the same
\* interface meanwhile.  A creation that fails leaves no table behind, however
\* deep it was, and no message it had copied but one get_java_method failed for.
OnlyRacesLose ==
  /\ \A t \in Tables : Lost(t) =>
       /\ "race" \in Moves
       /\ pointer[owner[t]] # t
       /\ pointer[owner[t]] # None \/ owner[t] \in finalized
  /\ stray => "noMethod" \in Moves

\* libwayland keeps the struct wl_interface of a global, a resource or a proxy
\* for good: while its Interface is reachable no step frees, refills or writes
\* to a finished table, also one whose interface_ptr a race has overwritten.
TablesStay ==
  [][\A t \in Tables \ Building :
       owner[t] \in Reachable =>
         t \notin Building' /\ owner'[t] = owner[t] /\ messages'[t] = messages[t]]_vars
=============================================================================
