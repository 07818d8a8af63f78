------------------------------ MODULE Multicast ------------------------------
(***************************************************************************)
(* What a Pt::Signal promises to its users, without iterators, sentries or *)
(* deferred clean-up.  Connections are numbered in the order they are      *)
(* opened.  A send serves every connection that was open when it began and *)
(* is still open when its turn comes, once, in the order they were opened. *)
(* Sends nest: a slot may send the same signal again.                      *)
(***************************************************************************)
EXTENDS Integers

CONSTANTS MaxConn,   \* the number of connections ever opened
          MaxDepth   \* how deep sends of the signal nest

Conns == 1..MaxConn
Levels == 1..MaxDepth

VARIABLES opened,   \* the number of connections opened so far
          open,     \* the connections that are open
          depth,    \* the number of sends in progress
          todo,     \* per level: the connections this send still has to serve
          callee    \* per level: the connection whose slot runs, or 0

mcVars == <<opened, open, depth, todo, callee>>

Init ==
  /\ opened = 0
  /\ open = {}
  /\ depth = 0
  /\ todo = [k \in Levels |-> {}]
  /\ callee = [k \in Levels |-> 0]

(* Code of the user runs: outside any send, or in the slot being called.   *)
UserRuns == depth # 0 => callee[depth] # 0

(* Close any set of connections; open new ones, with the next numbers.     *)
Change ==
  /\ UserRuns
  /\ \E closed \in SUBSET Conns, n \in 0..MaxConn :
       /\ opened + n <= MaxConn
       /\ opened' = opened + n
       /\ open' = (open \ closed) \cup ((opened + 1)..(opened + n))
       /\ todo' = [k \in Levels |-> todo[k] \ closed]
  /\ UNCHANGED <<depth, callee>>

Begin ==
  /\ UserRuns
  /\ depth < MaxDepth
  /\ depth' = depth + 1
  /\ todo' = [todo EXCEPT ![depth + 1] = open]
  /\ UNCHANGED <<opened, open, callee>>

Call ==
  /\ depth > 0
  /\ callee[depth] = 0
  /\ \E c \in todo[depth] :
       /\ \A d \in todo[depth] : c <= d
       /\ callee' = [callee EXCEPT ![depth] = c]
       /\ todo' = [todo EXCEPT ![depth] = @ \ {c}]
  /\ UNCHANGED <<opened, open, depth>>

Return ==
  /\ depth > 0
  /\ callee[depth] # 0
  /\ callee' = [callee EXCEPT ![depth] = 0]
  /\ UNCHANGED <<opened, open, depth, todo>>

(* A send returns normally only when nothing is left to serve.             *)
Finish ==
  /\ depth > 0
  /\ callee[depth] = 0
  /\ todo[depth] = {}
  /\ depth' = depth - 1
  /\ UNCHANGED <<opened, open, todo, callee>>

(* An exception leaves the slot: the rest of this send is given up.        *)
Abort ==
  /\ depth > 0
  /\ callee[depth] # 0
  /\ depth' = depth - 1
  /\ callee' = [callee EXCEPT ![depth] = 0]
  /\ todo' = [todo EXCEPT ![depth] = {}]
  /\ UNCHANGED <<opened, open>>

Next == Change \/ Begin \/ Call \/ Return \/ Finish \/ Abort

Spec == Init /\ [][Next]_mcVars
=============================================================================
