---------------------------- MODULE DuplexProofs -----------------------------
(***************************************************************************)
(* Proofs about Duplex for the selectors that keep their books: poll, and  *)
(* epoll if the word given to epoll_ctl happens to be zero.  For select    *)
(* (run duplex_select), and for epoll otherwise, NeverBlocks does not hold.*)
(*                                                                         *)
(* The argument: the selector watches a direction exactly while somebody   *)
(* waits for it, so that what it reported is still possible (nobody but    *)
(* the owner of the buffer takes input or fills room), and the application *)
(* was told of nothing else.                                               *)
(***************************************************************************)
EXTENDS Duplex, TLAPS

USE DuplexAssumption DEF DuplexAssumption

LEMMA TypeInit == Init => TypeOK
<1>. SUFFICES ASSUME Init PROVE TypeOK
  OBVIOUS
<1>1. input \in 0..MaxInput /\ sent \in 0..MaxSends
  BY DEF Init
<1>2. op \in [Dirs -> {"none", "waits", "ready"}]
  BY DEF Init
<1>. QED
  BY <1>1, <1>2 DEF Init, TypeOK

LEMMA TransferType ==
  ASSUME TypeOK, NEW d \in Dirs, Can(d), Transfer(d)
  PROVE  input' \in 0..MaxInput /\ room' \in BOOLEAN /\ sent' \in 0..MaxSends
  BY DEF TypeOK, Can, Transfer, Dirs

LEMMA TypeStep == TypeOK /\ [Next]_vars => TypeOK'
<1>. SUFFICES ASSUME TypeOK, [Next]_vars PROVE TypeOK'
  OBVIOUS
<1>0. backend' = backend
  BY DEF Next, vars
<1>. USE <1>0
<1>1. CASE PeerSends
  BY <1>1 DEF TypeOK, PeerSends, Notify, loopVars
<1>2. CASE PeerReads
  BY <1>2 DEF TypeOK, PeerReads, Notify, loopVars
<1>3. ASSUME NEW d \in Dirs, Begin(d) PROVE TypeOK'
  <2>1. CASE Can(d)
    <3>1. Transfer(d) /\ op' = [op EXCEPT ![d] = "ready"] /\ avail' = TRUE
      BY <1>3, <2>1 DEF Begin
    <3>2. input' \in 0..MaxInput /\ room' \in BOOLEAN /\ sent' \in 0..MaxSends
      BY <2>1, <3>1, TransferType
    <3>3. op' \in [Dirs -> {"none", "waits", "ready"}]
      BY <3>1 DEF TypeOK
    <3>. QED
      BY <1>3, <2>1, <3>1, <3>2, <3>3 DEF TypeOK, Begin, selectorVars, epollVars, loopVars
  <2>2. CASE ~Can(d)
    BY <1>3, <2>2 DEF TypeOK, Begin, SelectorBegin, socketVars, epollVars, loopVars
  <2>. QED
    BY <2>1, <2>2
<1>4. ASSUME NEW d \in Dirs, End(d) PROVE TypeOK'
  <2>1. CASE op[d] = "ready"
    BY <1>4, <2>1 DEF TypeOK, End, Ended, socketVars, selectorVars, epollVars
  <2>2. CASE op[d] = "waits" /\ Can(d)
    <3>1. Ended(d) /\ SelectorEnd(d) /\ Transfer(d) /\ UNCHANGED <<blocked, avail, pc, back>>
      BY <1>4, <2>2 DEF End
    <3>2. input' \in 0..MaxInput /\ room' \in BOOLEAN /\ sent' \in 0..MaxSends
      BY <2>2, <3>1, TransferType
    <3>3. interest' \subseteq Dirs /\ reported' \subseteq Dirs
      BY <3>1 DEF TypeOK, SelectorEnd
    <3>. QED
      BY <3>1, <3>2, <3>3 DEF TypeOK, Ended, SelectorEnd, epollVars
  <2>3. CASE op[d] = "waits" /\ ~Can(d)
    <3>1. /\ SelectorEnd(d) /\ blocked' = {d}
          /\ UNCHANGED <<socketVars, op, told, avail, pc, back>>
      BY <1>4, <2>3 DEF End
    <3>2. interest' \subseteq Dirs /\ reported' \subseteq Dirs
      BY <3>1 DEF TypeOK, SelectorEnd
    <3>. QED
      BY <3>1, <3>2 DEF TypeOK, SelectorEnd, socketVars, epollVars
  <2>. QED
    BY <1>4, <2>1, <2>2, <2>3 DEF End
<1>5. ASSUME NEW d \in Dirs, Unblock(d) PROVE TypeOK'
  <2>1. input' \in 0..MaxInput /\ room' \in BOOLEAN /\ sent' \in 0..MaxSends
    BY <1>5, TransferType DEF Unblock
  <2>. QED
    BY <1>5, <2>1 DEF TypeOK, Unblock, Ended, selectorVars, epollVars
<1>6. CASE Cancel
  BY <1>6 DEF TypeOK, Cancel, SelectorCancel, socketVars, loopVars
<1>7. CASE Avail
  BY <1>7 DEF TypeOK, Avail, Goto, socketVars, selectorVars, epollVars
<1>8. CASE WaitLevel
  BY <1>8 DEF TypeOK, WaitLevel, CanDo, Goto, socketVars, epollVars
<1>9. CASE WaitEdge
  BY <1>9 DEF TypeOK, WaitEdge, CanDo, Goto, socketVars
<1>10. CASE Run
  BY <1>10 DEF TypeOK, Run, Goto, Dirs, socketVars, selectorVars, epollVars
<1>11. CASE Return
  BY <1>11 DEF TypeOK, Return, Goto, socketVars, selectorVars, epollVars
<1>12. CASE UNCHANGED vars
  BY <1>12 DEF TypeOK, vars, moving, socketVars, selectorVars, epollVars, loopVars
<1>. QED
  BY <1>1, <1>2, <1>3, <1>4, <1>5, <1>6, <1>7, <1>8, <1>9, <1>10, <1>11, <1>12
     DEF Next, LoopStep, Wait

(* The variables keep their types whatever the selector.                   *)
THEOREM TypeCorrect == Spec => []TypeOK
  BY TypeInit, TypeStep, PTL DEF Spec

-----------------------------------------------------------------------------
(* The books of the selector.                                              *)

Sound == backend = "poll" \/ (backend = "epoll" /\ Garbage = {})

(* What is watched is waited for, and what was reported is still possible. *)
Watched ==
  /\ interest = {d \in Dirs : op[d] = "waits"}
  /\ \A d \in reported : d \in interest /\ Can(d)
  /\ mask \subseteq known

(* The application was told the truth, and only what this handler is for.  *)
ToldTrue ==
  /\ told \subseteq (CASE pc = "input" -> {"read"} [] pc = "output" -> {"write"} [] OTHER -> {})
  /\ \A d \in told : op[d] = "ready" \/ (op[d] = "waits" /\ d \in reported)
  /\ blocked = {}

IInv == Watched /\ ToldTrue

LEMMA InitIInv == Init => IInv
  BY DEF Init, IInv, Watched, ToldTrue

(* A transfer leaves what the other direction can do alone.                *)
LEMMA TransferKeeps ==
  ASSUME NEW d \in Dirs, Transfer(d), NEW e \in Dirs, e # d, Can(e)
  PROVE  Can(e)'
  BY DEF Transfer, Can, Dirs

LEMMA BeginKeeps ==
  ASSUME TypeOK, IInv, NEW d \in Dirs, Begin(d)
  PROVE  IInv'
<1>. USE DEF TypeOK, IInv, Watched, ToldTrue
<1>1. op[d] = "none" /\ d \notin interest /\ d \notin reported /\ d \notin told
  BY DEF Begin
<1>2. CASE Can(d)
  <2>1. Transfer(d) /\ op' = [op EXCEPT ![d] = "ready"] /\ UNCHANGED <<selectorVars, told, pc, blocked>>
    BY <1>2 DEF Begin, loopVars
  <2>2. \A e \in reported : Can(e)'
    BY <1>1, <2>1, TransferKeeps
  <2>. QED
    BY <1>1, <2>1, <2>2 DEF selectorVars, epollVars
<1>3. CASE ~Can(d)
  <2>1. op' = [op EXCEPT ![d] = "waits"] /\ SelectorBegin(d) /\ UNCHANGED <<socketVars, told, pc, blocked>>
    BY <1>3 DEF Begin, loopVars
  <2>2. \A e \in Dirs : Can(e)' <=> Can(e)
    BY <2>1 DEF Can, socketVars
  <2>. QED
    BY <1>1, <2>1, <2>2 DEF SelectorBegin, epollVars
<1>. QED
  BY <1>2, <1>3

(* endRead and endWrite forget what was reported of their direction.       *)
LEMMA EndKeeps ==
  ASSUME Sound, TypeOK, IInv, NEW d \in Dirs, End(d)
  PROVE  IInv'
<1>. USE DEF TypeOK, IInv, Watched, ToldTrue
<1>1. CASE op[d] = "ready"
  <2>1. Ended(d) /\ UNCHANGED <<socketVars, selectorVars, pc, blocked>>
    BY <1>1 DEF End
  <2>2. \A e \in Dirs : Can(e)' <=> Can(e)
    BY <2>1 DEF Can, socketVars
  <2>. QED
    BY <1>1, <2>1, <2>2 DEF Ended, selectorVars, epollVars
<1>2. CASE op[d] = "waits"
  <2>1. d \in reported /\ Can(d)
    BY <1>2 DEF End
  <2>2. Ended(d) /\ SelectorEnd(d) /\ Transfer(d) /\ UNCHANGED <<pc, blocked>>
    BY <1>2, <2>1 DEF End
  <2>3. interest' = interest \ {d} /\ reported' \subseteq reported \ {d}
    BY <2>2 DEF SelectorEnd, Sound
  <2>4. \A e \in reported' : Can(e)'
    BY <2>2, <2>3, TransferKeeps
  <2>5. told' = {}
    BY <2>2 DEF Ended, End
  <2>. QED
    BY <2>2, <2>3, <2>4, <2>5 DEF Ended, SelectorEnd, epollVars
<1>. QED
  BY <1>1, <1>2 DEF End

LEMMA WaitKeeps ==
  ASSUME Sound, TypeOK, IInv, WaitLevel \/ WaitEdge
  PROVE  IInv'
<1>. USE DEF TypeOK, IInv, Watched, ToldTrue
<1>1. \A e \in Dirs : Can(e)' <=> Can(e)
  BY DEF WaitLevel, WaitEdge, Can, socketVars
<1>2. told = {} /\ told' = {} /\ blocked' = {} /\ op' = op /\ interest' = interest
  BY DEF WaitLevel, WaitEdge, Goto
<1>3. CASE WaitLevel
  BY <1>1, <1>2, <1>3 DEF WaitLevel, CanDo, epollVars
<1>4. CASE WaitEdge
  <2>1. Garbage = {}
    BY <1>4 DEF WaitEdge, Sound
  <2>2. mask' \subseteq interest /\ known' = interest
    BY <1>4, <2>1 DEF WaitEdge
  <2>3. reported' \subseteq reported \cup CanDo(mask')
    BY <1>4 DEF WaitEdge
  <2>4. \A e \in CanDo(mask') : e \in interest /\ Can(e)
    BY <2>2 DEF CanDo
  <2>. QED
    BY <1>1, <1>2, <2>2, <2>3, <2>4
<1>. QED
  BY <1>3, <1>4

LEMMA RunKeeps ==
  ASSUME IInv, Run
  PROVE  IInv'
<1>. USE DEF IInv, Watched, ToldTrue
<1>1. /\ UNCHANGED <<op, interest, reported, mask, known, blocked>>
      /\ told = {}
  BY DEF Run, Goto, selectorVars, epollVars
<1>2. \A e \in Dirs : Can(e)' <=> Can(e)
  BY DEF Run, Can, socketVars
<1>3. \/ told' = {"read"} /\ pc' = "input" /\ Ready("read")
      \/ told' = {"write"} /\ pc' = "output" /\ Ready("write")
      \/ told' = {}
  BY <1>1 DEF Run, Goto
<1>. QED
  BY <1>1, <1>2, <1>3 DEF Ready

LEMMA IInvStep == Sound /\ TypeOK /\ IInv /\ [Next]_vars => IInv'
<1>. SUFFICES ASSUME Sound, TypeOK, IInv, [Next]_vars PROVE IInv'
  OBVIOUS
<1>1. ASSUME NEW d \in Dirs, Begin(d) PROVE IInv'
  BY <1>1, BeginKeeps
<1>2. ASSUME NEW d \in Dirs, End(d) PROVE IInv'
  BY <1>2, EndKeeps
<1>3. ASSUME NEW d \in Dirs, Unblock(d) PROVE IInv'
  BY <1>3 DEF Unblock, IInv, ToldTrue
<1>4. CASE WaitLevel \/ WaitEdge
  BY <1>4, WaitKeeps
<1>5. CASE Run
  BY <1>5, RunKeeps
<1>. USE DEF IInv, Watched, ToldTrue
<1>6. CASE PeerSends
  <2>1. \A e \in Dirs : Can(e) => Can(e)'
    BY <1>6 DEF PeerSends, Can, TypeOK
  <2>. QED
    BY <1>6, <2>1 DEF PeerSends, loopVars, TypeOK
<1>7. CASE PeerReads
  <2>1. \A e \in Dirs : Can(e) => Can(e)'
    BY <1>7 DEF PeerReads, Can
  <2>. QED
    BY <1>7, <2>1 DEF PeerReads, loopVars, TypeOK
<1>8. CASE Cancel
  BY <1>8 DEF Cancel, SelectorCancel, Sound, loopVars
<1>9. CASE Avail
  <2>1. \A e \in Dirs : Can(e)' <=> Can(e)
    BY <1>9 DEF Avail, Can, socketVars
  <2>. QED
    BY <1>9, <2>1 DEF Avail, Goto, selectorVars, epollVars
<1>10. CASE Return
  <2>1. \A e \in Dirs : Can(e)' <=> Can(e)
    BY <1>10 DEF Return, Can, socketVars
  <2>. QED
    BY <1>10, <2>1 DEF Return, Goto, selectorVars, epollVars
<1>11. CASE UNCHANGED vars
  <2>1. \A e \in Dirs : Can(e)' <=> Can(e)
    BY <1>11 DEF vars, moving, Can, socketVars
  <2>. QED
    BY <1>11, <2>1 DEF vars, moving, selectorVars, epollVars, loopVars
<1>. QED
  BY <1>1, <1>2, <1>3, <1>4, <1>5, <1>6, <1>7, <1>8, <1>9, <1>10, <1>11
     DEF Next, LoopStep, Wait

(* endRead and endWrite do not stop the loop thread.                       *)
THEOREM EndsNeverBlock ==
  ASSUME "select" \notin Backends, "epoll" \in Backends => Garbage = {}
  PROVE  Spec => []NeverBlocks
<1>1. Init => TypeOK /\ IInv
  BY TypeInit, InitIInv
<1>2. TypeOK /\ IInv /\ [Next]_vars => (TypeOK /\ IInv)'
  <2>1. TypeOK => Sound
    BY DEF TypeOK, Sound
  <2>. QED
    BY <2>1, TypeStep, IInvStep
<1>3. TypeOK /\ IInv => NeverBlocks
  BY DEF IInv, ToldTrue, NeverBlocks
<1>. QED
  BY <1>1, <1>2, <1>3, PTL DEF Spec

-----------------------------------------------------------------------------
(* Ending one direction leaves the reports of the other alone.             *)

(* Steps with poll keep the reports.                                       *)
LEMMA KeptStep ==
  ASSUME backend = "poll", TypeOK, IInv, [Next]_vars
  PROVE  \A d \in Dirs : Kept(d)
<1>. USE DEF Kept, TypeOK
<1>1. CASE WaitLevel
  BY <1>1 DEF WaitLevel, CanDo, IInv, Watched, Can, socketVars
<1>2. ASSUME NEW d \in Dirs, Begin(d) PROVE \A e \in Dirs : Kept(e)
  BY <1>2 DEF Begin, SelectorBegin, selectorVars
<1>3. ASSUME NEW d \in Dirs, End(d) PROVE \A e \in Dirs : Kept(e)
  <2>1. reported' = reported \/ (reported' = reported \ {d} /\ Ended(d))
    BY <1>3 DEF End, SelectorEnd, selectorVars, IInv, Watched, ToldTrue
  <2>. QED
    BY <2>1 DEF Ended
<1>4. ASSUME NEW d \in Dirs, Unblock(d) PROVE \A e \in Dirs : Kept(e)
  BY <1>4 DEF Unblock, selectorVars
<1>5. CASE Cancel
  BY <1>5 DEF Cancel
<1>6. CASE PeerSends \/ PeerReads \/ Avail \/ Run \/ Return \/ UNCHANGED vars
  BY <1>6 DEF PeerSends, PeerReads, Avail, Run, Return, vars, moving, selectorVars
<1>. QED
  BY <1>1, <1>2, <1>3, <1>4, <1>5, <1>6 DEF Next, LoopStep, Wait, WaitEdge

(* With poll, what was reported of a direction stays until it is ended,    *)
(* whatever else is compiled in elsewhere.                                 *)
THEOREM DirectionsAreIndependent == Spec => PollKeepsReports
<1>. DEFINE PollIInv == TypeOK /\ (backend = "poll" => IInv)
            PollKept == backend = "poll" => \A d \in Dirs : Kept(d)
<1>1. Init => PollIInv
  BY TypeInit, InitIInv
<1>2. PollIInv /\ [Next]_vars => PollIInv'
  <2>1. [Next]_vars => backend' = backend
    BY DEF Next, vars
  <2>. QED
    BY <2>1, TypeStep, IInvStep DEF Sound
<1>3. PollIInv /\ [Next]_vars => [PollKept]_vars
  BY KeptStep
<1>. HIDE DEF PollIInv
<1>4. Spec => [][PollKept]_vars
  BY <1>1, <1>2, <1>3, PTL DEF Spec
<1>. QED
  BY <1>4 DEF PollKeepsReports
=============================================================================
