------------------------ MODULE SocketChecks_proofs ------------------------
(***************************************************************************)
(* Proofs about SocketChecks, for any kinds and any number of pieces.      *)
(*                                                                         *)
(* Settlement is what all of them rest on: a socket that lives belongs to  *)
(* a check that is pending, except for one that failed to begin, so what   *)
(* arrives late finds nothing to overturn and nothing to release.          *)
(***************************************************************************)
EXTENDS SocketChecks, SequenceTheorems, TLAPS

-----------------------------------------------------------------------------
(* The type invariant.                                                     *)

LEMMA ResolveType ==
    ASSUME TypeOK, NEW verdict \in {"up", "down"}, Resolve(verdict)
    PROVE  result' \in {"up", "down"} /\ (result # "pending" => result' = result)
  BY DEF TypeOK, Resolve

LEMMA FinishType ==
    ASSUME TypeOK, NEW verdict \in {"up", "down"}, Finish(verdict)
    PROVE  /\ timer' \in {"unset", "fired", "cleared"}
           /\ socket' \in {"none", "destroyed"}
           /\ completed' = TRUE /\ result' \in {"up", "down"}
           /\ result # "pending" => result' = result
           /\ result = "pending" => result' = verdict
  BY ResolveType DEF TypeOK, Finish, Resolve

LEMMA FinishOnceType ==
    ASSUME TypeOK, NEW verdict \in {"up", "down"}, FinishOnce(verdict)
    PROVE  \/ completed /\ UNCHANGED runVars
           \/ ~completed /\ Finish(verdict)
  BY DEF FinishOnce

(* The variables of the run keep their types in the handlers that settle.  *)
LEMMA RunTypes ==
    ASSUME TypeOK, NEW verdict \in {"up", "down"},
           Finish(verdict) \/ FinishOnce(verdict) \/ UNCHANGED runVars
    PROVE  /\ timer' \in {"unset", "armed", "fired", "cleared"}
           /\ socket' \in {"none", "live", "destroyed"}
           /\ completed' \in BOOLEAN
           /\ result' \in {"pending", "up", "down"}
           /\ completed' => result' # "pending"
  <1>1. CASE Finish(verdict)
    BY <1>1, FinishType
  <1>2. CASE UNCHANGED runVars
    BY <1>2 DEF TypeOK, runVars
  <1> QED
    BY <1>1, <1>2, FinishOnceType

LEMMA TypeStep == TypeOK /\ [Next]_vars => TypeOK'
  <1> SUFFICES ASSUME TypeOK, [Next]_vars
               PROVE  TypeOK'
    OBVIOUS
  <1>1. CASE Begin
    <2>1. /\ timer' \in {"armed", "cleared"} /\ socket' \in {"none", "live", "destroyed"}
          /\ stage' \in {"opening", "failed"}
      BY <1>1 DEF Begin
    <2>2. /\ completed' \in BOOLEAN /\ result' \in {"pending", "up", "down"}
          /\ completed' => result' # "pending"
      <3>1. CASE UNCHANGED <<completed, result>>
        BY <3>1 DEF TypeOK
      <3>2. CASE Resolve("down") /\ (UNCHANGED completed \/ completed' = TRUE)
        <4>1. result' \in {"up", "down"}
          BY <3>2, ResolveType
        <4>2. completed' \in BOOLEAN
          BY <3>2 DEF TypeOK
        <4> QED
          BY <4>1, <4>2
      <3> QED
        BY <1>1, <3>1, <3>2 DEF Begin
    <2> QED
      BY <1>1, <2>1, <2>2 DEF TypeOK, Begin
  <1>2. CASE TimerFires
    <2>1. /\ socket' \in {"none", "live", "destroyed"} /\ timer' = "fired"
          /\ completed' \in BOOLEAN /\ result' \in {"pending", "up", "down"}
          /\ completed' => result' # "pending"
      BY <1>2, ResolveType DEF TypeOK, TimerFires
    <2> QED
      BY <1>2, <2>1 DEF TypeOK, TimerFires
  <1>3. CASE Connected
    <2>1. FinishOnce("up") \/ UNCHANGED runVars
      BY <1>3 DEF Connected
    <2>2. writing' \in BOOLEAN
      BY <1>3 DEF TypeOK, Connected
    <2> QED
      BY <1>3, <2>1, <2>2, RunTypes DEF TypeOK, Connected
  <1>4. CASE WriteReturns
    <2>1. Finish("down") \/ Finish("up") \/ UNCHANGED runVars
      BY <1>4 DEF WriteReturns
    <2>2. stage' \in {"new", "failed", "opening", "open", "listening"}
      BY <1>4 DEF TypeOK, WriteReturns
    <2> QED
      BY <1>4, <2>1, <2>2, RunTypes DEF TypeOK, WriteReturns
  <1>5. CASE Breaks
    BY <1>5, RunTypes DEF TypeOK, Breaks
  <1>6. ASSUME NEW piece \in Pieces[check.kind], PeerSends(piece)
        PROVE  TypeOK'
    <2>1. /\ sent' \in Seq(Pieces[check.kind]) /\ Len(sent') = Len(sent) + 1
      BY <1>6, AppendProperties DEF TypeOK, PeerSends
    <2>2. read \in 0..Len(sent')
      BY <2>1, LenProperties DEF TypeOK
    <2> QED
      BY <1>6, <2>1, <2>2 DEF TypeOK, PeerSends, runVars
  <1>7. CASE TcpData
    <2>1. Finish("up") \/ UNCHANGED runVars
      BY <1>7 DEF TcpData
    <2>2. read' \in 0..Len(sent)
      BY <1>7, LenProperties DEF TypeOK, TcpData
    <2> QED
      BY <1>7, <2>1, <2>2, RunTypes DEF TypeOK, TcpData
  <1>8. CASE WebSocketMessage
    <2>1. PICK verdict \in {"up", "down"} : FinishOnce(verdict)
      BY <1>8 DEF WebSocketMessage
    <2>2. read' \in 0..Len(sent)
      BY <1>8, LenProperties DEF TypeOK, WebSocketMessage
    <2> QED
      BY <1>8, <2>1, <2>2, RunTypes DEF TypeOK, WebSocketMessage
  <1>9. CASE SteamMessage
    <2>1. PICK verdict \in {"up", "down"} : FinishOnce(verdict)
      BY <1>9 DEF SteamMessage
    <2>2. read' \in 0..Len(sent)
      BY <1>9, LenProperties DEF TypeOK, SteamMessage
    <2> QED
      BY <1>9, <2>1, <2>2, RunTypes DEF TypeOK, SteamMessage
  <1>10. CASE UNCHANGED vars
    BY <1>10 DEF TypeOK, vars, runVars
  <1> QED
    BY <1>1, <1>2, <1>3, <1>4, <1>5, <1>6, <1>7, <1>8, <1>9, <1>10 DEF Next

LEMMA InitType == Init => TypeOK
  <1> SUFFICES ASSUME Init
               PROVE  TypeOK
    OBVIOUS
  <1>1. sent \in Seq(Pieces[check.kind]) /\ Len(sent) = 0
    BY EmptySeq DEF Init
  <1>2. writing \in BOOLEAN /\ completed \in BOOLEAN /\ ~completed
    BY DEF Init
  <1>3. read \in 0..Len(sent)
    BY <1>1 DEF Init
  <1> QED
    BY <1>1, <1>2, <1>3 DEF Init, TypeOK

(* Every variable keeps its type, and a completed check has a result.      *)
THEOREM TypeCorrect == Spec => []TypeOK
  BY InitType, TypeStep, PTL DEF Spec

-----------------------------------------------------------------------------
(* How a check is settled.                                                 *)

Settlement ==
    /\ stage = "new" =>
        result = "pending" /\ socket = "none" /\ timer = "unset" /\ ~completed
    /\ Live => result = "pending" /\ ~completed
    /\ completed => socket # "live"
    /\ writing => stage = "open"
    /\ NeverStranded

LEMMA SettlementStep == TypeOK /\ Settlement /\ [Next]_vars => Settlement'
  <1> SUFFICES ASSUME TypeOK, Settlement, [Next]_vars
               PROVE  Settlement'
    OBVIOUS
  <1> USE DEF Settlement, NeverStranded, Live, Begun
  <1>0. ASSUME NEW verdict \in {"up", "down"}, stage # "new", stage' # "new",
               Finish(verdict) \/ FinishOnce(verdict),
               writing' => stage' = "open"
        PROVE  Settlement'
    <2>1. CASE Finish(verdict)
      BY <1>0, <2>1, FinishType
    <2>2. CASE completed /\ UNCHANGED runVars
      BY <1>0, <2>2 DEF runVars, TypeOK
    <2> QED
      BY <1>0, <2>1, <2>2, FinishOnceType
  <1>1. CASE Begin
    <2>1. CASE UNCHANGED <<completed, result>>
      BY <1>1, <2>1 DEF Begin
    <2>2. CASE Resolve("down")
      <3>1. result' # "pending"
        BY <2>2, ResolveType
      <3> QED
        BY <1>1, <2>2, <3>1 DEF Begin
    <2> QED
      BY <1>1, <2>1, <2>2 DEF Begin
  <1>2. CASE TimerFires
    <2>1. CASE completed /\ UNCHANGED <<socket, completed, result>>
      BY <1>2, <2>1 DEF TimerFires, TypeOK
    <2>2. CASE completed' = TRUE /\ socket' = "destroyed" /\ Resolve("down")
      <3>1. result' # "pending"
        BY <2>2, ResolveType
      <3>2. stage # "new"
        BY <1>2 DEF TimerFires, TypeOK
      <3> QED
        BY <1>2, <2>2, <3>1, <3>2 DEF TimerFires
    <2> QED
      BY <1>2, <2>1, <2>2 DEF TimerFires
  <1>3. CASE Connected
    <2>1. CASE FinishOnce("up") /\ UNCHANGED writing
      BY <1>3, <2>1, <1>0 DEF Connected
    <2>2. CASE UNCHANGED runVars
      BY <1>3, <2>2 DEF Connected, runVars
    <2> QED
      BY <1>3, <2>1, <2>2 DEF Connected
  <1>4. CASE WriteReturns
    <2>1. stage = "open" /\ stage' \in {"open", "listening"} /\ writing' = FALSE
      BY <1>4 DEF WriteReturns
    <2>2. CASE Finish("down") \/ Finish("up")
      BY <2>1, <2>2, <1>0
    <2>3. CASE UNCHANGED runVars
      BY <2>1, <2>3 DEF runVars
    <2> QED
      BY <1>4, <2>2, <2>3 DEF WriteReturns
  <1>5. CASE Breaks
    BY <1>5, <1>0 DEF Breaks
  <1>6. ASSUME NEW piece \in Pieces[check.kind], PeerSends(piece)
        PROVE  Settlement'
    BY <1>6 DEF PeerSends, runVars
  <1>7. CASE TcpData
    <2>1. CASE Finish("up")
      BY <1>7, <2>1, <1>0 DEF TcpData
    <2>2. CASE UNCHANGED runVars
      BY <1>7, <2>2 DEF TcpData, runVars
    <2> QED
      BY <1>7, <2>1, <2>2 DEF TcpData
  <1>8. CASE WebSocketMessage
    <2>1. PICK verdict \in {"up", "down"} : FinishOnce(verdict)
      BY <1>8 DEF WebSocketMessage
    <2> QED
      BY <1>8, <2>1, <1>0 DEF WebSocketMessage
  <1>9. CASE SteamMessage
    <2>1. PICK verdict \in {"up", "down"} : FinishOnce(verdict)
      BY <1>9 DEF SteamMessage
    <2> QED
      BY <1>9, <2>1, <1>0 DEF SteamMessage
  <1>10. CASE UNCHANGED vars
    BY <1>10 DEF vars, runVars
  <1> QED
    BY <1>1, <1>2, <1>3, <1>4, <1>5, <1>6, <1>7, <1>8, <1>9, <1>10 DEF Next

LEMMA AlwaysSettlement == Spec => []Settlement
  <1>1. Init => Settlement
    BY DEF Init, Settlement, NeverStranded, Live, Begun
  <1> QED
    BY <1>1, TypeCorrect, SettlementStep, PTL DEF Spec

(* What a check is settled with is what it stays.                          *)
LEMMA ResultStays ==
    ASSUME TypeOK, [Next]_vars
    PROVE  result # "pending" => result' = result
  BY DEF TypeOK, Next, Begin, TimerFires, Connected, WriteReturns, Breaks, PeerSends,
         TcpData, WebSocketMessage, SteamMessage, FinishOnce, Finish, Resolve, vars, runVars

(* A check that has begun and is pending, or holds a live socket, has a    *)
(* timer armed, in every order of its callbacks.                           *)
THEOREM NoCheckIsStranded == Spec => []NeverStranded
  <1>1. Settlement => NeverStranded
    BY DEF Settlement
  <1> QED
    BY <1>1, AlwaysSettlement, PTL

-----------------------------------------------------------------------------
(* The verdict and the answer.                                             *)

(* What keeps the two together: a check that waits for an answer has none  *)
(* as long as it is pending, and only tcp has writes that return.          *)
VerdictFromAnswer ==
    /\ UpIffAnswered
    /\ Awaits /\ result = "pending" => ~Answered
    /\ writing => check.kind = "tcp"

LEMMA VerdictStep ==
    TypeOK /\ Settlement /\ VerdictFromAnswer /\ [Next]_vars => VerdictFromAnswer'
  <1> SUFFICES ASSUME TypeOK, Settlement, VerdictFromAnswer, [Next]_vars
               PROVE  VerdictFromAnswer'
    OBVIOUS
  <1>0. ASSUME UNCHANGED <<check, sent, read>>,
               writing' => check.kind = "tcp",
               result' = result \/ (result' = "down" /\ result = "pending") \/ ~Awaits
        PROVE  VerdictFromAnswer'
    <2>1. (Awaits' <=> Awaits) /\ (Answered' <=> Answered)
      BY <1>0 DEF Awaits, Answered, Came
    <2> QED
      BY <1>0, <2>1 DEF VerdictFromAnswer, UpIffAnswered
  <1>a. ASSUME Finish("down") \/ FinishOnce("down") \/ Resolve("down") \/ UNCHANGED runVars
        PROVE  result' = result \/ (result' = "down" /\ result = "pending")
    BY <1>a, FinishType DEF FinishOnce, Finish, Resolve, runVars
  <1>1. CASE Begin
    <2>1. result' = result \/ (result' = "down" /\ result = "pending")
      BY <1>1, <1>a DEF Begin
    <2> QED
      BY <1>1, <2>1, <1>0 DEF Begin, VerdictFromAnswer
  <1>2. CASE TimerFires
    <2>1. result' = result \/ (result' = "down" /\ result = "pending")
      BY <1>2, <1>a DEF TimerFires
    <2> QED
      BY <1>2, <2>1, <1>0 DEF TimerFires, VerdictFromAnswer
  <1>3. CASE Connected
    <2>1. writing' => check.kind = "tcp"
      BY <1>3 DEF Connected, VerdictFromAnswer
    <2>2. CASE ~check.sends
      BY <1>3, <2>1, <2>2, <1>0 DEF Connected, Awaits
    <2>3. CASE check.sends
      BY <1>3, <2>1, <2>3, <1>0 DEF Connected, runVars
    <2> QED
      BY <2>2, <2>3
  <1>4. CASE WriteReturns
    <2>1. check.kind = "tcp" /\ writing' = FALSE /\ UNCHANGED <<check, sent, read>>
      BY <1>4 DEF WriteReturns, VerdictFromAnswer
    <2>2. CASE Finish("down") \/ UNCHANGED runVars
      BY <2>1, <2>2, <1>a, <1>0
    <2>3. CASE ~check.expects
      BY <2>1, <2>3, <1>0 DEF Awaits
    <2> QED
      BY <1>4, <2>2, <2>3 DEF WriteReturns
  <1>5. CASE Breaks
    BY <1>5, <1>a, <1>0 DEF Breaks, VerdictFromAnswer
  <1>6. ASSUME NEW piece \in Pieces[check.kind], PeerSends(piece)
        PROVE  VerdictFromAnswer'
    <2>1. /\ UNCHANGED <<check, read, writing, result>>
          /\ \A i \in 1..Len(sent) : sent'[i] = sent[i]
      BY <1>6, AppendProperties DEF TypeOK, PeerSends, runVars
    <2>2. \A i \in 1..read : sent'[i] = sent[i]
      BY <2>1, LenProperties DEF TypeOK
    <2>3. read \in Nat
      BY LenProperties DEF TypeOK
    <2>4. Awaits' <=> Awaits
      BY <2>1 DEF Awaits
    <2>5. Answered' <=> Answered
      BY <2>1, <2>2, <2>3 DEF Answered, Came
    <2> QED
      BY <2>1, <2>4, <2>5 DEF VerdictFromAnswer, UpIffAnswered
  <1>7. CASE TcpData
    <2>1. /\ check.kind = "tcp" /\ UNCHANGED <<check, sent, writing>>
          /\ read' = read + 1 /\ read \in Nat
          /\ result = "pending"
      BY <1>7, LenProperties DEF TcpData, TypeOK, Settlement
    <2>2. Answered' <=> StreamHolds(read + 1)
      BY <2>1 DEF Answered, Came, StreamHolds, Decoded
    <2>3. \/ StreamHolds(read + 1) /\ result' = "up"
          \/ ~StreamHolds(read + 1) /\ result' = "pending"
      BY <1>7, <2>1, FinishType DEF TcpData, runVars
    <2> QED
      BY <2>1, <2>2, <2>3 DEF VerdictFromAnswer, UpIffAnswered
  <1>8. CASE WebSocketMessage
    <2>1. /\ check.kind = "websocket" /\ UNCHANGED <<check, sent, writing>>
          /\ read' = read + 1 /\ read \in Nat
          /\ result = "pending" /\ ~completed
      BY <1>8, LenProperties DEF WebSocketMessage, TypeOK, Settlement
    <2>2. Answered' <=> (check.expects => sent[read + 1] = "match")
      BY <2>1 DEF Answered
    <2>3. result' = IF check.expects /\ sent[read + 1] # "match" THEN "down" ELSE "up"
      BY <1>8, <2>1, FinishType DEF WebSocketMessage, FinishOnce
    <2> QED
      BY <2>1, <2>2, <2>3 DEF VerdictFromAnswer, UpIffAnswered
  <1>9. CASE SteamMessage
    <2>1. /\ check.kind = "steam" /\ UNCHANGED <<check, sent, writing>>
          /\ read' = read + 1 /\ read \in Nat
          /\ result = "pending" /\ ~completed
      BY <1>9, LenProperties DEF SteamMessage, TypeOK, Settlement
    <2>2. Answered' <=> sent[read + 1] = "info"
      BY <2>1 DEF Answered
    <2>3. result' = IF sent[read + 1] = "info" THEN "up" ELSE "down"
      BY <1>9, <2>1, FinishType DEF SteamMessage, FinishOnce
    <2> QED
      BY <2>1, <2>2, <2>3 DEF VerdictFromAnswer, UpIffAnswered
  <1>10. CASE UNCHANGED vars
    BY <1>10, <1>0 DEF vars, runVars, VerdictFromAnswer
  <1> QED
    BY <1>1, <1>2, <1>3, <1>4, <1>5, <1>6, <1>7, <1>8, <1>9, <1>10 DEF Next

(* Where an answer decides, the verdict is up exactly if it was among what *)
(* the handler was given, for tcp not cut inside a character, in every     *)
(* order of pieces and callbacks.                                          *)
THEOREM VerdictIsTheAnswer == Spec => []UpIffAnswered
  <1>1. Init => VerdictFromAnswer
    BY DEF Init, VerdictFromAnswer, UpIffAnswered, Awaits, Answered, Came
  <1>2. VerdictFromAnswer => UpIffAnswered
    BY DEF VerdictFromAnswer
  <1> QED
    BY <1>1, <1>2, TypeCorrect, AlwaysSettlement, VerdictStep, PTL DEF Spec

-----------------------------------------------------------------------------
(* The check keeps the promise: each step takes a connection before there  *)
(* is a verdict, gives the verdict, releases the connection, or is none of *)
(* the caller's business.                                                  *)
LEMMA PromiseStep ==
    TypeOK /\ Settlement /\ [Next]_vars => [Promise!Next]_(Promise!vars)
  <1> SUFFICES ASSUME TypeOK, Settlement, [Next]_vars
               PROVE  [Promise!Next]_(Promise!vars)
    OBVIOUS
  <1> USE DEF Promise!Next, Promise!vars, Promise!Acquire, Promise!Decide, Promise!Release
  <1>0. ASSUME NEW verdict \in {"up", "down"}, Finish(verdict) \/ FinishOnce(verdict)
        PROVE  [Promise!Next]_(Promise!vars)
    <2>1. CASE Finish(verdict)
      <3>1. /\ socket' # "live" /\ result' \in {"up", "down"}
            /\ result # "pending" => result' = result
        BY <2>1, FinishType
      <3>2. (socket = "live") \in BOOLEAN /\ (socket' = "live") \in BOOLEAN
        OBVIOUS
      <3> QED
        BY <3>1, <3>2 DEF TypeOK
    <2>2. CASE UNCHANGED runVars
      BY <2>2 DEF runVars
    <2> QED
      BY <1>0, <2>1, <2>2, FinishOnceType
  <1>1. CASE Begin
    <2>1. result = "pending" /\ socket = "none"
      BY <1>1 DEF Begin, Settlement
    <2>2. (socket' = "live") \in BOOLEAN
      OBVIOUS
    <2>3. CASE UNCHANGED <<completed, result>> /\ socket' = "live"
      BY <2>1, <2>3
    <2>4. CASE Resolve("down")
      BY <2>1, <2>2, <2>4 DEF Resolve
    <2> QED
      BY <1>1, <2>3, <2>4 DEF Begin
  <1>2. CASE TimerFires
    <2>1. (socket = "live") \in BOOLEAN /\ (socket' = "live") \in BOOLEAN
      OBVIOUS
    <2>2. CASE UNCHANGED <<socket, completed, result>>
      BY <2>2
    <2>3. CASE socket' = "destroyed" /\ Resolve("down")
      BY <2>1, <2>3 DEF Resolve, TypeOK
    <2> QED
      BY <1>2, <2>2, <2>3 DEF TimerFires
  <1>3. CASE Connected
    BY <1>3, <1>0 DEF Connected, runVars
  <1>4. CASE WriteReturns
    BY <1>4, <1>0 DEF WriteReturns, runVars
  <1>5. CASE Breaks
    BY <1>5, <1>0 DEF Breaks
  <1>6. ASSUME NEW piece \in Pieces[check.kind], PeerSends(piece)
        PROVE  [Promise!Next]_(Promise!vars)
    BY <1>6 DEF PeerSends, runVars
  <1>7. CASE TcpData
    BY <1>7, <1>0 DEF TcpData, runVars
  <1>8. CASE WebSocketMessage
    BY <1>8, <1>0 DEF WebSocketMessage
  <1>9. CASE SteamMessage
    BY <1>9, <1>0 DEF SteamMessage
  <1>10. CASE UNCHANGED vars
    BY <1>10 DEF vars, runVars
  <1> QED
    BY <1>1, <1>2, <1>3, <1>4, <1>5, <1>6, <1>7, <1>8, <1>9, <1>10 DEF Next

(* The check implements the promise, its liveness apart: one verdict, and  *)
(* no connection taken once it is given.                                   *)
THEOREM ImplementsPromise == Spec => Promise!Spec
  <1>1. Init => Promise!Init
    BY DEF Init, Promise!Init
  <1> QED
    BY <1>1, PromiseStep, TypeCorrect, AlwaysSettlement, PTL DEF Spec, Promise!Spec
=============================================================================
