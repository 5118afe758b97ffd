---------------------------- MODULE SocketChecks ----------------------------
(***************************************************************************)
(* One check by a checker that drives its own socket: tcp, websocket and   *)
(* steam (UDP).  Each wraps callbacks in a promise: the connection opens,  *)
(* a write returns, data arrive, an error or the end of the connection is  *)
(* reported, a timer fires, in any order the peer and the event loop       *)
(* choose.  The first to settle the promise decides the verdict; each is   *)
(* to stop the timer and destroy the socket.                               *)
(*                                                                         *)
(* The service's answer is a sequence of pieces.  The bytes a TCP stream   *)
(* is expected to hold come as a "whole", or cut in two between characters *)
(* ("front", "back") or inside one ("start", "end"); a part alone is noise.*)
(* A WebSocket message matches the expectation or not; an expectation is   *)
(* taken to be a valid pattern.  A datagram is server information that     *)
(* meets the requirements on players and map ("info"), that does not       *)
(* ("unfit"), or something else, such as a challenge.                      *)
(***************************************************************************)
EXTENDS Naturals, Sequences

CONSTANTS
    Kinds,       \* the kinds of check
    MaxPieces    \* bound: pieces the peer sends

ASSUME KindsAssumption == Kinds \subseteq {"tcp", "websocket", "steam"}
ASSUME BoundsAssumption == MaxPieces \in Nat

VARIABLES
    check,      \* the kind, and whether target.send and target.expect are set
    stage,      \* "new", "failed" to begin, "opening", "open", "listening" (tcp)
    timer,      \* "unset", "armed", "fired", "cleared"
    socket,     \* "none", "live", "destroyed"
    writing,    \* whether the callback of socket.write is still to come (tcp)
    completed,  \* completed, resolved or responded in the code
    result,     \* what the promise is settled with
    sent,       \* the pieces the peer has sent
    read        \* how many of them were given to the handler

runVars == <<timer, socket, completed, result>>
vars == <<check, stage, writing, sent, read, runVars>>

Pieces == [kind \in {"tcp", "websocket", "steam"} |->
    CASE kind = "tcp" -> {"whole", "front", "back", "start", "end"}
      [] kind = "websocket" -> {"match", "noise"}
      [] kind = "steam" -> {"info", "unfit", "noise"}]

Check == [kind : Kinds, sends : BOOLEAN, expects : BOOLEAN]

-----------------------------------------------------------------------------
(* Settling.                                                               *)

(* A promise that is settled stays as it is.                               *)
Resolve(verdict) == result' = IF result = "pending" THEN verdict ELSE result

(* The handler destroys its socket, stops the timer, resolves.             *)
Finish(verdict) ==
    /\ completed' = TRUE
    /\ socket' = IF socket = "live" THEN "destroyed" ELSE socket
    /\ timer' = IF timer = "armed" THEN "cleared" ELSE timer
    /\ Resolve(verdict)

(* Mutant: the flag is set after the cleanup, in which the close of a      *)
(* WebSocket may call onclose, which then settles first.                   *)
FlagAfterCleanup(verdict) ==
    \/ completed /\ UNCHANGED runVars
    \/ ~completed /\ Finish(IF check.kind = "websocket" THEN "down" ELSE verdict)

(* The same, by the handlers that first look at the flag; websocket and    *)
(* steam set it before they clean up.                                      *)
FinishOnce(verdict) ==
    \/ completed /\ UNCHANGED runVars
    \/ ~completed /\ Finish(verdict)

-----------------------------------------------------------------------------
(* The check begins: tcp once the name is resolved, or is left to the      *)
(* system after a failure or a timeout of its own; the timer is armed and  *)
(* the connection started.  If that throws, websocket and steam settle in  *)
(* their catch; tcp's promise is rejected, the caller makes that a verdict *)
(* and the timer and the socket are left behind.                           *)
Begin ==
    /\ stage = "new"
    /\ \/ /\ stage' = "opening"
          /\ timer' = "armed" /\ socket' = "live"
          /\ UNCHANGED <<completed, result>>
       \/ /\ check.kind = "tcp"
          /\ stage' = "failed"
          /\ timer' = "armed" /\ socket' = "live"
          /\ Resolve("down")
          /\ UNCHANGED completed
       \/ /\ check.kind # "tcp"
          /\ stage' = "failed"
          /\ timer' = "cleared"
          /\ socket' = IF check.kind = "steam" THEN "destroyed" ELSE "none"
          /\ completed' = TRUE
          /\ Resolve("down")
    /\ UNCHANGED <<check, writing, sent, read>>

TimerFires ==
    /\ timer = "armed"
    /\ timer' = "fired"
    /\ \/ completed /\ UNCHANGED <<socket, completed, result>>
       \/ /\ ~completed
          /\ completed' = TRUE
          /\ socket' = "destroyed"
          /\ Resolve("down")
    /\ UNCHANGED <<check, stage, writing, sent, read>>

Begun == stage \in {"opening", "open", "listening"}
Live == Begun /\ socket = "live"

(* The connection opens: without something to send, that was the check.    *)
Connected ==
    /\ Live /\ stage = "opening" /\ check.kind # "steam"
    /\ stage' = "open"
    /\ \/ ~check.sends /\ FinishOnce("up") /\ UNCHANGED writing
       \/ check.sends /\ check.kind = "tcp" /\ writing' = TRUE /\ UNCHANGED runVars
       \/ check.sends /\ check.kind = "websocket" /\ UNCHANGED <<writing, runVars>>
    /\ UNCHANGED <<check, sent, read>>

(* tcp: the callback of write, which looks at no flag and comes even after *)
(* the socket was destroyed.  If an answer is expected, it is from here on *)
(* that data, kept by the paused stream until then, are listened to.       *)
WriteReturns ==
    /\ writing
    /\ writing' = FALSE
    /\ \/ Finish("down") /\ UNCHANGED stage
       \/ ~check.expects /\ Finish("up") /\ UNCHANGED stage
       \/ check.expects /\ stage' = "listening" /\ UNCHANGED runVars
    /\ UNCHANGED <<check, sent, read>>

(* Mutant: an error of a kind not thought of resolves nothing.             *)
BreaksUnsettled ==
    /\ Begun /\ ~completed
    /\ completed' = TRUE /\ socket' = "destroyed" /\ timer' = "cleared"
    /\ UNCHANGED <<check, stage, writing, sent, read, result>>

(* An error of the socket; websocket: a failed send or the end of the      *)
(* connection too; steam: a failed send.  tcp does not listen to the end.  *)
(* It may come late, when the socket is destroyed already.                 *)
Breaks ==
    /\ Begun
    /\ FinishOnce("down")
    /\ UNCHANGED <<check, stage, writing, sent, read>>

-----------------------------------------------------------------------------
(* The peer sends a piece; a piece arrives.                                *)
PeerSends(piece) ==
    /\ Live
    /\ Len(sent) < MaxPieces
    /\ sent' = Append(sent, piece)
    /\ UNCHANGED <<check, stage, writing, read, runVars>>

(* data.toString() decodes each piece by itself: of a character that is    *)
(* cut, either part becomes a replacement character, which an expectation  *)
(* is taken not to hold.                                                   *)
Decoded(piece) == IF piece \in {"start", "end"} THEN "garbled" ELSE piece

(* The texts of the first n pieces, put together, hold the expected one.   *)
StreamHolds(n) ==
    \E i \in 1..n :
        \/ Decoded(sent[i]) = "whole"
        \/ i < n /\ Decoded(sent[i]) = "front" /\ Decoded(sent[i + 1]) = "back"

TcpData ==
    /\ check.kind = "tcp"
    /\ Live /\ stage = "listening"
    /\ read < Len(sent) /\ read' = read + 1
    /\ \/ StreamHolds(read + 1) /\ Finish("up")
       \/ ~StreamHolds(read + 1) /\ UNCHANGED runVars
    /\ UNCHANGED <<check, stage, writing, sent>>

(* The first message decides.                                              *)
WebSocketMessage ==
    /\ check.kind = "websocket"
    /\ Live /\ stage = "open"
    /\ read < Len(sent) /\ read' = read + 1
    /\ FinishOnce(IF check.expects /\ sent[read + 1] # "match" THEN "down" ELSE "up")
    /\ UNCHANGED <<check, stage, writing, sent>>

(* Mutant: a challenge is passed over, the timer having been stopped.      *)
SteamPassesOver ==
    /\ check.kind = "steam"
    /\ Live
    /\ read < Len(sent) /\ read' = read + 1
    /\ \/ /\ sent[read + 1] = "noise"
          /\ timer' = "cleared"
          /\ UNCHANGED <<socket, completed, result>>
       \/ /\ sent[read + 1] # "noise"
          /\ FinishOnce(IF sent[read + 1] = "info" THEN "up" ELSE "down")
    /\ UNCHANGED <<check, stage, writing, sent>>

(* The first datagram decides, whatever it is.                             *)
SteamMessage ==
    /\ check.kind = "steam"
    /\ Live
    /\ read < Len(sent) /\ read' = read + 1
    /\ FinishOnce(IF sent[read + 1] = "info" THEN "up" ELSE "down")
    /\ UNCHANGED <<check, stage, writing, sent>>

-----------------------------------------------------------------------------
Init ==
    /\ check \in Check
    /\ stage = "new" /\ timer = "unset" /\ socket = "none"
    /\ writing = FALSE /\ completed = FALSE /\ result = "pending"
    /\ sent = <<>> /\ read = 0

Next ==
    \/ Begin
    \/ TimerFires
    \/ Connected
    \/ WriteReturns
    \/ Breaks
    \/ \E piece \in Pieces[check.kind] : PeerSends(piece)
    \/ TcpData
    \/ WebSocketMessage
    \/ SteamMessage

Spec == Init /\ [][Next]_vars

-----------------------------------------------------------------------------
(* The shape of the state.                                                 *)
TypeOK ==
    /\ check \in Check
    /\ stage \in {"new", "failed", "opening", "open", "listening"}
    /\ timer \in {"unset", "armed", "fired", "cleared"}
    /\ socket \in {"none", "live", "destroyed"}
    /\ writing \in BOOLEAN /\ completed \in BOOLEAN
    /\ result \in {"pending", "up", "down"}
    /\ sent \in Seq(Pieces[check.kind])
    /\ read \in 0..Len(sent)
    /\ completed => result # "pending"

(* A check that has begun and has no verdict, or whose socket still lives, *)
(* has a timer that will end it: no order of callbacks strands it.         *)
NeverStranded ==
    stage # "new" /\ (result = "pending" \/ socket = "live") => timer = "armed"

(* Where an answer decides, the verdict is up exactly if the answer was    *)
(* among what the handler was given before the check was over, for tcp not *)
(* cut inside a character: none is made up, no other is missed, late       *)
(* callbacks overturn nothing.                                             *)
Awaits ==
    \/ check.kind = "tcp" /\ check.sends /\ check.expects
    \/ check.kind = "websocket" /\ check.sends
    \/ check.kind = "steam"

Came(first, last) ==
    \E i \in 1..(read - 1) : sent[i] = first /\ sent[i + 1] = last

Answered ==
    \/ /\ check.kind = "tcp"
       /\ (\E i \in 1..read : sent[i] = "whole") \/ Came("front", "back")
    \/ check.kind = "websocket" /\ read > 0 /\ (check.expects => sent[read] = "match")
    \/ check.kind = "steam" /\ read > 0 /\ sent[read] = "info"

UpIffAnswered ==
    Awaits /\ result # "pending" => (result = "up" <=> Answered)

(* monitors/tcp.md:32: "expect" is the "expected response".  A tcp check   *)
(* that was given all bytes of it, wherever they were cut, is up.          *)
ExpectedResponseIsTaken ==
    check.kind = "tcp" /\ Awaits /\ result # "pending" =>
        (Answered \/ Came("start", "end") => result = "up")

(* The promise of a check: one verdict, and no connection taken after it.  *)
Promise == INSTANCE CheckOnce WITH verdict <- result, held <- socket = "live"
=============================================================================
