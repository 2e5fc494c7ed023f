------------------------------- MODULE PipeIo -------------------------------
(***************************************************************************)
(* The named pipe between the Windows broker and its consumer: overlapped  *)
(* connect, read and write with their deadlines and their cancellation,    *)
(* the framing of the byte stream, the check of the client's identity, and *)
(* the service stop that has to end it all.  The stream is a sequence of   *)
(* pieces: <<n, 1>> is the front of the n-th line, <<n, 2>> its rest with  *)
(* the newline.  What the messages mean is in WinBroker.                   *)
(***************************************************************************)
EXTENDS Naturals, Sequences, FiniteSets, SequencesExt, Functions

CONSTANTS
  MaxLines,     \* lines the consumer writes in one session
  MaxSessions,  \* connections the consumer makes
  PipeRoom,     \* pieces each direction of the pipe holds
  LineCap       \* MAX_LINE_BYTES, in pieces

ASSUME PipeIoAssumption ==
  /\ MaxLines \in Nat \ {0} /\ MaxSessions \in Nat \ {0}
  /\ PipeRoom \in Nat \ {0, 1} /\ LineCap \in Nat \ {0, 1}

PiSides == {"broker", "consumer"}
Line(n) == << <<n, 1>>, <<n, 2>> >>

\* The first line is Register, which is answered; the others are heartbeats.
IsAnswered(n) == n = 1

VARIABLES
  piAt,       \* where the broker's session thread is
  piUser,     \* where the consumer is
  piOp,       \* the kernel's view of each side's operation and the bytes it moved
  piGiveUp,   \* why a side has decided to cancel its operation: "no", "time", "stop"
  piEnd,      \* the broker's handle: "closed", "created", "listening", "taken" by a
              \* client, or "open" for the session
  piPeer,     \* the connection is up at both ends
  piTrusted,  \* the consumer's token carries the expected service SID
  piTo,       \* bytes in the pipe on their way to each side
  piPut,      \* lines the consumer has put into the pipe in this session
  piRest,     \* `frame`: bytes read and not yet taken apart
  piHandled,  \* the lines handed to the session core
  piGaps,     \* "lost": a cancelled read had completed; "wait": a wait failed
  piStop,     \* the stop flag
  piStatus,   \* where the status thread is
  piSessions  \* connections so far

piVars == <<piAt, piUser, piOp, piGiveUp, piEnd, piPeer, piTrusted, piTo, piPut,
            piRest, piHandled, piGaps, piStop, piStatus, piSessions>>

brokerVars == <<piAt, piEnd, piPeer, piRest, piHandled>>
userVars == <<piUser, piTrusted, piPut, piSessions>>
serviceVars == <<piStop, piStatus>>

Pieces == (1..MaxLines) \X {1, 2}
NoOp == [st |-> "idle", got |-> <<>>]

InCall(s) ==
  IF s = "broker" THEN piAt \in {"accepting", "firstRead", "reading", "writing", "refusing"}
  ELSE piUser \in {"writing", "reading"}

PiTypeOK ==
  /\ piAt \in {"top", "created", "accepting", "connected", "firstRead", "check", "serve",
               "take", "reading", "writing", "refusing", "joining", "exited"}
  /\ piUser \in {"out", "ready", "writing", "answer", "reading", "gone"}
  /\ piOp \in [PiSides -> [st : {"idle", "pending", "done", "broken"}, got : Seq(Pieces)]]
  /\ piGiveUp \in [PiSides -> {"no", "time", "stop"}]
  /\ piEnd \in {"closed", "created", "listening", "taken", "open"}
  /\ piPeer \in BOOLEAN /\ piTrusted \in BOOLEAN /\ piStop \in BOOLEAN
  /\ piTo \in [PiSides -> Seq(Pieces)] /\ \A s \in PiSides : Len(piTo[s]) <= PipeRoom
  /\ piPut \in 0..MaxLines /\ piRest \in Seq(Pieces) /\ piHandled \in Seq(1..MaxLines)
  /\ piGaps \subseteq {"lost", "wait"}
  /\ piAt = "take" => Len(piRest) <= LineCap
  /\ piStatus \in {"accept", "read", "ended"}
  /\ piSessions \in 0..MaxSessions

PiInit ==
  /\ piAt = "top" /\ piUser = "out" /\ piEnd = "closed"
  /\ piOp = [s \in PiSides |-> NoOp] /\ piGiveUp = [s \in PiSides |-> "no"]
  /\ piPeer = FALSE /\ piTrusted = FALSE /\ piTo = [s \in PiSides |-> <<>>]
  /\ piPut = 0 /\ piRest = <<>> /\ piHandled = <<>> /\ piGaps = {}
  /\ piStop = FALSE /\ piStatus = "accept" /\ piSessions = 0

(***************************************************************************)
(* The kernel's side of one overlapped operation.                          *)
(***************************************************************************)
Reads(s) == IF s = "broker" THEN piAt \in {"firstRead", "reading"} ELSE piUser = "reading"
Writes(s) == IF s = "broker" THEN piAt \in {"writing", "refusing"} ELSE piUser = "writing"

Complete(s, st, got) == piOp' = [piOp EXCEPT ![s] = [st |-> st, got |-> got]]

\* A read takes what is there, at most what the caller's buffer holds.
KernelReads(s) ==
  /\ piOp[s].st = "pending" /\ Reads(s)
  /\ piTo[s] # <<>>
  /\ \E k \in 1..Len(piTo[s]) :
       /\ Complete(s, "done", SubSeq(piTo[s], 1, k))
       /\ piTo' = [piTo EXCEPT ![s] = SubSeq(@, k + 1, Len(@))]
  /\ UNCHANGED <<brokerVars, userVars, serviceVars, piGiveUp, piGaps>>

\* The line a side is writing.
Writing(s) == IF s = "broker" THEN Line(1) ELSE Line(piPut + 1)

KernelWrites(s) ==
  LET other == CHOOSE o \in PiSides : o # s IN
  /\ piOp[s].st = "pending" /\ Writes(s) /\ piPeer
  /\ Len(piTo[other]) + 2 <= PipeRoom
  /\ Complete(s, "done", <<>>)
  /\ piTo' = [piTo EXCEPT ![other] = @ \o Writing(s)]
  /\ piPut' = IF s = "consumer" THEN piPut + 1 ELSE piPut
  /\ UNCHANGED <<brokerVars, piUser, piTrusted, piSessions, serviceVars, piGiveUp, piGaps>>

\* The other end has gone: a read finds the pipe broken once it is drained, a
\* write finds it broken at once.
KernelBreaks(s) ==
  /\ piOp[s].st = "pending"
  /\ Writes(s) \/ (Reads(s) /\ piTo[s] = <<>>)
  /\ ~piPeer
  /\ Complete(s, "broken", <<>>)
  /\ UNCHANGED <<brokerVars, userVars, serviceVars, piGiveUp, piTo, piGaps>>

\* The handle is closed under an operation nobody waits for: the kernel ends it.
KernelReaps(s) ==
  /\ piOp[s].st = "pending" /\ ~InCall(s)
  /\ piOp' = [piOp EXCEPT ![s] = NoOp]
  /\ UNCHANGED <<brokerVars, userVars, serviceVars, piGiveUp, piTo, piGaps>>

Starts(s) == Complete(s, "pending", <<>>)

Returns(s) ==
  /\ piOp' = [piOp EXCEPT ![s] = NoOp]
  /\ piGiveUp' = [piGiveUp EXCEPT ![s] = "no"]

(***************************************************************************)
(* overlapped_io and run_connect: wait in steps of 100 ms; the stop flag   *)
(* and the deadline are looked at when a wait ran out, and by the time the *)
(* operation is cancelled it may have completed after all.                 *)
(***************************************************************************)
\* A write waits without a deadline.

Stoppable == piAt \in {"accepting", "firstRead", "reading"}

GivesUp(s, why) ==
  /\ InCall(s) /\ piGiveUp[s] = "no"
  /\ piOp[s].st = "pending" \/ (piAt = "accepting" /\ why = "stop" /\ piOp[s].st = "done")
  /\ why = "stop" => s = "broker" /\ piStop /\ Stoppable
  /\ piGiveUp' = [piGiveUp EXCEPT ![s] = why]
  /\ UNCHANGED <<brokerVars, userVars, serviceVars, piOp, piTo, piGaps>>

\* CancelIoEx, then GetOverlappedResult waits for the operation to end; what it
\* had moved by then is not looked at.
CancelledBytes(s) == IF piOp[s].got # <<>> THEN {"lost"} ELSE {}

\* Mutant: the cancellation does not wait for the completion.
CancelOnly(s) ==
  /\ piGiveUp' = [piGiveUp EXCEPT ![s] = "no"]
  /\ piGaps' = IF s = "broker" THEN piGaps \cup CancelledBytes(s) ELSE piGaps
  /\ UNCHANGED piOp

CancelAndWait(s) ==
  /\ Returns(s)
  /\ piGaps' = IF s = "broker" THEN piGaps \cup CancelledBytes(s) ELSE piGaps

\* The operation completed while the call still waited for it.
Completed(s, st) == piOp[s].st = st /\ piGiveUp[s] = "no" /\ Returns(s) /\ UNCHANGED piGaps

(***************************************************************************)
(* PipeServer and run_console: bind, accept, first read, identity.         *)
(***************************************************************************)
\* DisconnectNamedPipe and CloseHandle discard what was in the pipe.
EndCloses ==
  /\ piEnd' = "closed" /\ piPeer' = FALSE /\ piTo' = [s \in PiSides |-> <<>>]
  /\ piRest' = <<>> /\ piHandled' = <<>>

Leaves(to) == piAt' = to /\ EndCloses

\* append_evidence: a transition that cannot be appended to the evidence file
\* ends the process.
Recorded(to) == Leaves(to) \/ Leaves("exited")

Keeps == UNCHANGED <<piEnd, piPeer, piTo, piRest, piHandled>>
NoCall == UNCHANGED <<piOp, piGiveUp, piGaps>>

BrokerBinds ==
  /\ piAt = "top"
  /\ \/ piStop /\ piAt' = "joining" /\ UNCHANGED piEnd
     \/ ~piStop /\ piAt' = "exited" /\ UNCHANGED piEnd
     \/ ~piStop /\ piAt' = "created" /\ piEnd' = "created"
  /\ NoCall /\ UNCHANGED <<userVars, serviceVars, piPeer, piTo, piRest, piHandled>>

\* A client that came before ConnectNamedPipe is ERROR_PIPE_CONNECTED, an error.
BrokerListens ==
  /\ piAt = "created"
  /\ \/ piEnd = "created" /\ piAt' = "accepting" /\ piEnd' = "listening" /\ Starts("broker")
          /\ UNCHANGED <<piPeer, piTo, piRest, piHandled>>
     \/ Leaves("exited") /\ UNCHANGED piOp
  /\ UNCHANGED <<userVars, serviceVars, piGiveUp, piGaps>>

\* The accepted handle moves into the AuthenticatedPipe and the PipeServer is
\* forgotten; without that its Drop closes the handle.

BrokerAccepts ==
  /\ piAt = "accepting" /\ Completed("broker", "done")
  /\ piAt' = "connected" /\ piEnd' = "open"
  /\ UNCHANGED <<userVars, serviceVars, piPeer, piTo, piRest, piHandled>>

BrokerAcceptEnds ==
  /\ piAt = "accepting" /\ piGiveUp["broker"] # "no"
  /\ CancelAndWait("broker")
  /\ Leaves(IF piGiveUp["broker"] = "stop" THEN "joining" ELSE "top")
  /\ UNCHANGED <<userVars, serviceVars>>

\* run_connect's last arm returns with the operation still pending.
BrokerWaitFails ==
  /\ piAt = "accepting" /\ piOp["broker"].st = "pending" /\ piGiveUp["broker"] = "no"
  /\ Leaves("exited")
  /\ piGaps' = piGaps \cup {"wait"}
  /\ UNCHANGED <<userVars, serviceVars, piOp, piGiveUp>>

\* CreateEvent may fail before the read is started.
StartsRead(from, to) ==
  /\ piAt = from
  /\ \/ piAt' = to /\ Starts("broker") /\ Keeps
     \/ Leaves("exited") /\ UNCHANGED piOp
  /\ UNCHANGED <<userVars, serviceVars, piGiveUp, piGaps>>

BrokerFirstRead ==
  /\ piAt = "firstRead" /\ Completed("broker", "done")
  /\ piAt' = "check" /\ piRest' = piOp["broker"].got
  /\ UNCHANGED <<userVars, serviceVars, piEnd, piPeer, piTo, piHandled>>

\* Any failure of the first read ends the process, unless it is stopping.
BrokerFirstReadFails ==
  /\ piAt = "firstRead"
  /\ \/ Completed("broker", "broken")
     \/ piGiveUp["broker"] # "no" /\ CancelAndWait("broker")
  /\ Leaves(IF piStop THEN "joining" ELSE "exited")
  /\ UNCHANGED <<userVars, serviceVars>>

\* The identity is looked at only when there is a buffered first read.

\* verify_client_service_sid: impersonating the client may fail.
VerifyClient ==
  /\ piAt = "check"
  /\ \/ piTrusted /\ piAt' = "serve" /\ Keeps
     \/ ~piTrusted /\ Recorded("top")
     \/ Leaves("exited")
  /\ NoCall /\ UNCHANGED <<userVars, serviceVars>>

(***************************************************************************)
(* serve_session: take lines apart, answer, read on.                       *)
(***************************************************************************)
\* The line cap is not looked at.

\* The outer loop: stop ends the session, an overlong buffer is refused.
BrokerLoops ==
  /\ piAt = "serve"
  /\ \/ piStop /\ Recorded("top") /\ UNCHANGED piOp
     \/ ~piStop /\ Len(piRest) <= LineCap /\ piAt' = "take" /\ Keeps /\ UNCHANGED piOp
     \/ ~piStop /\ Len(piRest) > LineCap /\ piAt' = "refusing" /\ Keeps /\ Starts("broker")
  /\ UNCHANGED <<userVars, serviceVars, piGiveUp, piGaps>>

NewlineAt == { i \in 1..Len(piRest) : piRest[i][2] = 2 }
FirstNewline == CHOOSE i \in NewlineAt : \A j \in NewlineAt : i <= j

\* What follows the newline is dropped with the line.

\* A line that does not decode ends the process.
BrokerTakesLine ==
  /\ piAt = "take" /\ NewlineAt # {}
  /\ LET line == SubSeq(piRest, 1, FirstNewline)
         n == line[1][1] IN
     IF line # Line(n) THEN Leaves("exited") /\ UNCHANGED piOp
     ELSE /\ piRest' = SubSeq(piRest, FirstNewline + 1, Len(piRest))
          /\ piHandled' = Append(piHandled, n)
          /\ IF IsAnswered(n) THEN piAt' = "writing" /\ Starts("broker")
             ELSE UNCHANGED <<piAt, piOp>>
          /\ UNCHANGED <<piEnd, piPeer, piTo>>
  /\ UNCHANGED <<userVars, serviceVars, piGiveUp, piGaps>>

\* write_message: an answer that cannot be written in time ends the process;
\* after the refusal of an overlong line the session ends.
BrokerWritten ==
  /\ piAt \in {"writing", "refusing"}
  /\ \/ Completed("broker", "done") /\ piAt = "writing" /\ piAt' = "take" /\ Keeps
     \/ Completed("broker", "done") /\ piAt = "refusing" /\ Recorded("top")
     \/ Completed("broker", "broken") /\ Leaves("exited")
     \/ piGiveUp["broker"] # "no" /\ CancelAndWait("broker") /\ Leaves("exited")
  /\ UNCHANGED <<userVars, serviceVars>>

BrokerReads == NewlineAt = {} /\ StartsRead("take", "reading")

BrokerRead ==
  /\ piAt = "reading"
  /\ \/ Completed("broker", "done")
          /\ piAt' = "serve" /\ piRest' = piRest \o piOp["broker"].got
          /\ UNCHANGED <<piEnd, piPeer, piTo, piHandled>>
     \/ Completed("broker", "broken") /\ Recorded("top")
  /\ UNCHANGED <<userVars, serviceVars>>

\* Ten silent seconds: the tick, which may close the session, and on with it.
BrokerTicks ==
  /\ piAt = "reading" /\ piGiveUp["broker"] # "no"
  /\ CancelAndWait("broker")
  /\ \/ piAt' = "serve" /\ Keeps
     \/ piGiveUp["broker"] = "time" /\ Recorded("top")
  /\ UNCHANGED <<userVars, serviceVars>>

\* After the loop the status thread is joined.
BrokerJoins ==
  /\ piAt = "joining" /\ piStatus = "ended"
  /\ piAt' = "exited"
  /\ NoCall /\ Keeps /\ UNCHANGED <<userVars, serviceVars>>

(***************************************************************************)
(* The service: its stop, and the status thread with a pipe of its own.    *)
(***************************************************************************)
StopRequested ==
  /\ ~piStop /\ piStop' = TRUE
  /\ NoCall /\ Keeps /\ UNCHANGED <<piAt, userVars, piStatus>>

\* A read of the request runs to its own deadline whatever the stop flag says;
\* any error ends the thread.
ServeStatus ==
  /\ piStatus # "ended"
  /\ piStatus' \in
       CASE piStatus = "accept" -> {"ended"} \cup (IF piStop THEN {} ELSE {"accept", "read"})
         [] piStatus = "read" -> {"accept", "ended"}
  /\ NoCall /\ Keeps /\ UNCHANGED <<piAt, userVars, piStop>>

(***************************************************************************)
(* The consumer: connect_named_pipe, then a line at a time.                *)
(***************************************************************************)
UserConnects(trusted) ==
  /\ piUser = "out" /\ piSessions < MaxSessions /\ piOp["consumer"] = NoOp
  /\ piEnd \in {"created", "listening"} /\ piEnd' = "taken"
  /\ piUser' = "ready" /\ piPeer' = TRUE /\ piTrusted' = trusted
  /\ piPut' = 0 /\ piSessions' = piSessions + 1
  /\ IF piEnd = "listening" THEN Complete("broker", "done", <<>>) ELSE UNCHANGED piOp
  /\ UNCHANGED <<piAt, piTo, piRest, piHandled, piGiveUp, piGaps, serviceVars>>

\* retry_until: no pipe, or a busy one, until the deadline.
UserGivesUp ==
  /\ piUser = "out" /\ piUser' = "gone"
  /\ NoCall /\ Keeps /\ UNCHANGED <<piAt, piTrusted, piPut, piSessions, serviceVars>>

UserCloses ==
  /\ piUser' = "out" /\ piPeer' = FALSE
  /\ piTo' = [piTo EXCEPT !["consumer"] = <<>>]
  /\ UNCHANGED <<piTrusted, piPut, piSessions>>

UserStays(to) == piUser' = to /\ UNCHANGED <<piPeer, piTrusted, piTo, piPut, piSessions>>

UserStarts ==
  /\ \/ piUser = "ready" /\ piPut < MaxLines /\ UserStays("writing") /\ Starts("consumer")
     \/ piUser = "answer" /\ UserStays("reading") /\ Starts("consumer")
     \/ piUser = "ready" /\ UserCloses /\ UNCHANGED piOp
  /\ UNCHANGED <<piAt, piEnd, piRest, piHandled, serviceVars, piGiveUp, piGaps>>

UserReturns ==
  /\ piUser \in {"writing", "reading"}
  /\ \/ Completed("consumer", "done")
          /\ UserStays(IF piUser = "writing"
                       THEN IF IsAnswered(piPut) THEN "answer" ELSE "ready"
                       ELSE IF Last(piOp["consumer"].got)[2] = 2 THEN "ready" ELSE "answer")
     \/ Completed("consumer", "broken") /\ UserCloses
     \/ piGiveUp["consumer"] # "no" /\ CancelAndWait("consumer") /\ UserCloses
  /\ UNCHANGED <<piAt, piEnd, piRest, piHandled, serviceVars>>

\* The last arm of the consumer's overlapped_io returns without a cancellation.
UserWaitFails ==
  /\ piUser \in {"writing", "reading"}
  /\ piOp["consumer"].st = "pending" /\ piGiveUp["consumer"] = "no"
  /\ UserCloses /\ piGaps' = piGaps \cup {"wait"}
  /\ UNCHANGED <<piAt, piEnd, piRest, piHandled, serviceVars, piOp, piGiveUp>>

BrokerSteps ==
  \/ BrokerBinds \/ BrokerListens \/ BrokerAccepts \/ BrokerAcceptEnds
  \/ StartsRead("connected", "firstRead") \/ BrokerFirstRead \/ BrokerFirstReadFails
  \/ VerifyClient \/ BrokerLoops \/ BrokerTakesLine \/ BrokerWritten
  \/ BrokerReads \/ BrokerRead \/ BrokerTicks \/ BrokerJoins

UserSteps == UserReturns \/ (piUser = "answer" /\ UserStarts)

PiNext ==
  \/ BrokerSteps \/ BrokerWaitFails \/ StopRequested \/ ServeStatus
  \/ \E trusted \in BOOLEAN : UserConnects(trusted)
  \/ UserGivesUp \/ UserStarts \/ UserReturns \/ UserWaitFails
  \/ \E s \in PiSides : KernelReads(s) \/ KernelWrites(s) \/ KernelBreaks(s) \/ KernelReaps(s)
  \/ \E s \in PiSides, why \in {"time", "stop"} : GivesUp(s, why)

\* Both threads and the consumer run, and time passes.
PiSpec ==
  /\ PiInit /\ [][PiNext]_piVars
  /\ WF_piVars(BrokerSteps) /\ WF_piVars(UserSteps) /\ WF_piVars(ServeStatus)
  /\ \A s \in PiSides : WF_piVars(GivesUp(s, "time"))

(***************************************************************************)
(* Properties.                                                             *)
(***************************************************************************)
\* The kernel never works on an OVERLAPPED, an event or a buffer whose call has
\* returned: a call leaves only with its operation completed or cancelled and
\* drained.  The one way out of it is a wait that itself fails, after which
\* run_connect and the consumer's overlapped_io return at once.
OperationsOwned ==
  \A s \in PiSides : piOp[s].st = "pending" /\ ~InCall(s) => "wait" \in piGaps

\* The broker never waits for an operation on a handle that is closed: accepting
\* hands the handle over exactly once.
HandleIsOpen == InCall("broker") => piEnd # "closed"

\* Every byte the consumer put into the pipe is, in order and once, part of a
\* handled line, in the session's buffer, in the read that just completed or
\* still in the pipe; deadlines, ticks and split reads lose and repeat nothing.
\* The exception is a read that completed while it was being cancelled.
StreamIsWhole ==
  piEnd = "open" /\ "lost" \notin piGaps =>
    FlattenSeq([n \in 1..piPut |-> Line(n)])
      = FlattenSeq([i \in 1..Len(piHandled) |-> Line(piHandled[i])])
          \o piRest \o piOp["broker"].got \o piTo["broker"]

\* No line of a client without the consumer's service SID reaches the session
\* core, though its first bytes are read before it is identified.
OnlyTheConsumer == piHandled # <<>> => piTrusted

\* A service stop ends the broker, whatever operation it finds pending and
\* whether or not the peer moves, and the peer's own operation returns to it.
StopsAndReturns == piStop ~> piAt = "exited" /\ \A s \in PiSides : ~InCall(s)

\* The promises together.
PiContract ==
  /\ [](PiTypeOK /\ OperationsOwned /\ HandleIsOpen /\ StreamIsWhole /\ OnlyTheConsumer)
  /\ StopsAndReturns
=============================================================================
