------------------------------- MODULE Framing -------------------------------
(***************************************************************************)
(* How bytes on stdin become messages, and messages answers: read_message  *)
(* and the loop of crates/cj-lsp/src/main.rs.                              *)
(*                                                                         *)
(* stdin is a sequence of symbols.  A header field is one symbol, a body   *)
(* as many symbols as its length says; line breaks (EOL) end the header    *)
(* lines and nothing separates a body from the frame after it.  What the   *)
(* handlers compute is left out: a request is answered by its own name.    *)
(***************************************************************************)
EXTENDS Naturals, Sequences, FiniteSets

CONSTANTS
    Requests,       \* bodies that carry an id, other than shutdown
    Notifications,  \* bodies that do not
    Shutdown, Exit, \* the two lifecycle messages
    Garbage,        \* a body that is no JSON
    EOL,            \* line break
    Shapes,         \* the frames the client may write, by shape
    OtherField,     \* a header field other than Content-Length
    BadLength,      \* Content-Length with something that is no number
    BodySize,       \* symbols of a body
    MaxFrame,       \* largest body the server accepts
    MaxFrames,      \* bound: frames the client writes
    Running,        \* exit code of a process that has not ended
    NoLength

Messages == Requests \cup Notifications \cup {Shutdown, Exit}
Bodies == Messages \cup {Garbage}

Length(n) == <<"Content-Length", n>>
Lengths == {Length(n) : n \in 0 .. MaxFrame + 1}
Fields == Lengths \cup {OtherField, BadLength}

\* What stands in a header is told from what stands in a body.
ASSUME FramingAssumption ==
    /\ BodySize \in Nat \ {0} /\ MaxFrame \in Nat /\ MaxFrames \in Nat
    /\ BodySize <= MaxFrame
    /\ Running \notin Nat /\ NoLength \notin Nat
    /\ Garbage \notin Messages /\ Bodies \cap Fields = {} /\ EOL \notin Bodies \cup Fields
    /\ OtherField # BadLength /\ {OtherField, BadLength} \cap Lengths = {}

VARIABLES
    stdin,      \* symbols written and not yet read
    closed,     \* the client has closed its end
    len,        \* the local variable of read_message
    inBody,     \* read_message has seen the blank line that ends the headers
    shutdownReceived,
    exitCode,
    stdout,     \* answers written
    \* History:
    sent,       \* frames the client wrote: their shape and body
    served      \* messages the server has handled

reading == <<len, inBody>>
vars == <<stdin, closed, reading, shutdownReceived, exitCode, stdout, sent, served>>

Init ==
    /\ stdin = << >>
    /\ closed = FALSE
    /\ len = NoLength
    /\ inBody = FALSE
    /\ shutdownReceived = FALSE
    /\ exitCode = Running
    /\ stdout = << >>
    /\ sent = << >>
    /\ served = << >>

-----------------------------------------------------------------------------
(* The client. *)

BodyOf(message) == [i \in 1 .. BodySize |-> message]

\* Frames a correct client writes, with the extra blank line or the extra
\* field some of them add, or with the length given twice.
SoundShapes == {"plain", "blankBefore", "blankAfter", "otherField", "lengthTwice"}
\* What a faulty one may write.
FaultyShapes == {"badLength", "tooShort", "tooLong", "tooLarge", "empty"}

Header(shape) ==
    CASE shape = "blankBefore" -> <<EOL, Length(BodySize), EOL, EOL>>
      [] shape = "otherField"  -> <<OtherField, EOL, Length(BodySize), EOL, EOL>>
      [] shape = "lengthTwice" -> <<BadLength, EOL, Length(BodySize), EOL, EOL>>
      [] shape = "badLength"   -> <<BadLength, EOL, EOL>>
      [] shape = "tooShort"    -> <<Length(BodySize - 1), EOL, EOL>>
      [] shape = "tooLong"     -> <<Length(BodySize + 1), EOL, EOL>>
      [] shape = "tooLarge"    -> <<Length(MaxFrame + 1), EOL, EOL>>
      [] shape = "empty"       -> <<Length(0), EOL, EOL>>
      [] OTHER                 -> <<Length(BodySize), EOL, EOL>>

Frame(shape, body) ==
    Header(shape) \o (IF shape = "empty" THEN << >> ELSE BodyOf(body))
                  \o (IF shape = "blankAfter" THEN <<EOL>> ELSE << >>)

Write(shape, body) ==
    /\ ~closed
    /\ Len(sent) < MaxFrames
    /\ stdin' = stdin \o Frame(shape, body)
    /\ sent' = Append(sent, [shape |-> shape, body |-> body])
    /\ UNCHANGED <<closed, reading, shutdownReceived, exitCode, stdout, served>>

Close ==
    /\ ~closed
    /\ closed' = TRUE
    /\ UNCHANGED <<stdin, reading, shutdownReceived, exitCode, stdout, sent, served>>

-----------------------------------------------------------------------------
(* read_message. *)

Breaks == {i \in DOMAIN stdin : stdin[i] = EOL}
LineEnd == CHOOSE i \in Breaks : \A j \in Breaks : i <= j

\* read_line: up to the next line break, or what is left at the end of input.
CanReadLine == exitCode = Running /\ ~inBody /\ (Breaks # {} \/ (closed /\ stdin # << >>))
Line == IF Breaks = {} THEN stdin ELSE SubSeq(stdin, 1, LineEnd - 1)
AfterLine == IF Breaks = {} THEN << >> ELSE SubSeq(stdin, LineEnd + 1, Len(stdin))

\* The loop of main ends, and with it the process.
Stop ==
    /\ exitCode' = 0
    /\ UNCHANGED <<closed, shutdownReceived, stdout, sent, served>>

HeaderLine ==
    /\ CanReadLine
    /\ stdin' = AfterLine
    /\ \/ /\ Line = << >>
          /\ inBody' = (len # NoLength)
          /\ UNCHANGED len
       \/ /\ Line # << >>
          /\ len' = IF Line[1] = BadLength THEN NoLength
                    ELSE IF Line[1] \in Lengths
                         THEN Line[1][2] ELSE len
          /\ UNCHANGED inBody
    /\ UNCHANGED <<closed, shutdownReceived, exitCode, stdout, sent, served>>

EndOfInput ==
    /\ exitCode = Running
    /\ ~inBody
    /\ closed
    /\ stdin = << >>
    /\ Stop
    /\ UNCHANGED <<stdin, reading>>

\* A length over the cap, or the end of input inside the body.
BodyMissing ==
    /\ exitCode = Running
    /\ inBody
    /\ len > MaxFrame \/ (closed /\ Len(stdin) < len)
    /\ Stop
    /\ UNCHANGED <<stdin, reading>>

Body == SubSeq(stdin, 1, len)

CanReadBody ==
    /\ exitCode = Running
    /\ inBody
    /\ len <= MaxFrame
    /\ Len(stdin) >= len

\* A body of white space counts as the end of input, one that is no JSON as
\* an error: the loop ends either way.
BodyRefused ==
    /\ CanReadBody
    /\ \A message \in Messages : Body # BodyOf(message)
    /\ stdin' = SubSeq(stdin, len + 1, Len(stdin))
    /\ Stop
    /\ UNCHANGED reading

\* Mutant of Serve: the body is looked at and left where it is.
ServeWithoutReading(message) ==
    /\ CanReadBody
    /\ Body = BodyOf(message)
    /\ stdin' = stdin
    /\ UNCHANGED len
    /\ UNCHANGED inBody
    /\ served' = Append(served, message)
    /\ shutdownReceived' = (shutdownReceived \/ message = Shutdown)
    /\ exitCode' = IF message # Exit THEN Running ELSE IF shutdownReceived THEN 0 ELSE 1
    /\ stdout' = IF message \in Requests \cup {Shutdown} THEN Append(stdout, message)
                 ELSE stdout
    /\ UNCHANGED <<closed, sent>>

\* Mutant of Serve: the length of one frame is there for the next.
ServeKeepingLength(message) ==
    /\ CanReadBody
    /\ Body = BodyOf(message)
    /\ stdin' = SubSeq(stdin, len + 1, Len(stdin))
    /\ UNCHANGED len
    /\ inBody' = FALSE
    /\ served' = Append(served, message)
    /\ shutdownReceived' = (shutdownReceived \/ message = Shutdown)
    /\ exitCode' = IF message # Exit THEN Running ELSE IF shutdownReceived THEN 0 ELSE 1
    /\ stdout' = IF message \in Requests \cup {Shutdown} THEN Append(stdout, message)
                 ELSE stdout
    /\ UNCHANGED <<closed, sent>>

\* The loop of main, for the message just read.
Serve(message) ==
    /\ CanReadBody
    /\ Body = BodyOf(message)
    /\ stdin' = SubSeq(stdin, len + 1, Len(stdin))
    /\ len' = NoLength
    /\ inBody' = FALSE
    /\ served' = Append(served, message)
    /\ shutdownReceived' = (shutdownReceived \/ message = Shutdown)
    /\ exitCode' = IF message # Exit THEN Running ELSE IF shutdownReceived THEN 0 ELSE 1
    /\ stdout' = IF message \in Requests \cup {Shutdown} THEN Append(stdout, message)
                 ELSE stdout
    /\ UNCHANGED <<closed, sent>>

ServerNext ==
    \/ HeaderLine \/ EndOfInput \/ BodyMissing \/ BodyRefused
    \/ \E message \in Messages : Serve(message)

\* Nothing is left to do: the process has ended, or it waits for input.
Rest ==
    /\ Len(sent) = MaxFrames \/ closed
    /\ ~ENABLED ServerNext
    /\ UNCHANGED vars

ClientNext ==
    \/ \E shape \in Shapes, body \in Bodies : Write(shape, body)
    \/ Close

Next == ServerNext \/ ClientNext \/ Rest

\* The server goes on while it has input.
Spec == Init /\ [][Next]_vars /\ WF_vars(ServerNext)

-----------------------------------------------------------------------------
TypeOK ==
    /\ stdin \in Seq(Bodies \cup Fields \cup {EOL})
    /\ sent \in Seq([shape : Shapes, body : Bodies])
    /\ served \in Seq(Messages) /\ stdout \in Seq(Messages)
    /\ len \in Nat \cup {NoLength} /\ (inBody => len # NoLength)
    /\ closed \in BOOLEAN /\ inBody \in BOOLEAN /\ shutdownReceived \in BOOLEAN
    /\ exitCode \in {Running, 0, 1}

Sound(frame) == frame.shape \in SoundShapes /\ frame.body # Garbage

\* The frames before the first faulty one.
SoundFrames ==
    {i \in DOMAIN sent : \A j \in 1 .. i : Sound(sent[j])}

(***************************************************************************)
(* The messages of correct frames are served in the order they were sent,  *)
(* none skipped and none made up, whichever variants of the header the     *)
(* client writes; and whatever comes after a faulty frame, nothing is      *)
(* served that the client did not send whole, or out of order.             *)
(***************************************************************************)
ServedAsSent ==
    /\ \A i \in DOMAIN served : i \in DOMAIN sent /\ (i \in SoundFrames => served[i] = sent[i].body)
    /\ \E places \in [DOMAIN served -> DOMAIN sent] :
          /\ \A i \in DOMAIN served : served[i] = sent[places[i]].body
          /\ \A i, j \in DOMAIN served : i < j => places[i] < places[j]

(***************************************************************************)
(* Every message of a correct client is served up to the one that tells    *)
(* the process to exit: no correct frame makes the loop end or wait.       *)
(***************************************************************************)
AllServed ==
    []<>(\/ \E i \in DOMAIN sent : ~Sound(sent[i])
         \/ Len(served) = Len(sent)
         \/ \E i \in DOMAIN served : served[i] = Exit)
=============================================================================
