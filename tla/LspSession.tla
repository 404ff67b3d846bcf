----------------------------- MODULE LspSession -----------------------------
(***************************************************************************)
(* The server at work with an editor.  The editor is not part of the       *)
(* repository's server: it is modelled from what the protocol and the two  *)
(* clients in the tree (vscode-cangjie, tools/lsp_e2e.py) do.  It edits    *)
(* without waiting, so that several messages may be under way each way.    *)
(***************************************************************************)
EXTENDS LspServer

CONSTANTS Nothing,      \* no text, no document
          Abandoned,    \* mark of a request nobody waits for any more
          Letters,      \* characters other than NL
          MaxText,      \* bound: length of a text
          MaxVersion,   \* bound: version of a document
          Ids           \* ids of requests; one is free again once answered

ASSUME SessionAssumption ==
    /\ MaxText \in Nat /\ MaxVersion \in Nat /\ PipeSize \in Nat \ {0}
    /\ NL \notin Letters
    /\ Running \notin {0, 1}
    /\ Abandoned \notin Uris
    /\ Nothing \notin [text : Seq(Letters \cup {NL}), version : Nat]

VARIABLES
    cText,      \* uri -> text in the editor, for the documents open in it
    cVersion,   \* uri -> the editor's version of that text
    shown,      \* uri -> text whose diagnostics the editor shows
    awaiting,   \* id -> uri of a request without answer, or Abandoned
    ending      \* "no"; "shutdown": the editor asked for it; "abrupt": it stops without

clientVars == <<cText, cVersion, shown, awaiting, ending>>
vars == <<serverVars, disk, pipes, clientVars>>

Texts == UNION {[1 .. n -> Letters \cup {NL}] : n \in 0 .. MaxText}
Inserts == UNION {[1 .. n -> Letters \cup {NL}] : n \in 0 .. 1}

Init ==
    /\ ServerInit
    /\ disk \in [Uris -> Texts]
    /\ cText = << >>
    /\ cVersion = << >>
    /\ shown = [u \in Uris |-> Nothing]
    /\ awaiting = << >>
    /\ ending = "no"

-----------------------------------------------------------------------------
CanSend ==
    /\ ~inputClosed
    /\ exitCode = Running
    /\ Len(toServer) < PipeSize

Send(m) ==
    /\ CanSend
    /\ toServer' = Append(toServer, m)
    /\ UNCHANGED <<serverVars, toClient, inputClosed>>

\* History: a message that changes a document carries the copy the editor
\* means by it. The server does not read it.
Copy(text, version) == [text |-> text, version |-> version]
Carries(m, u) == m.kind \in {"didOpen", "didChange", "didClose"} /\ m.uri = u

\* The editor opens the file as it is on disk.
Open(u) ==
    /\ ending = "no"
    /\ u \notin DOMAIN cText
    /\ Send([kind |-> "didOpen", uri |-> u, text |-> disk[u], copy |-> Copy(disk[u], 0)])
    /\ cText' = Inserted(cText, u, disk[u])
    /\ cVersion' = Inserted(cVersion, u, 0)
    /\ UNCHANGED <<disk, shown, awaiting, ending>>

\* The message states the version the text had, as the suite's clients do.
Change(u, newText, changes) ==
    /\ ending = "no"
    /\ cVersion[u] < MaxVersion
    /\ Len(newText) <= MaxText
    /\ Send([kind |-> "didChange", uri |-> u, changes |-> changes,
             version |-> cVersion[u], copy |-> Copy(newText, cVersion[u] + 1)])
    /\ cText' = [cText EXCEPT ![u] = newText]
    /\ cVersion' = [cVersion EXCEPT ![u] = @ + 1]
    /\ UNCHANGED <<disk, shown, awaiting, ending>>

Position(text, offset) ==
    LET breaks == {i \in 1 .. offset : text[i] = NL}
        line == {i \in 1 .. offset : \A b \in breaks : b < i}
    IN  [line |-> Cardinality(breaks), character |-> Cardinality(line)]

\* The user replaces the characters between two offsets.
Edit(u) ==
    \E from \in 0 .. Len(cText[u]) : \E to \in from .. Len(cText[u]) :
        \E new \in Inserts :
            Change(u, Splice(cText[u], from, to, new),
                   <<[whole |-> FALSE, text |-> new,
                      start |-> Position(cText[u], from),
                      end   |-> Position(cText[u], to)]>>)

\* Two edits travel in one message, at the end of the text and then at its
\* start: the later position first, as editors send several cursors' edits.
EditTwice(u) ==
    \E first, last \in Inserts \ {<< >>} :
        LET end == Position(cText[u], Len(cText[u]))
            home == Position(cText[u], 0)
        IN  Change(u, first \o cText[u] \o last,
                   <<[whole |-> FALSE, text |-> last, start |-> end, end |-> end],
                     [whole |-> FALSE, text |-> first, start |-> home, end |-> home]>>)

\* The whole text is replaced (a formatter, a revert).
Replace(u) ==
    \E text \in Texts :
        Change(u, text, <<[whole |-> TRUE, text |-> text]>>)

Save(u) ==
    /\ ending = "no"
    /\ disk[u] # cText[u]
    /\ disk' = [disk EXCEPT ![u] = cText[u]]
    /\ Send([kind |-> "didSave", uri |-> u])
    /\ UNCHANGED clientVars

\* Closing a document gives up the requests made in it.
Close(u) ==
    /\ Send([kind |-> "didClose", uri |-> u, copy |-> Nothing])
    /\ cText' = Removed(cText, u)
    /\ cVersion' = Removed(cVersion, u)
    /\ awaiting' = [id \in DOMAIN awaiting |->
                       IF awaiting[id] = u THEN Abandoned ELSE awaiting[id]]
    /\ shown' = [shown EXCEPT ![u] = Nothing]
    /\ UNCHANGED <<disk, ending>>

AskRename(u, id) ==
    /\ ending = "no"
    /\ Send([kind |-> "rename", uri |-> u, id |-> id])
    /\ awaiting' = Inserted(awaiting, id, u)
    /\ UNCHANGED <<disk, cText, cVersion, shown, ending>>

AskShutdown(id) ==
    /\ ending = "no"
    /\ ending' = "shutdown"
    /\ Send([kind |-> "shutdown", uri |-> Nothing, id |-> id])
    /\ awaiting' = Inserted(awaiting, id, Nothing)
    /\ UNCHANGED <<disk, cText, cVersion, shown>>

\* exit may come without any shutdown, and without waiting for its answer.
SendExit ==
    /\ ending' = IF ending = "no" THEN "abrupt" ELSE ending
    /\ Send([kind |-> "exit"])
    /\ UNCHANGED <<disk, cText, cVersion, shown, awaiting>>

\* The editor dies or drops the connection.
CloseInput ==
    /\ CanSend
    /\ inputClosed' = TRUE
    /\ ending' = IF ending = "no" THEN "abrupt" ELSE ending
    /\ UNCHANGED <<serverVars, disk, toServer, toClient, cText, cVersion, shown, awaiting>>

\* Messages are read in order; diagnostics of a closed document are ignored.
Receive ==
    /\ toClient # << >>
    /\ toClient' = Tail(toClient)
    /\ LET m == Head(toClient)
       IN  \/ /\ m.kind = "diagnostics"
              /\ shown' = IF m.uri \in DOMAIN cText
                          THEN [shown EXCEPT ![m.uri] = m.on] ELSE shown
              /\ UNCHANGED awaiting
           \/ /\ m.kind = "answer"
              /\ awaiting' = Removed(awaiting, m.id)
              /\ UNCHANGED shown
    /\ UNCHANGED <<serverVars, disk, toServer, inputClosed, cText, cVersion, ending>>

ClientNext ==
    \/ \E u \in Uris : Open(u)
    \/ \E u \in DOMAIN cText :
          \/ Edit(u) \/ EditTwice(u) \/ Replace(u) \/ Save(u) \/ Close(u)
          \/ \E id \in Ids \ DOMAIN awaiting : AskRename(u, id)
    \/ \E id \in Ids \ DOMAIN awaiting : AskShutdown(id)
    \/ SendExit
    \/ CloseInput
    \/ Receive

\* Both sides have stopped.
Ended == exitCode # Running /\ toClient = << >> /\ UNCHANGED vars

ServerStep == ServerNext /\ UNCHANGED clientVars

Next == ServerStep \/ ClientNext \/ Ended

\* A turn of the server's loop, told by what it does to stdin: no step of the
\* editor takes a message out of it, and every message has a handler that can
\* run when there is room for its output.
ServerTurn ==
    /\ exitCode = Running
    /\ toServer # << >>
    /\ Len(toClient) < PipeSize
    /\ toServer' = Tail(toServer)

ServerEnd ==
    /\ exitCode = Running
    /\ toServer = << >>
    /\ inputClosed
    /\ exitCode' = 0

\* The loop reads again as soon as a handler returns, and handlers wait for
\* nothing; the editor empties its pipe whatever else it does.
Fairness == WF_toServer(ServerTurn) /\ WF_exitCode(ServerEnd) /\ WF_vars(Receive)

Spec == Init /\ [][Next]_vars /\ Fairness

-----------------------------------------------------------------------------
Chars == Letters \cup {NL}
SomePosition == [line : Nat, character : Nat]
ContentChanges ==
    [whole : {TRUE}, text : Seq(Chars)]
      \cup [whole : {FALSE}, text : Seq(Chars), start : SomePosition, end : SomePosition]
Copies == [text : Seq(Chars), version : Nat]

FromEditor ==
    [kind : {"didOpen"}, uri : Uris, text : Seq(Chars), copy : Copies]
      \cup [kind : {"didChange"}, uri : Uris, changes : Seq(ContentChanges),
            version : Nat, copy : Copies]
      \cup [kind : {"didClose"}, uri : Uris, copy : {Nothing}]
      \cup [kind : {"didSave"}, uri : Uris]
      \cup [kind : {"rename"}, uri : Uris, id : Ids]
      \cup [kind : {"shutdown"}, uri : {Nothing}, id : Ids]
      \cup [kind : {"exit"}]

FromServer ==
    [kind : {"diagnostics"}, uri : Uris, on : Seq(Chars)]
      \cup [kind : {"answer"}, id : Ids, uri : Uris,
            result : [version : Nat, on : Seq(Chars)] \cup {NoAnswer}]
      \cup [kind : {"answer"}, id : Ids, uri : {Nothing}, result : {NoAnswer}]

ServerTypes ==
    /\ DOMAIN openDocs \subseteq Uris /\ openDocs \in [DOMAIN openDocs -> Seq(Chars)]
    /\ DOMAIN docVersions \subseteq Uris /\ docVersions \in [DOMAIN docVersions -> Nat]
    /\ shutdownReceived \in BOOLEAN
    /\ exitCode \in {Running, 0, 1}

PipeTypes ==
    /\ toServer \in Seq(FromEditor) /\ Len(toServer) <= PipeSize
    /\ toClient \in Seq(FromServer) /\ Len(toClient) <= PipeSize
    /\ inputClosed \in BOOLEAN

EditorTypes ==
    /\ disk \in [Uris -> Texts]
    /\ DOMAIN cText \subseteq Uris /\ cText \in [DOMAIN cText -> Texts]
    /\ cVersion \in [DOMAIN cText -> 0 .. MaxVersion]
    /\ shown \in [Uris -> Seq(Chars) \cup {Nothing}]
    /\ DOMAIN awaiting \subseteq Ids
    /\ awaiting \in [DOMAIN awaiting -> Uris \cup {Nothing, Abandoned}]
    /\ ending \in {"no", "shutdown", "abrupt"}

TypeOK == ServerTypes /\ PipeTypes /\ EditorTypes

ServerCopy(u) == IF u \in DOMAIN openDocs THEN Copy(openDocs[u], docVersions[u]) ELSE Nothing
EditorCopy(u) == IF u \in DOMAIN cText THEN Copy(cText[u], cVersion[u]) ELSE Nothing

\* What a copy of document u is to become by the first i messages of a queue:
\* what the last of them that carries one means.
CopyAfter(u, copy, queue, i) ==
    LET carriers == {k \in 1 .. i : Carries(queue[k], u)}
        last == CHOOSE k \in carriers : \A j \in carriers : j <= k
    IN  IF carriers = {} THEN copy ELSE queue[last].copy

(***************************************************************************)
(* The two copies of a document never drift apart: with any edits under    *)
(* way the server's buffers, as long as it runs, go through the editor's   *)
(* texts and versions one by one (did_open, did_change, did_close,         *)
(* apply_incremental_change), for an editor that counts versions as the    *)
(* suite does and a text without characters of two UTF-16 units.           *)
(***************************************************************************)
Mirror ==
    INSTANCE DocumentMirror WITH
        Closed <- Nothing,
        edited <- [u \in Uris |-> EditorCopy(u)],
        stages <- [i \in 1 .. Len(toServer) + 1 |->
                      [u \in Uris |-> CopyAfter(u, ServerCopy(u), toServer, i - 1)]]
MirrorsTheEditor == Mirror!Spec

(***************************************************************************)
(* An editor that applies a rename only when its version is the one it now *)
(* has never applies ranges computed on another text (handle_rename echoes *)
(* doc_versions "so clients can reconcile their own version counters").    *)
(***************************************************************************)
NoStaleRename ==
    \A i \in DOMAIN toClient :
        LET m == toClient[i]
        IN  /\ m.kind = "answer"
            /\ m.result # NoAnswer
            /\ awaiting[m.id] = m.uri
            /\ m.result.version = cVersion[m.uri]
            => m.result.on = cText[m.uri]

\* Where a request is: in stdin, or answered in stdout.
Places(id) ==
    {<<"in", i>> : i \in {j \in DOMAIN toServer :
                             /\ toServer[j].kind \in {"rename", "shutdown"}
                             /\ toServer[j].id = id}}
    \cup
    {<<"out", i>> : i \in {j \in DOMAIN toClient :
                              toClient[j].kind = "answer" /\ toClient[j].id = id}}

(***************************************************************************)
(* No request is answered twice, and none is lost while the server runs    *)
(* (main.rs answers exactly the messages that carry an id).                *)
(***************************************************************************)
AnsweredOnce ==
    \A id \in Ids :
        IF id \in DOMAIN awaiting
        THEN Cardinality(Places(id)) <= 1 /\ (exitCode = Running => Places(id) # {})
        ELSE Places(id) = {}

(***************************************************************************)
(* An editor that asked for shutdown before it sent exit never sees the    *)
(* process fail, whatever else was in the pipe (handle_shutdown,           *)
(* handle_exit).                                                           *)
(***************************************************************************)
OrderlyStop == exitCode = 1 => ending # "shutdown"

\* The editor shows the diagnostics of the text it holds, or shows none.
UpToDate(u) ==
    \/ ending # "no"
    \/ u \notin DOMAIN cText
    \/ shown[u] = cText[u]

(***************************************************************************)
(* An editor that rests at a text ends up showing that text's diagnostics, *)
(* unless the text is empty (did_change, publish_diagnostics).             *)
(***************************************************************************)
DiagnosticsCatchUp ==
    \A u \in Uris : []<>(UpToDate(u) \/ (u \in DOMAIN cText /\ cText[u] = << >>))

(***************************************************************************)
(* Every request is answered unless the process ends first.                *)
(***************************************************************************)
Responsive ==
    \A id \in Ids : id \in DOMAIN awaiting ~> (id \notin DOMAIN awaiting \/ exitCode # Running)
=============================================================================
