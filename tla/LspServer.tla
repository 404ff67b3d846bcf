----------------------------- MODULE LspServer -----------------------------
(***************************************************************************)
(* The server process of crates/cj-lsp: the loop of main.rs, which reads   *)
(* one message, handles it to its end and writes what the handler returns  *)
(* before it reads the next one, and the handlers of server.rs that change *)
(* the state of LspServer.                                                 *)
(*                                                                         *)
(* The two byte streams are queues of whole messages (how bytes become     *)
(* messages is the subject of Framing).  The answers carry `on`, the text  *)
(* the handler worked on: the ranges of an answer mean something only in   *)
(* that text.                                                              *)
(***************************************************************************)
EXTENDS TextEdit

CONSTANTS Uris,      \* names of documents
          Running,   \* exit code of a process that has not ended
          NoAnswer,  \* the answer null
          PipeSize   \* messages a pipe holds before its writer waits

VARIABLES
    openDocs,          \* uri -> the text of didOpen/didChange
    docVersions,       \* uri -> version kept for WorkspaceEdits
    shutdownReceived,
    exitCode,
    disk,              \* uri -> content of the file the uri names
    toServer,          \* stdin
    toClient,          \* stdout
    inputClosed        \* the client has closed stdin

serverVars == <<openDocs, docVersions, shutdownReceived, exitCode>>
pipes == <<toServer, toClient, inputClosed>>

ServerInit ==
    /\ openDocs = << >>
    /\ docVersions = << >>
    /\ shutdownReceived = FALSE
    /\ exitCode = Running
    /\ toServer = << >>
    /\ toClient = << >>
    /\ inputClosed = FALSE

-----------------------------------------------------------------------------

\* HashMap::insert and HashMap::remove.
Inserted(map, key, value) ==
    [k \in DOMAIN map \cup {key} |-> IF k = key THEN value ELSE map[k]]
Removed(map, key) == [k \in DOMAIN map \ {key} |-> map[k]]

\* One turn of the loop, for a message of the given kind.
Handle(kind) ==
    /\ exitCode = Running
    /\ toServer # << >>
    /\ Head(toServer).kind = kind
    /\ toServer' = Tail(toServer)
    /\ UNCHANGED <<disk, inputClosed>>

\* write_message flushes: it waits while the pipe is full.
Write(m) ==
    /\ Len(toClient) < PipeSize
    /\ toClient' = Append(toClient, m)

\* The text publish_diagnostics analyses for a document: the buffer, or the
\* file when the buffer is empty.
Analysed(uri, docs) == IF docs[uri] = << >> THEN disk[uri] ELSE docs[uri]

PublishDiagnostics(uri, docs) ==
    IF uri \in DOMAIN docs
    THEN Write([kind |-> "diagnostics", uri |-> uri, on |-> Analysed(uri, docs)])
    ELSE UNCHANGED toClient

\* didOpen: the client's own version number is not read.
DidOpen ==
    LET m == Head(toServer)
        docs == Inserted(openDocs, m.uri, m.text)
    IN  /\ Handle("didOpen")
        /\ openDocs' = docs
        /\ docVersions' = Inserted(docVersions, m.uri, 0)
        /\ PublishDiagnostics(m.uri, docs)
        /\ UNCHANGED <<shutdownReceived, exitCode>>

\* The content changes of one didChange, applied in order: with a range each
\* is an edit, without one it is the whole text.
ApplyChange(text, change) ==
    IF change.whole THEN change.text
    ELSE ApplyIncrementalChange(text, change.start, change.end, change.text)

\* Mutant of ApplyChanges: the last change first.
ApplyChangesBackwards(text, changes) ==
    LET n == Len(changes)
        after[i \in 0 .. n] ==
            IF i = 0 THEN text ELSE ApplyChange(after[i - 1], changes[n + 1 - i])
    IN  after[n]

ApplyChanges(text, changes) ==
    LET after[i \in 0 .. Len(changes)] ==
            IF i = 0 THEN text ELSE ApplyChange(after[i - 1], changes[i])
    IN  after[Len(changes)]

\* Mutant of DidChange: diagnostics only on didOpen.
DidChangeUnpublished ==
    LET m == Head(toServer)
        docs == IF m.uri \in DOMAIN openDocs
                THEN [openDocs EXCEPT ![m.uri] = ApplyChanges(@, m.changes)]
                ELSE openDocs
    IN  /\ Handle("didChange")
        /\ openDocs' = docs
        /\ docVersions' = Inserted(docVersions, m.uri, m.version + 1)
        /\ UNCHANGED <<toClient, shutdownReceived, exitCode>>

\* didChange: the version is kept whether or not the document is open.
DidChange ==
    LET m == Head(toServer)
        docs == IF m.uri \in DOMAIN openDocs
                THEN [openDocs EXCEPT ![m.uri] = ApplyChanges(@, m.changes)]
                ELSE openDocs
    IN  /\ Handle("didChange")
        /\ openDocs' = docs
        /\ docVersions' = Inserted(docVersions, m.uri, m.version + 1)
        /\ PublishDiagnostics(m.uri, docs)
        /\ UNCHANGED <<shutdownReceived, exitCode>>

DidClose ==
    LET uri == Head(toServer).uri
    IN  /\ Handle("didClose")
        /\ openDocs' = Removed(openDocs, uri)
        /\ docVersions' = Removed(docVersions, uri)
        /\ UNCHANGED <<toClient, shutdownReceived, exitCode>>

\* Notifications without a handler (didSave among them) change nothing.
OtherNotification ==
    /\ Handle("didSave")
    /\ UNCHANGED <<toClient, serverVars>>

Answer(m, result) ==
    Write([kind |-> "answer", id |-> m.id, uri |-> m.uri, result |-> result])

\* Mutant of Rename: the version the next change will have.
RenameOneAhead ==
    LET m == Head(toServer)
    IN  /\ Handle("rename")
        /\ IF m.uri \in DOMAIN openDocs
           THEN Answer(m, [version |-> docVersions[m.uri] + 1, on |-> openDocs[m.uri]])
           ELSE Answer(m, NoAnswer)
        /\ UNCHANGED serverVars

\* Mutant of Rename: no answer where there is nothing to rename.
RenameSilent ==
    LET m == Head(toServer)
    IN  /\ Handle("rename")
        /\ \/ UNCHANGED toClient
           \/ /\ m.uri \in DOMAIN openDocs
              /\ Answer(m, [version |-> docVersions[m.uri], on |-> openDocs[m.uri]])
        /\ UNCHANGED serverVars

\* rename: null when the document is not open, when the cursor is on no
\* symbol or the new name is empty; else a versioned edit of the open text.
Rename ==
    LET m == Head(toServer)
        version == IF m.uri \in DOMAIN docVersions THEN docVersions[m.uri] ELSE 0
    IN  /\ Handle("rename")
        /\ \/ Answer(m, NoAnswer)
           \/ /\ m.uri \in DOMAIN openDocs
              /\ Answer(m, [version |-> version, on |-> openDocs[m.uri]])
        /\ UNCHANGED serverVars

\* Mutant of Shutdown: taken for a notification.
ShutdownUnanswered ==
    /\ Handle("shutdown")
    /\ shutdownReceived' = TRUE
    /\ UNCHANGED <<toClient, openDocs, docVersions, exitCode>>

\* shutdown is answered only when it is a request; it stops nothing.
Shutdown ==
    LET m == Head(toServer)
    IN  /\ Handle("shutdown")
        /\ shutdownReceived' = TRUE
        /\ Answer(m, NoAnswer)
        /\ UNCHANGED <<openDocs, docVersions, exitCode>>

\* Mutant of Exit: the flag is not consulted.
ExitIgnoringShutdown ==
    /\ Handle("exit")
    /\ exitCode' = 1
    /\ UNCHANGED <<toClient, openDocs, docVersions, shutdownReceived>>

\* exit ends the process at once: what is still in stdin is never read.
Exit ==
    /\ Handle("exit")
    /\ exitCode' = IF shutdownReceived THEN 0 ELSE 1
    /\ UNCHANGED <<toClient, openDocs, docVersions, shutdownReceived>>

\* End of input ends the process with ExitCode::SUCCESS.
EndOfInput ==
    /\ exitCode = Running
    /\ toServer = << >>
    /\ inputClosed
    /\ exitCode' = 0
    /\ UNCHANGED <<openDocs, docVersions, shutdownReceived, disk, pipes>>

ServerNext ==
    \/ DidOpen \/ DidChange \/ DidClose \/ OtherNotification
    \/ Rename \/ Shutdown \/ Exit \/ EndOfInput
=============================================================================
