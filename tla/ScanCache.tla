----------------------------- MODULE ScanCache -----------------------------
(***************************************************************************)
(* The cross-file scan cache of crates/cj-lsp/src/server.rs: one project   *)
(* root, its .cj files, and refresh_sibling_cache, which every completion, *)
(* hover, definition, signature and diagnostics request runs.  The refresh *)
(* makes system calls one file at a time (read_dir and metadata, then      *)
(* read_to_string), and the user's tools write the same files meanwhile.   *)
(*                                                                         *)
(* A file that is missing has content NoFile, and so has a path without a  *)
(* cache entry.  A content stands for what the parser makes of it: the     *)
(* package it declares and the functions it defines.                       *)
(***************************************************************************)
EXTENDS Naturals, FiniteSets

CONSTANTS
    Files,        \* paths of .cj files the walk of the root may meet
    Contents,     \* contents of a file
    Unreadable,   \* those that are not UTF-8
    Packages,     \* package names
    Names,        \* function names
    PackageOf,    \* content -> package
    FuncsOf,      \* content -> names of its functions
    Uris,         \* what open documents are named by, a scheme taken off
    Endings,      \* path -> the uris its text ends with
    Requests,     \* the refreshes asked for
    Dependencies, \* packages of local cjpm dependencies (visible_packages)
    NoFile,       \* no file, no entry
    NoTime,       \* not met by the walk
    MinTick,      \* least advance of the clock between two writes
    MaxTime       \* bound: the clock

ASSUME ContentAssumption ==
    /\ Unreadable \subseteq Contents
    /\ NoFile \notin Contents /\ NoFile \notin Files
    /\ PackageOf \in [Contents -> Packages]
    /\ FuncsOf \in [Contents -> SUBSET Names]
    /\ Dependencies \subseteq Packages
    /\ Endings \in [Files -> SUBSET Uris] /\ NoFile \notin Uris
    /\ Requests \subseteq [package : Packages \cup {NoFile}, imported : SUBSET Packages,
                           self : Uris \cup {NoFile}]
ASSUME TimeAssumption == MinTick \in {0, 1} /\ MaxTime \in Nat /\ NoTime \notin Nat

VARIABLES
    disk,      \* path -> modification time and content
    now,       \* the file system's clock
    cache,     \* path -> entry: the time and content it was made from
    phase,     \* where refresh_sibling_cache is
    todo,      \* paths the current loop has yet to meet
    listing,   \* path -> time read by the walk (the local map `disk`)
    request,   \* package, imports and open document the refresh is for
    answer,    \* the last SiblingData returned
    \* History, read by no action of the program:
    during,    \* path -> contents it had since the refresh began
    touched,   \* paths written since the refresh began
    settled    \* paths not written since before the last whole refresh

vars == <<disk, now, cache, phase, todo, listing, request, answer, during, touched, settled>>
history == <<during, touched, settled>>

Version == [time : Nat, content : Contents \cup {NoFile}]
Nowhere == [time |-> 0, content |-> NoFile]
NoAnswer == [files |-> [f \in Files |-> NoFile], sigs |-> [n \in Names |-> NoFile]]

Init ==
    /\ disk \in [Files -> {[time |-> 0, content |-> c] : c \in Contents \cup {NoFile}}]
    /\ now = 0
    /\ cache = [f \in Files |-> Nowhere]
    /\ phase = "idle"
    /\ todo = {}
    /\ listing = [f \in Files |-> NoTime]
    /\ request \in Requests
    /\ answer = NoAnswer
    /\ during = [f \in Files |-> {}]
    /\ touched = {}
    /\ settled = {}

-----------------------------------------------------------------------------
(* The refresh. *)

Begin(r) ==
    /\ phase = "idle"
    /\ phase' = "walk"
    /\ todo' = Files
    /\ listing' = [f \in Files |-> NoTime]
    /\ request' = r
    /\ during' = [f \in Files |-> {disk[f].content}]
    /\ touched' = {}
    /\ UNCHANGED <<disk, now, cache, answer, settled>>

\* The walk meets the files in the order of the directories; a file that is
\* gone when its metadata is asked for is left out.
Visit(f) ==
    /\ phase = "walk"
    /\ f \in todo
    /\ todo' = todo \ {f}
    /\ listing' = [listing EXCEPT ![f] =
                      IF disk[f].content = NoFile THEN NoTime ELSE disk[f].time]
    /\ UNCHANGED <<disk, now, cache, phase, request, answer, history>>

EndWalk ==
    /\ phase = "walk"
    /\ todo = {}
    /\ phase' = "parse"
    /\ todo' = {f \in Files : listing[f] # NoTime}
    /\ UNCHANGED <<disk, now, cache, listing, request, answer, history>>

\* Mutant of Stale: an entry is kept for good.
StaleIfMissing(f) == cache[f].content = NoFile

\* Mutant of Stale: an entry of the same time is not trusted.
StaleIfNotNewer(f) == cache[f].content = NoFile \/ cache[f].time <= listing[f]

Stale(f) == cache[f].content = NoFile \/ cache[f].time # listing[f]

Keep(f) ==
    /\ phase = "parse"
    /\ f \in todo
    /\ ~Stale(f)
    /\ todo' = todo \ {f}
    /\ UNCHANGED <<disk, now, cache, phase, listing, request, answer, history>>

\* Mutant of Reparse: the old entry of a file that cannot be read gets the new time.
ReparseKeepsOld(f) ==
    /\ phase = "parse"
    /\ f \in todo
    /\ Stale(f)
    /\ todo' = todo \ {f}
    /\ cache' = [cache EXCEPT ![f] =
                    IF disk[f].content \notin Unreadable \cup {NoFile}
                    THEN [time |-> listing[f], content |-> disk[f].content]
                    ELSE IF @.content = NoFile THEN Nowhere
                    ELSE [@ EXCEPT !.time = listing[f]]]
    /\ UNCHANGED <<disk, now, phase, listing, request, answer, history>>

\* The entry parse_sibling_file makes: the time the walk saw and the content
\* there is now, or none for a file that cannot be read.
Parsed(f) ==
    IF disk[f].content \in Unreadable \cup {NoFile} THEN Nowhere
    ELSE [time |-> listing[f], content |-> disk[f].content]

Reparse(f) ==
    /\ phase = "parse"
    /\ f \in todo
    /\ Stale(f)
    /\ todo' = todo \ {f}
    /\ cache' = [cache EXCEPT ![f] = Parsed(f)]
    /\ UNCHANGED <<disk, now, phase, listing, request, answer, history>>

Visible(content) ==
    \/ request.package = NoFile
    \/ PackageOf[content] \in {request.package} \cup request.imported \cup Dependencies

\* The open document's file is told from the others by the end of its path: so
\* is every file whose path goes on before it, and none when the uri is written
\* in another way than the path.
LeftOut(f) == request.self \in Endings[f]

\* Mutant of Merge: entries of deleted files stay.
MergeKeepingGone ==
    LET merged == {f \in Files : cache[f].content # NoFile /\ Visible(cache[f].content)}
        owners(n) == {f \in merged : n \in FuncsOf[cache[f].content]}
    IN  /\ phase = "parse"
        /\ todo = {}
        /\ phase' = "idle"
        /\ \E sigs \in [Names -> Files \cup {NoFile}] :
              /\ \A n \in Names : IF owners(n) = {} THEN sigs[n] = NoFile
                                  ELSE sigs[n] \in owners(n)
              /\ answer' = [files |-> [f \in Files |->
                                          IF f \in merged /\ ~LeftOut(f)
                                          THEN cache[f].content ELSE NoFile],
                            sigs |-> sigs]
        /\ settled' = Files \ touched
        /\ UNCHANGED <<disk, now, cache, todo, listing, request, during, touched>>

\* Entries of files the walk did not meet are dropped; the visible ones are
\* merged.  Functions of the same name overwrite each other in the order of
\* the hash map.
Merge ==
    LET kept == [f \in Files |-> IF listing[f] = NoTime THEN Nowhere ELSE cache[f]]
        merged == {f \in Files : kept[f].content # NoFile /\ Visible(kept[f].content)}
        owners(n) == {f \in merged : n \in FuncsOf[kept[f].content]}
    IN  /\ phase = "parse"
        /\ todo = {}
        /\ phase' = "idle"
        /\ cache' = kept
        /\ \E sigs \in [Names -> Files \cup {NoFile}] :
              /\ \A n \in Names : IF owners(n) = {} THEN sigs[n] = NoFile
                                  ELSE sigs[n] \in owners(n)
              /\ answer' = [files |-> [f \in Files |->
                                          IF f \in merged /\ ~LeftOut(f)
                                          THEN kept[f].content ELSE NoFile],
                            sigs |-> sigs]
        /\ settled' = Files \ touched
        /\ UNCHANGED <<disk, now, todo, listing, request, during, touched>>

Refresh ==
    \/ \E f \in Files : Visit(f) \/ Keep(f) \/ Reparse(f)
    \/ EndWalk
    \/ Merge

-----------------------------------------------------------------------------
(* The other programs that use the files: they write, truncate and delete. *)

Touch(f, version) ==
    /\ disk' = [disk EXCEPT ![f] = version]
    /\ during' = [during EXCEPT ![f] = @ \cup {version.content}]
    /\ touched' = touched \cup {f}
    /\ settled' = settled \ {f}
    /\ UNCHANGED <<cache, phase, todo, listing, request, answer>>

Write(f, content, tick) ==
    /\ now + tick <= MaxTime
    /\ now' = now + tick
    /\ Touch(f, [time |-> now', content |-> content])

Delete(f) ==
    /\ disk[f].content # NoFile
    /\ now' = now
    /\ Touch(f, Nowhere)

Others ==
    \E f \in Files :
        \/ \E content \in Contents, tick \in MinTick .. 1 : Write(f, content, tick)
        \/ Delete(f)

Next ==
    \/ \E r \in Requests : Begin(r)
    \/ Refresh
    \/ Others

\* A refresh that has begun runs to its end: its loops wait for nothing.
Spec == Init /\ [][Next]_vars

-----------------------------------------------------------------------------
TypeOK ==
    /\ disk \in [Files -> Version]
    /\ now \in Nat
    /\ cache \in [Files -> Version]
    /\ phase \in {"idle", "walk", "parse"}
    /\ todo \in SUBSET Files
    /\ listing \in [Files -> Nat \cup {NoTime}]
    /\ phase = "parse" => \A f \in todo : listing[f] \in Nat
    /\ request \in Requests
    /\ answer \in [files : [Files -> Contents \cup {NoFile}],
                   sigs : [Names -> Files \cup {NoFile}]]
    /\ during \in [Files -> SUBSET (Contents \cup {NoFile})]
    /\ touched \in SUBSET Files
    /\ settled \in SUBSET Files

(***************************************************************************)
(* An entry whose time is the file's was made from the file's content:     *)
(* comparing times alone, as refresh_sibling_cache does, is enough.  It    *)
(* rests on the order of the two system calls, time first and content      *)
(* second, and on writes that never reuse a time.                          *)
(***************************************************************************)
TimeTellsContent ==
    \A f \in Files :
        cache[f].content # NoFile /\ disk[f].content # NoFile /\ cache[f].time = disk[f].time
            => cache[f].content = disk[f].content

(***************************************************************************)
(* What a refresh has gathered is never older than the refresh: at the end *)
(* of it every entry holds a content the file had since it began, and      *)
(* every path without one was missing or unreadable at some time since.    *)
(***************************************************************************)
NoOlderThanRefresh ==
    phase = "parse" =>
        \A f \in Files \ todo :
            IF listing[f] = NoTime THEN NoFile \in during[f]
            ELSE IF cache[f].content = NoFile
                 THEN during[f] \cap (Unreadable \cup {NoFile}) # {}
            ELSE cache[f].content \in during[f]

(***************************************************************************)
(* When nothing is written during a refresh its answer is what the disk    *)
(* says: candidates of exactly the readable visible files whose path does  *)
(* not end with the uri of the open document, and a signature for exactly  *)
(* the functions some visible file defines, the open one's included.       *)
(* (The comment on self_path has it that the opened file itself is left    *)
(* out; README.md says where the two differ.)                              *)
(***************************************************************************)
QuietAnswerExact ==
    LET there == {f \in Files : /\ disk[f].content \notin Unreadable \cup {NoFile}
                                /\ Visible(disk[f].content)}
    IN  phase = "idle" /\ settled = Files =>
            /\ \A f \in Files :
                  answer.files[f] = IF f \in there /\ ~LeftOut(f)
                                    THEN disk[f].content ELSE NoFile
            /\ \A n \in Names :
                  (answer.sigs[n] = NoFile) <=> \A f \in there : n \notin FuncsOf[disk[f].content]

(***************************************************************************)
(* Why these hold, as one inductive invariant.                             *)
(***************************************************************************)

\* What a walk and a parse of an undisturbed file come to.
ListedAs(version) == IF version.content = NoFile THEN NoTime ELSE version.time
ParsedAs(version) ==
    IF version.content \in Unreadable \cup {NoFile} THEN Nowhere ELSE version

Met(f) == (phase = "walk" /\ f \notin todo) \/ phase = "parse"
Done(f) == phase = "parse" /\ f \notin todo

\* Times lie in the past.
TimesPast ==
    \A f \in Files : /\ disk[f].time <= now /\ cache[f].time <= now
                     /\ listing[f] \in Nat => listing[f] <= now

\* Only contents that could be read are in the cache.
EntryReadable == \A f \in Files : cache[f].content \notin Unreadable

\* The history of a path ends in what it is now.
DuringIsCurrent == phase # "idle" => \A f \in Files : disk[f].content \in during[f]

\* What the walk has seen, and what it makes of the cache.
WalkSeen ==
    \A f \in Files :
        /\ Met(f) /\ listing[f] = NoTime => NoFile \in during[f]
        /\ Met(f) /\ listing[f] # NoTime /\ ~Stale(f) => cache[f].content \in during[f]
        /\ phase = "walk" /\ f \in todo => listing[f] = NoTime

\* What a parsed or kept entry is.
ParseSeen ==
    \A f \in Files :
        Done(f) /\ listing[f] # NoTime =>
            IF cache[f].content = NoFile
            THEN during[f] \cap (Unreadable \cup {NoFile}) # {}
            ELSE cache[f].time = listing[f]

\* Files the others leave alone are listed and cached as they are.
UntouchedExact ==
    \A f \in Files \ touched :
        /\ Met(f) => listing[f] = ListedAs(disk[f])
        /\ Done(f) /\ listing[f] # NoTime => cache[f] = ParsedAs(disk[f])

SettledExact ==
    \A f \in settled :
        /\ cache[f] = ParsedAs(disk[f])
        /\ Met(f) => listing[f] = ListedAs(disk[f])

Inv == /\ TimesPast /\ EntryReadable /\ DuringIsCurrent /\ TimeTellsContent
       /\ WalkSeen /\ ParseSeen /\ UntouchedExact /\ SettledExact

\* A file nobody has written since before the last whole refresh is not read
\* again: "only changed/new sibling files are re-parsed".
SettledNotReread ==
    [][\A f \in settled : disk[f].content \notin Unreadable => ~Reparse(f)]_vars
=============================================================================
