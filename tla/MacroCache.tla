----------------------------- MODULE MacroCache -----------------------------
(***************************************************************************)
(* The compile cache of crates/cj-sema/src/macro_cache.rs: one macro       *)
(* package, the library cjpm leaves in its target directory, and the       *)
(* artifacts under .macro-cache, which outlive the processes and are       *)
(* shared by all of them (servers of several editors, the frontend).       *)
(* Every macro call of an analysis runs compile_macro_package and then,    *)
(* unless the expansion itself is remembered (see MacroRuntime), loads the *)
(* artifact it returns (expand_one_cached).                                *)
(*                                                                         *)
(* A library stands for the sources it was built from.  The name of an     *)
(* artifact is the hash of the texts of the files one after the other, a   *)
(* line break after each.  Hashes do not collide here, so the name is that *)
(* text itself: it does not tell where a file ends, and packages between   *)
(* whose files lines were moved can share it.                              *)
(***************************************************************************)
EXTENDS Naturals, FiniteSets
LOCAL INSTANCE SequencesExt

CONSTANTS
    Servers,    \* processes
    NFiles,     \* .cj files of the package, in the order of their paths
    Contents,   \* contents of a file
    Lines,      \* content -> its lines; none when it cannot be read as text
    Broken,     \* sources that do not compile
    NoLib,      \* no library
    Torn,       \* a library of which only a part is written
    MaxEdits    \* bound: edits, builds and cleanings by the user

ASSUME MacroCacheAssumption ==
    /\ NFiles \in Nat /\ MaxEdits \in Nat
    /\ Broken \subseteq [1 .. NFiles -> Contents]
    /\ NoLib # Torn /\ {NoLib, Torn} \cap [1 .. NFiles -> Contents] = {}

Sources == [1 .. NFiles -> Contents]
Libraries == Sources \cup {NoLib}

\* The text hash_package_sources hashes.
Key(reading) == FlattenSeq([f \in 1 .. NFiles |-> Lines[reading[f]]])

Keys == {Key(reading) : reading \in Sources}

VARIABLES
    source,    \* the sources on disk
    output,    \* the library under target/release
    artifact,  \* key -> file under .macro-cache
    phase,     \* server -> where compile_macro_package is
    read,      \* server -> files hashed so far
    hash,      \* server -> what was read of them, the key to be
    building,  \* server -> the sources its cjpm has read, or the file it copies
    loaded,    \* server -> library the last macro call was expanded with
    edits,
    \* History:
    since,     \* server -> sources there have been since its call began
    quiet,     \* servers that nobody has disturbed since
    began,     \* artifacts when the last call began
    found,     \* library under target/release when the last call began
    failed,    \* whether an error has been met since
    unbuilt    \* whether a cjpm has made no library since

cjpm == <<source, output>>
compiling == <<phase, read, hash, building, loaded>>
call == <<since, began, found>>
history == <<call, quiet, failed, unbuilt>>
vars == <<cjpm, artifact, compiling, edits, history>>

\* The package may have been built by hand.
Init ==
    /\ source \in Sources
    /\ output \in {NoLib} \cup ({source} \ Broken)
    /\ artifact = [key \in Keys |-> NoLib]
    /\ phase = [s \in Servers |-> "idle"]
    /\ read = [s \in Servers |-> 0]
    /\ hash = [s \in Servers |-> source]
    /\ building = [s \in Servers |-> NoLib]
    /\ loaded = [s \in Servers |-> NoLib]
    /\ edits = 0
    /\ since = [s \in Servers |-> {source}]
    /\ quiet = {}
    /\ began = artifact /\ found = output
    /\ failed = FALSE /\ unbuilt = FALSE

-----------------------------------------------------------------------------
(* compile_macro_package. *)

GoTo(s, next) == phase' = [phase EXCEPT ![s] = next]

\* A server's step disturbs the calls of the others that are under way.
Disturb(s) == quiet' = quiet \ (Servers \ {s})

\* An error of any of the calls of compile_macro_package ends it: the macro
\* is expanded from its quote template.
FallsBack(s) ==
    /\ GoTo(s, "loaded")
    /\ loaded' = [loaded EXCEPT ![s] = NoLib]

NewCall(s) ==
    /\ phase[s] = "idle"
    /\ since' = [since EXCEPT ![s] = {source}]
    /\ began' = artifact /\ found' = output
    /\ failed' = FALSE /\ unbuilt' = FALSE
    /\ quiet' = IF \A other \in Servers \ {s} : phase[other] = "idle"
                THEN {s} ELSE {}
    /\ UNCHANGED <<cjpm, artifact, hash, building, edits>>

\* The first find_macro_so_and_pkg: without a library of an earlier build the
\* call falls back before it would build one.
NothingFound(s) ==
    /\ NewCall(s)
    /\ output = NoLib
    /\ FallsBack(s)
    /\ UNCHANGED read

\* Mutant of Begin: the key of the last call is remembered.
BeginWithOldKey(s) ==
    /\ NewCall(s)
    /\ output # NoLib
    /\ GoTo(s, "hash")
    /\ UNCHANGED <<read, loaded>>

Begin(s) ==
    /\ NewCall(s)
    /\ output # NoLib
    /\ GoTo(s, "hash")
    /\ read' = [read EXCEPT ![s] = 0]
    /\ UNCHANGED loaded

\* hash_package_sources reads the files one after the other.
ReadFile(s) ==
    /\ phase[s] = "hash"
    /\ read[s] < NFiles
    /\ read' = [read EXCEPT ![s] = @ + 1]
    /\ hash' = [hash EXCEPT ![s][read'[s]] = source[read'[s]]]
    /\ UNCHANGED <<cjpm, artifact, phase, building, loaded, edits, history>>

\* The directories of the package cannot be listed (before any file is read),
\* or .macro-cache cannot be made (after all are).
HashFails(s) ==
    /\ phase[s] = "hash"
    /\ read[s] \in {0, NFiles}
    /\ FallsBack(s)
    /\ failed' = TRUE
    /\ UNCHANGED <<cjpm, artifact, read, hash, building, edits, call, unbuilt, quiet>>

\* An artifact that exists is taken as it is, whole or not; the memo of the
\* session names the same file.
UseArtifact(s) ==
    /\ phase[s] = "hash"
    /\ read[s] = NFiles
    /\ artifact[Key(hash[s])] # NoLib
    /\ GoTo(s, "load")
    /\ UNCHANGED <<cjpm, artifact, read, hash, building, loaded, edits, history>>

\* Mutant of BuildStarts: a library that is there is good enough.
BuildSkipped(s) ==
    /\ phase[s] = "hash"
    /\ read[s] = NFiles
    /\ artifact[Key(hash[s])] = NoLib
    /\ GoTo(s, "find")
    /\ UNCHANGED <<cjpm, artifact, read, hash, building, loaded, edits, history>>

\* Mutant of BuildStarts: no look at the cache.
BuildAlways(s) ==
    /\ phase[s] = "hash"
    /\ read[s] = NFiles
    /\ GoTo(s, "build")
    /\ building' = [building EXCEPT ![s] = source]
    /\ UNCHANGED <<cjpm, artifact, read, hash, loaded, edits, history>>

BuildStarts(s) ==
    /\ phase[s] = "hash"
    /\ read[s] = NFiles
    /\ artifact[Key(hash[s])] = NoLib
    /\ GoTo(s, "build")
    /\ building' = [building EXCEPT ![s] = source]
    /\ UNCHANGED <<cjpm, artifact, read, hash, loaded, edits, history>>

\* build_macro_package: envsetup.sh is not there, or bash is not to be started.
BuildFails(s) ==
    /\ phase[s] = "hash"
    /\ read[s] = NFiles
    /\ artifact[Key(hash[s])] = NoLib
    /\ FallsBack(s)
    /\ failed' = TRUE
    /\ UNCHANGED <<cjpm, artifact, read, hash, building, edits, call, unbuilt, quiet>>

\* cjpm ends.  Its exit status is ignored: when it has made nothing the second
\* find_macro_so_and_pkg takes the library of an earlier build, if there is one.
BuildEnds(s) ==
    /\ phase[s] = "build"
    /\ \/ /\ building[s] \notin Broken
          /\ output' = building[s]
          /\ UNCHANGED unbuilt
       \/ /\ unbuilt' = TRUE
          /\ UNCHANGED output
    /\ IF output' = NoLib
       THEN FallsBack(s)
       ELSE GoTo(s, "find") /\ UNCHANGED loaded
    /\ building' = [building EXCEPT ![s] = NoLib]
    /\ Disturb(s)
    /\ UNCHANGED <<source, artifact, read, hash, edits, call, failed>>

\* fs::copy opens the library and truncates the artifact.
CopyStarts(s) ==
    /\ phase[s] = "find"
    /\ output # NoLib
    /\ GoTo(s, "copy")
    /\ building' = [building EXCEPT ![s] = output]
    /\ artifact' = [artifact EXCEPT ![Key(hash[s])] = Torn]
    /\ Disturb(s)
    /\ UNCHANGED <<cjpm, read, hash, loaded, edits, call, failed, unbuilt>>

CopyEnds(s) ==
    /\ phase[s] = "copy"
    /\ artifact' = [artifact EXCEPT ![Key(hash[s])] = building[s]]
    /\ building' = [building EXCEPT ![s] = NoLib]
    /\ GoTo(s, "load")
    /\ Disturb(s)
    /\ UNCHANGED <<cjpm, read, hash, loaded, edits, call, failed, unbuilt>>

\* Before it has written anything (the library is gone, the directory takes no
\* file) or in the middle (the disk is full); what fs::copy returns is ignored.
CopyFails(s) ==
    /\ phase[s] \in {"find", "copy"}
    /\ building' = [building EXCEPT ![s] = NoLib]
    /\ GoTo(s, "load")
    /\ failed' = TRUE
    /\ UNCHANGED <<cjpm, artifact, read, hash, loaded, edits, call, unbuilt, quiet>>

\* expand_macro_call opens the artifact; one that is torn or missing does not
\* load and the call falls back.
Load(s) ==
    /\ phase[s] = "load"
    /\ loaded' = [loaded EXCEPT ![s] = IF artifact[Key(hash[s])] = Torn THEN NoLib
                                       ELSE artifact[Key(hash[s])]]
    /\ GoTo(s, "loaded")
    /\ UNCHANGED <<cjpm, artifact, read, hash, building, edits, history>>

\* The next macro call, of this analysis or of another one: nothing of the
\* cache in memory decides what a compile returns.
NextCall(s) ==
    /\ phase[s] = "loaded"
    /\ GoTo(s, "idle")
    /\ UNCHANGED <<cjpm, artifact, read, hash, building, loaded, edits, history>>

Compile(s) ==
    \/ NothingFound(s) \/ Begin(s) \/ ReadFile(s) \/ HashFails(s) \/ UseArtifact(s)
    \/ BuildFails(s) \/ BuildStarts(s) \/ BuildEnds(s)
    \/ CopyStarts(s) \/ CopyEnds(s) \/ CopyFails(s) \/ Load(s) \/ NextCall(s)

-----------------------------------------------------------------------------
(* The user and the system. *)

User(newSource, newOutput) ==
    /\ edits < MaxEdits
    /\ edits' = edits + 1
    /\ source' = newSource
    /\ output' = newOutput
    /\ since' = [s \in Servers |-> since[s] \cup {newSource}]
    /\ quiet' = {}
    /\ UNCHANGED <<artifact, compiling, began, found, failed, unbuilt>>

Edit == \E f \in 1 .. NFiles : \E c \in Contents \ {source[f]} :
            User([source EXCEPT ![f] = c], output)

UserBuild == source \notin Broken /\ User(source, source)

UserClean == output # NoLib /\ User(source, NoLib)

\* The process dies, its children with it or not yet done: a copy stays torn.
Crash(s) ==
    /\ phase[s] # "idle"
    /\ GoTo(s, "idle")
    /\ building' = [building EXCEPT ![s] = NoLib]
    /\ quiet' = {}
    /\ UNCHANGED <<cjpm, artifact, read, hash, loaded, edits, call, failed, unbuilt>>

Next ==
    \/ \E s \in Servers : Compile(s) \/ Crash(s)
    \/ Edit \/ UserBuild \/ UserClean

Spec == Init /\ [][Next]_vars

-----------------------------------------------------------------------------
TypeOK ==
    /\ source \in Sources /\ output \in Libraries
    /\ artifact \in [Keys -> Libraries \cup {Torn}]
    /\ phase \in [Servers -> {"idle", "hash", "build", "find", "copy", "load", "loaded"}]
    /\ read \in [Servers -> 0 .. NFiles] /\ hash \in [Servers -> Sources]
    /\ building \in [Servers -> Libraries] /\ loaded \in [Servers -> Libraries]
    /\ since \in [Servers -> SUBSET Sources] /\ quiet \subseteq Servers
    /\ began \in [Keys -> Libraries \cup {Torn}] /\ found \in Libraries
    /\ failed \in BOOLEAN /\ unbuilt \in BOOLEAN

(***************************************************************************)
(* The key under which a macro call looks for its library is never older   *)
(* than the call: of every file it holds a content the file has had since  *)
(* the call began, however the user edits meanwhile (hash_package_sources).*)
(***************************************************************************)
KeyNotOlderThanCall ==
    \A s \in Servers : phase[s] \in {"build", "find", "copy", "load"} =>
        \A f \in 1 .. NFiles : \E version \in since[s] : hash[s][f] = version[f]

(***************************************************************************)
(* What a macro call that nobody disturbs is expanded with, whatever the   *)
(* calls, crashes and failures before it left in the cache: nothing when   *)
(* there was no library to begin with, when one of its steps met an error  *)
(* or when it found a torn artifact; the artifact it found when there was  *)
(* a whole one; otherwise the library of exactly these sources, and only   *)
(* if cjpm makes none that of the last build (compile_macro_package).      *)
(***************************************************************************)
QuietCallExact ==
    \A s \in quiet : phase[s] = "loaded" =>
        LET cached == began[Key(source)]
        IN  loaded[s] = IF failed \/ found = NoLib \/ cached = Torn THEN NoLib
                        ELSE IF cached # NoLib THEN cached
                        ELSE IF unbuilt THEN found
                        ELSE source

(***************************************************************************)
(* "If the macro package source is unchanged, reuse the cached .so (no cjc *)
(* invocation)": sources that were in the cache when a call began, and     *)
(* that nobody has edited since, are not built again, and no step of the   *)
(* server takes what was whole away.                                       *)
(***************************************************************************)
CachedIsKept ==
    [][\A s \in quiet :
          began[Key(source)] # NoLib =>
              /\ ~BuildStarts(s)
              /\ Compile(s) => artifact'[Key(source)] = artifact[Key(source)]]_vars

(***************************************************************************)
(* Why the key is not old: the sources there are now are among those seen  *)
(* since the call began, and so is all that was hashed.                    *)
(***************************************************************************)
KeySeen ==
    \A s \in Servers :
        /\ source \in since[s]
        /\ phase[s] = "hash" => \A f \in 1 .. read[s] : \E version \in since[s] :
                                                    hash[s][f] = version[f]
=============================================================================
