-------------------------- MODULE MacroCacheProofs --------------------------
(***************************************************************************)
(* Type correctness of MacroCache, that the key of a macro call is not     *)
(* older than the call, and that a call nobody disturbs is expanded with   *)
(* the library it should and builds nothing it has: for any number of      *)
(* processes, files and contents, and whatever fails.                      *)
(***************************************************************************)
EXTENDS MacroCache, TLAPS

KeyInv == TypeOK /\ KeySeen /\ KeyNotOlderThanCall

\* Hashing one more file leaves the files hashed before as they were.
LEMMA ReadFileInv ==
    ASSUME KeyInv, NEW s \in Servers, ReadFile(s)
    PROVE  KeyInv'
<1>1. TypeOK'
  <2>1. read[s] \in 0 .. NFiles /\ read[s] < NFiles /\ NFiles \in Nat
    BY MacroCacheAssumption DEF KeyInv, TypeOK, ReadFile
  <2>2. read[s] + 1 \in 1 .. NFiles /\ read[s] + 1 \in 0 .. NFiles
    BY <2>1
  <2>3. read' \in [Servers -> 0 .. NFiles]
    BY <2>2 DEF KeyInv, TypeOK, ReadFile
  <2>4. hash' \in [Servers -> Sources]
    <3>1. read'[s] = read[s] + 1 /\ source[read[s] + 1] \in Contents
      BY <2>2 DEF KeyInv, TypeOK, ReadFile, Sources
    <3>2. hash' = [hash EXCEPT ![s] = [hash[s] EXCEPT ![read[s] + 1] = source[read[s] + 1]]]
      BY <3>1 DEF KeyInv, TypeOK, ReadFile
    <3> QED
      BY <3>1, <3>2 DEF KeyInv, TypeOK, Sources
  <2> QED
    BY <2>3, <2>4 DEF KeyInv, TypeOK, ReadFile, cjpm, history, call
<1>2. KeySeen'
  <2> SUFFICES ASSUME NEW t \in Servers
               PROVE  /\ source' \in since'[t]
                      /\ phase'[t] = "hash" => \A f \in 1 .. read'[t] :
                             \E version \in since'[t] : hash'[t][f] = version[f]
    BY DEF KeySeen
  <2>1. CASE t # s
    BY <2>1 DEF KeyInv, TypeOK, KeySeen, ReadFile, cjpm, history, call
  <2>2. CASE t = s
    <3>1. source' \in since'[t]
      BY DEF KeyInv, KeySeen, ReadFile, cjpm, history, call
    <3>2. ASSUME NEW f \in 1 .. read'[s]
          PROVE  \E version \in since'[s] : hash'[s][f] = version[f]
      <4>1. read'[s] = read[s] + 1 /\ read[s] \in Nat /\ read'[s] \in 1 .. NFiles
        BY MacroCacheAssumption DEF KeyInv, TypeOK, ReadFile
      <4>2. CASE f = read'[s]
        <5>1. hash'[s][f] = source[f]
          BY <4>1, <4>2 DEF KeyInv, TypeOK, ReadFile, Sources
        <5> QED
          BY <5>1, <3>1, <2>2 DEF ReadFile, cjpm, history, call
      <4>3. CASE f # read'[s]
        <5>1. f \in 1 .. read[s]
          BY <4>1, <4>3
        <5>2. hash'[s][f] = hash[s][f]
          BY <4>1, <4>3 DEF KeyInv, TypeOK, ReadFile, Sources
        <5> QED
          BY <5>1, <5>2 DEF KeyInv, KeySeen, ReadFile, history, call
      <4> QED
        BY <4>2, <4>3
    <3> QED
      BY <2>2, <3>1, <3>2
  <2> QED
    BY <2>1, <2>2
<1>3. KeyNotOlderThanCall'
  BY DEF KeyInv, TypeOK, KeyNotOlderThanCall, ReadFile, history, call
<1> QED
  BY <1>1, <1>2, <1>3 DEF KeyInv

\* Every reading of the files has its place among the artifacts.
LEMMA KeyInKeys == ASSUME NEW reading \in Sources PROVE Key(reading) \in Keys
BY DEF Keys

\* Once every file is hashed the key is kept to the end of the call.
LEMMA HashedInv ==
    ASSUME KeyInv, NEW s \in Servers, UseArtifact(s) \/ BuildStarts(s)
    PROVE  KeyInv'
<1>1. TypeOK'
  <2>1. CASE UseArtifact(s)
    BY <2>1 DEF KeyInv, TypeOK, UseArtifact, GoTo, cjpm, history, call
  <2>2. CASE BuildStarts(s)
    BY <2>2 DEF KeyInv, TypeOK, BuildStarts, GoTo, cjpm, Libraries, history, call
  <2> QED
    BY <2>1, <2>2
<1>2. KeySeen'
  BY DEF KeyInv, TypeOK, KeySeen, UseArtifact, BuildStarts, GoTo, cjpm, history, call
<1>3. KeyNotOlderThanCall'
  <2> SUFFICES ASSUME NEW t \in Servers, NEW f \in 1 .. NFiles,
                      phase'[t] \in {"build", "find", "copy", "load"}
               PROVE  \E version \in since'[t] : hash'[t][f] = version[f]
    BY DEF KeyNotOlderThanCall
  <2>1. CASE t = s
    BY <2>1 DEF KeyInv, KeySeen, UseArtifact, BuildStarts, history, call
  <2>2. CASE t # s
    BY <2>2 DEF KeyInv, TypeOK, KeyNotOlderThanCall, UseArtifact, BuildStarts, GoTo, history, call
  <2> QED
    BY <2>1, <2>2
<1> QED
  BY <1>1, <1>2, <1>3 DEF KeyInv

\* A step that reads nothing and begins no build keeps the key, and so do the
\* phases it goes through.
LEMMA KeptKey ==
    ASSUME KeyInv, NEW s \in Servers, UNCHANGED <<source, read, hash, since>>,
           \A t \in Servers : \/ phase'[t] = phase[t]
                              \/ phase'[t] \in {"idle", "loaded"}
                              \/ phase[t] \in {"build", "find", "copy"} /\ phase'[t] # "hash"
    PROVE  KeySeen' /\ KeyNotOlderThanCall'
<1>1. KeySeen'
  BY DEF KeyInv, TypeOK, KeySeen
<1>2. KeyNotOlderThanCall'
  BY DEF KeyInv, TypeOK, KeyNotOlderThanCall
<1> QED
  BY <1>1, <1>2

LEMMA ServerInv ==
    ASSUME KeyInv, NEW s \in Servers,
           \/ HashFails(s) \/ BuildFails(s) \/ BuildEnds(s) \/ CopyStarts(s) \/ CopyEnds(s)
           \/ CopyFails(s) \/ Load(s) \/ NextCall(s) \/ Crash(s)
    PROVE  KeyInv'
<1>1. hash[s] \in Sources /\ Key(hash[s]) \in Keys
  BY KeyInKeys DEF KeyInv, TypeOK
<1>2. TypeOK'
  <2>1. CASE HashFails(s) \/ BuildFails(s)
    BY <2>1 DEF KeyInv, TypeOK, HashFails, BuildFails, FallsBack, GoTo, cjpm, call, Libraries
  <2>2. CASE BuildEnds(s)
    BY <2>2 DEF KeyInv, TypeOK, BuildEnds, FallsBack, GoTo, Disturb, call, Libraries
  <2>3. CASE CopyStarts(s)
    BY <2>3, <1>1 DEF KeyInv, TypeOK, CopyStarts, GoTo, Disturb, cjpm, call, Libraries
  <2>4. CASE CopyEnds(s)
    BY <2>4, <1>1 DEF KeyInv, TypeOK, CopyEnds, GoTo, Disturb, cjpm, call, Libraries
  <2>5. CASE CopyFails(s)
    BY <2>5 DEF KeyInv, TypeOK, CopyFails, GoTo, cjpm, call, Libraries
  <2>6. CASE Load(s)
    BY <2>6, <1>1 DEF KeyInv, TypeOK, Load, GoTo, cjpm, history, call, Libraries
  <2>7. CASE NextCall(s)
    BY <2>7 DEF KeyInv, TypeOK, NextCall, GoTo, cjpm, history, call
  <2>8. CASE Crash(s)
    BY <2>8 DEF KeyInv, TypeOK, Crash, GoTo, cjpm, call, Libraries
  <2> QED
    BY <2>1, <2>2, <2>3, <2>4, <2>5, <2>6, <2>7, <2>8
<1>3. UNCHANGED <<source, read, hash, since>>
  BY DEF HashFails, BuildFails, BuildEnds, CopyStarts, CopyEnds, CopyFails, Load, NextCall, Crash,
         cjpm, history, call
<1>4. \/ phase' = [phase EXCEPT ![s] = "idle"]
      \/ phase' = [phase EXCEPT ![s] = "loaded"]
      \/ phase[s] \in {"build", "find", "copy"} /\ \E next \in {"find", "copy", "load"} :
                                                    phase' = [phase EXCEPT ![s] = next]
  BY DEF HashFails, BuildFails, BuildEnds, CopyStarts, CopyEnds, CopyFails, Load, NextCall, Crash,
         FallsBack, GoTo
<1>5. \A t \in Servers : \/ phase'[t] = phase[t]
                         \/ phase'[t] \in {"idle", "loaded"}
                         \/ phase[t] \in {"build", "find", "copy"} /\ phase'[t] # "hash"
  BY <1>4 DEF KeyInv, TypeOK
<1>6. KeySeen' /\ KeyNotOlderThanCall'
  BY <1>3, <1>5, KeptKey
<1> QED
  BY <1>2, <1>6 DEF KeyInv

\* A call that begins has seen the sources there are, and hashed none.
LEMMA NewCallInv ==
    ASSUME KeyInv, NEW s \in Servers, NothingFound(s) \/ Begin(s)
    PROVE  KeyInv'
<1>1. TypeOK'
  <2>1. CASE NothingFound(s)
    BY <2>1 DEF KeyInv, TypeOK, NothingFound, NewCall, FallsBack, GoTo, cjpm, Libraries
  <2>2. CASE Begin(s)
    <3>1. 0 \in 0 .. NFiles
      BY MacroCacheAssumption
    <3>2. read' \in [Servers -> 0 .. NFiles]
      BY <2>2, <3>1 DEF KeyInv, TypeOK, Begin
    <3>3. /\ phase' \in [Servers -> {"idle", "hash", "build", "find", "copy", "load", "loaded"}]
          /\ since' \in [Servers -> SUBSET Sources] /\ quiet' \subseteq Servers
      BY <2>2 DEF KeyInv, TypeOK, Begin, NewCall, GoTo
    <3> QED
      BY <2>2, <3>2, <3>3 DEF KeyInv, TypeOK, Begin, NewCall, cjpm
  <2> QED
    BY <2>1, <2>2
<1>2. KeySeen'
  BY DEF KeyInv, TypeOK, KeySeen, NothingFound, Begin, NewCall, FallsBack, GoTo, cjpm
<1>3. KeyNotOlderThanCall'
  BY DEF KeyInv, TypeOK, KeyNotOlderThanCall, NothingFound, Begin, NewCall, FallsBack, GoTo
<1> QED
  BY <1>1, <1>2, <1>3 DEF KeyInv

\* What the user does adds to the sources seen and takes none away.
LEMMA UserInv ==
    ASSUME KeyInv, NEW newSource \in Sources, NEW newOutput \in Libraries,
           User(newSource, newOutput)
    PROVE  KeyInv'
<1>1. TypeOK'
  BY DEF KeyInv, TypeOK, User, compiling
<1>2. KeySeen' /\ KeyNotOlderThanCall'
  BY DEF KeyInv, TypeOK, KeySeen, KeyNotOlderThanCall, User, compiling
<1> QED
  BY <1>1, <1>2 DEF KeyInv

LEMMA NextInv == KeyInv /\ [Next]_vars => KeyInv'
<1> SUFFICES ASSUME KeyInv, [Next]_vars
             PROVE  KeyInv'
  OBVIOUS
<1>1. ASSUME NEW s \in Servers, Compile(s) \/ Crash(s)
      PROVE  KeyInv'
  BY <1>1, ReadFileInv, HashedInv, ServerInv, NewCallInv DEF Compile
<1>2. CASE Edit
  <2>1. PICK f \in 1 .. NFiles : \E c \in Contents \ {source[f]} :
            User([source EXCEPT ![f] = c], output)
    BY <1>2 DEF Edit
  <2>2. PICK c \in Contents : User([source EXCEPT ![f] = c], output)
    BY <2>1
  <2>3. [source EXCEPT ![f] = c] \in Sources /\ output \in Libraries
    BY DEF KeyInv, TypeOK, Sources
  <2> QED
    BY <2>2, <2>3, UserInv
<1>3. CASE UserBuild
  <2>1. source \in Sources /\ source \in Libraries
    BY DEF KeyInv, TypeOK, Libraries
  <2> QED
    BY <1>3, <2>1, UserInv DEF UserBuild
<1>4. CASE UserClean
  <2>1. source \in Sources /\ NoLib \in Libraries
    BY DEF KeyInv, TypeOK, Libraries
  <2> QED
    BY <1>4, <2>1, UserInv DEF UserClean
<1>5. CASE UNCHANGED vars
  BY <1>5 DEF KeyInv, TypeOK, KeySeen, KeyNotOlderThanCall, vars, cjpm, compiling, history, call
<1> QED
  BY <1>1, <1>2, <1>3, <1>4, <1>5 DEF Next

LEMMA KeyInvAlways == Spec => []KeyInv
<1>1. Init => KeyInv
  <2>1. Init => TypeOK
    <3> SUFFICES ASSUME Init PROVE TypeOK
      OBVIOUS
    <3>1. 0 \in 0 .. NFiles /\ source \in Sources /\ output \in Libraries /\ NoLib \in Libraries
      BY MacroCacheAssumption DEF Init, Libraries
    <3>2. artifact \in [Keys -> Libraries \cup {Torn}]
      BY <3>1 DEF Init
    <3> QED
      BY <3>1, <3>2 DEF Init, TypeOK
  <2>2. Init => KeySeen /\ KeyNotOlderThanCall
    BY DEF Init, KeySeen, KeyNotOlderThanCall
  <2> QED
    BY <2>1, <2>2 DEF KeyInv
<1> QED
  BY <1>1, NextInv, PTL DEF Spec

(***************************************************************************)
(* Every variable keeps its type; a file under .macro-cache in particular  *)
(* is a library of the package, torn, or not there.                        *)
(***************************************************************************)
THEOREM TypeCorrect == Spec => []TypeOK
BY KeyInvAlways, PTL DEF KeyInv

(***************************************************************************)
(* The key a macro call looks up is made of contents the files have had    *)
(* since the call began, whoever edits and builds meanwhile: no edit made  *)
(* before a call is missed by it (hash_package_sources is read anew by     *)
(* every compile_macro_package).                                           *)
(***************************************************************************)
THEOREM KeyIsFresh == Spec => []KeyNotOlderThanCall
BY KeyInvAlways, PTL DEF KeyInv

-----------------------------------------------------------------------------
(***************************************************************************)
(* A server that nobody has disturbed since its call began is alone at     *)
(* work: where it is in the call tells what it has read of the sources,    *)
(* built and stored.                                                       *)
(***************************************************************************)
Alone(s) == \A t \in Servers \ {s} : phase[t] = "idle"

Hashed(s) ==
    /\ phase[s] = "hash" =>
          artifact = began /\ \A f \in 1 .. read[s] : hash[s][f] = source[f]
    /\ phase[s] \in {"build", "find", "copy", "load"} => hash[s] = source

\* So far nothing has failed, and what there was to find is found.
Sound(s) ==
    /\ phase[s] \in {"hash", "build", "find", "copy"} => ~failed /\ found # NoLib
    /\ phase[s] \in {"hash", "build"} => ~unbuilt /\ output = found

\* The library a call that builds is to store.
Made == IF unbuilt THEN found ELSE source

Built(s) ==
    /\ phase[s] \in {"build", "find", "copy"} => began[Key(source)] = NoLib
    /\ phase[s] \in {"build", "find"} => artifact[Key(source)] = NoLib
    /\ phase[s] = "build" => building[s] = source
    /\ phase[s] = "find" => output = Made
    /\ phase[s] = "copy" => building[s] = Made /\ artifact[Key(source)] = Torn

\* What the call is to be expanded with.
Due == IF failed \/ found = NoLib \/ began[Key(source)] = Torn THEN NoLib
       ELSE IF began[Key(source)] # NoLib THEN began[Key(source)]
       ELSE Made

Stored(s) ==
    /\ phase[s] = "load" =>
          Due = IF artifact[Key(source)] = Torn THEN NoLib ELSE artifact[Key(source)]
    /\ phase[s] = "loaded" => loaded[s] = Due

Fine(s) == Alone(s) /\ Hashed(s) /\ Sound(s) /\ Built(s) /\ Stored(s)

\* Two readings of the sources that agree on every file are the same.
LEMMA SameSources ==
    ASSUME NEW h \in Sources, NEW g \in Sources, \A f \in 1 .. NFiles : h[f] = g[f]
    PROVE  h = g
<1>1. /\ h = [f \in 1 .. NFiles |-> h[f]]
      /\ g = [f \in 1 .. NFiles |-> g[f]]
  BY DEF Sources
<1>2. [f \in 1 .. NFiles |-> h[f]] = [f \in 1 .. NFiles |-> g[f]]
  OBVIOUS
<1> QED
  BY <1>1, <1>2

QuietInv == \A s \in quiet : Fine(s)

\* A server that begins while nobody is at work is quiet from then on.
LEMMA BeginQuiet ==
    ASSUME TypeOK, NEW s \in Servers, NothingFound(s) \/ Begin(s), s \in quiet'
    PROVE  Fine(s)'
<1>1. /\ \A t \in Servers \ {s} : phase[t] = "idle" /\ phase'[t] = "idle"
      /\ began' = artifact /\ artifact' = artifact /\ found' = output /\ output' = output
      /\ failed' = FALSE /\ unbuilt' = FALSE
    BY DEF TypeOK, NothingFound, Begin, NewCall, FallsBack, GoTo, cjpm
<1>2. CASE NothingFound(s)
    <2>1. phase'[s] = "loaded" /\ loaded'[s] = NoLib /\ found' = NoLib
        BY <1>1, <1>2 DEF TypeOK, NothingFound, FallsBack, GoTo
    <2> QED BY <1>1, <2>1 DEF Fine, Alone, Hashed, Sound, Built, Stored, Due
<1>3. CASE Begin(s)
    <2>1. phase'[s] = "hash" /\ read'[s] = 0 /\ found' # NoLib
        BY <1>1, <1>3 DEF TypeOK, Begin, GoTo
    <2>2. 1 .. 0 = {}
        OBVIOUS
    <2> QED BY <1>1, <2>1, <2>2 DEF Fine, Alone, Hashed, Sound, Built, Stored
<1> QED BY <1>2, <1>3

\* A server that is not at the beginning of a call takes a step of its own.
LEMMA OwnStep ==
    ASSUME TypeOK, NEW s \in quiet, Fine(s), Compile(s), ~NothingFound(s), ~Begin(s)
    PROVE  Fine(s)'
<1>0. /\ s \in Servers /\ source \in Sources /\ source # NoLib /\ source # Torn
      /\ hash[s] \in Sources /\ read[s] \in 0 .. NFiles /\ NFiles \in Nat
      /\ Key(source) \in Keys /\ output \in Libraries /\ found \in Libraries
      /\ found # Torn /\ building[s] \in Libraries
    BY MacroCacheAssumption, KeyInKeys DEF TypeOK, Sources, Libraries
<1>a. Alone(s) /\ Hashed(s) /\ Sound(s) /\ Built(s) /\ Stored(s)
    BY DEF Fine
<1>b. UNCHANGED <<source, began, found>>
    BY DEF Compile, ReadFile, HashFails, UseArtifact, BuildFails, BuildStarts, BuildEnds,
           CopyStarts, CopyEnds, CopyFails, Load, NextCall, cjpm, history, call
<1>1. Alone(s)'
    BY <1>0, <1>a DEF TypeOK, Alone, Compile, ReadFile, HashFails, UseArtifact, BuildFails,
           BuildStarts, BuildEnds, CopyStarts, CopyEnds, CopyFails, Load, NextCall, FallsBack, GoTo
<1>2. ASSUME phase'[s] = "idle"
      PROVE  Fine(s)'
    BY <1>1, <1>2 DEF Fine, Hashed, Sound, Built, Stored
<1>3. ASSUME phase'[s] = "loaded", loaded'[s] = Due'
      PROVE  Fine(s)'
    BY <1>1, <1>3 DEF Fine, Hashed, Sound, Built, Stored
<1>4. CASE ReadFile(s)
    <2>1. /\ phase[s] = "hash" /\ read[s] + 1 \in 1 .. NFiles
          /\ read' = [read EXCEPT ![s] = read[s] + 1]
          /\ hash' = [hash EXCEPT ![s][read[s] + 1] = source[read[s] + 1]]
          /\ UNCHANGED <<output, artifact, phase, failed, unbuilt>>
        BY <1>0, <1>4 DEF TypeOK, ReadFile, cjpm, history
    <2>2. read'[s] = read[s] + 1
        BY <1>0, <2>1 DEF TypeOK
    <2>3. ASSUME NEW f \in 1 .. read[s] + 1
          PROVE  hash'[s][f] = source[f]
        <3>1. hash'[s] = [hash[s] EXCEPT ![read[s] + 1] = source[read[s] + 1]]
            BY <1>0, <2>1 DEF TypeOK
        <3>2. f \in 1 .. NFiles /\ (f \in 1 .. read[s] \/ f = read[s] + 1)
            BY <1>0, <2>1
        <3>3. f \in 1 .. read[s] => hash[s][f] = source[f]
            BY <1>a, <2>1 DEF Hashed
        <3> QED BY <1>0, <2>1, <3>1, <3>2, <3>3 DEF Sources
    <2>4. Hashed(s)'
        BY <1>a, <1>b, <2>1, <2>2, <2>3 DEF Hashed
    <2>5. Sound(s)' /\ Built(s)' /\ Stored(s)'
        BY <1>a, <1>b, <2>1 DEF Sound, Built, Stored
    <2> QED BY <1>1, <2>4, <2>5 DEF Fine
<1>5. ASSUME phase[s] = "hash", read[s] = NFiles
      PROVE  hash[s] = source
    BY <1>0, <1>a, <1>5, SameSources DEF Hashed
<1>6. CASE HashFails(s) \/ BuildFails(s)
    <2>1. phase'[s] = "loaded" /\ loaded'[s] = NoLib /\ failed'
        BY <1>0, <1>6 DEF TypeOK, HashFails, BuildFails, FallsBack, GoTo
    <2> QED BY <1>3, <2>1 DEF Due
<1>7. CASE UseArtifact(s)
    <2>1. /\ phase[s] = "hash" /\ hash[s] = source /\ artifact[Key(source)] # NoLib
          /\ phase'[s] = "load"
          /\ UNCHANGED <<output, artifact, hash, failed, unbuilt>>
        BY <1>0, <1>5, <1>7 DEF TypeOK, UseArtifact, GoTo, cjpm, history
    <2>2. artifact = began /\ ~failed /\ found # NoLib
        BY <1>a, <2>1 DEF Hashed, Sound
    <2> QED BY <1>1, <1>b, <2>1, <2>2 DEF Fine, Hashed, Sound, Built, Stored, Due
<1>8. CASE BuildStarts(s)
    <2>1. /\ phase[s] = "hash" /\ hash[s] = source /\ artifact[Key(source)] = NoLib
          /\ phase'[s] = "build" /\ building'[s] = source
          /\ UNCHANGED <<output, artifact, hash, failed, unbuilt>>
        BY <1>0, <1>5, <1>8 DEF TypeOK, BuildStarts, GoTo, cjpm, history
    <2>2. artifact = began /\ ~failed /\ found # NoLib /\ ~unbuilt /\ output = found
        BY <1>a, <2>1 DEF Hashed, Sound
    <2> QED BY <1>1, <1>b, <2>1, <2>2 DEF Fine, Hashed, Sound, Built, Stored
<1>9. CASE BuildEnds(s)
    <2>1. /\ phase[s] = "build" /\ building[s] = source /\ hash[s] = source
          /\ ~failed /\ found # NoLib /\ ~unbuilt /\ output = found
          /\ began[Key(source)] = NoLib /\ artifact[Key(source)] = NoLib
        BY <1>a, <1>9 DEF BuildEnds, Hashed, Sound, Built
    <2>2. output' = Made' /\ Made' # NoLib
        BY <1>0, <1>b, <1>9, <2>1 DEF BuildEnds, Made
    <2>3. phase'[s] = "find" /\ UNCHANGED <<artifact, hash, failed>>
        BY <1>0, <1>9, <2>2 DEF TypeOK, BuildEnds, GoTo
    <2> QED BY <1>1, <1>b, <2>1, <2>2, <2>3 DEF Fine, Hashed, Sound, Built, Stored
<1>10. CASE CopyStarts(s)
    <2>1. /\ phase[s] = "find" /\ hash[s] = source /\ ~failed /\ found # NoLib
          /\ began[Key(source)] = NoLib /\ output = Made
        BY <1>a, <1>10 DEF CopyStarts, Hashed, Sound, Built
    <2>2. /\ phase'[s] = "copy" /\ building'[s] = output /\ artifact'[Key(source)] = Torn
          /\ UNCHANGED <<hash, failed, unbuilt>>
        BY <1>0, <1>10, <2>1 DEF TypeOK, CopyStarts, GoTo
    <2>3. Made' = Made
        BY <1>b, <2>2 DEF Made
    <2> QED BY <1>1, <1>b, <2>1, <2>2, <2>3 DEF Fine, Hashed, Sound, Built, Stored
<1>11. CASE CopyEnds(s)
    <2>1. /\ phase[s] = "copy" /\ hash[s] = source /\ ~failed /\ found # NoLib
          /\ began[Key(source)] = NoLib /\ building[s] = Made
        BY <1>a, <1>11 DEF CopyEnds, Hashed, Sound, Built
    <2>2. /\ phase'[s] = "load" /\ artifact'[Key(source)] = building[s]
          /\ UNCHANGED <<hash, failed, unbuilt>>
        BY <1>0, <1>11, <2>1 DEF TypeOK, CopyEnds, GoTo
    <2>3. Made' = Made /\ Made # Torn
        BY <1>0, <1>b, <2>2 DEF Made
    <2>4. NoLib # Torn
        BY MacroCacheAssumption
    <2>5. Due' = Made
        BY <1>b, <2>1, <2>2, <2>3, <2>4 DEF Due
    <2> QED BY <1>1, <1>b, <2>1, <2>2, <2>3, <2>5 DEF Fine, Hashed, Sound, Built, Stored
<1>12. CASE CopyFails(s)
    <2>1. hash[s] = source /\ artifact[Key(source)] \in {NoLib, Torn}
        BY <1>a, <1>12 DEF CopyFails, Hashed, Built
    <2>2. phase'[s] = "load" /\ failed' /\ UNCHANGED <<artifact, hash>>
        BY <1>0, <1>12 DEF TypeOK, CopyFails, GoTo
    <2> QED BY <1>1, <1>b, <2>1, <2>2 DEF Fine, Hashed, Sound, Built, Stored, Due
<1>13. CASE Load(s)
    <2>1. phase[s] = "load" /\ hash[s] = source
        BY <1>a, <1>13 DEF Load, Hashed
    <2>2. /\ phase'[s] = "loaded" /\ UNCHANGED <<failed, unbuilt>>
          /\ loaded'[s] = IF artifact[Key(source)] = Torn THEN NoLib ELSE artifact[Key(source)]
        BY <1>0, <1>13, <2>1 DEF TypeOK, Load, GoTo, history
    <2>3. Due' = Due
        BY <1>b, <2>2 DEF Due, Made
    <2> QED BY <1>3, <1>a, <2>1, <2>2, <2>3 DEF Stored
<1>14. CASE NextCall(s)
    BY <1>0, <1>2, <1>14 DEF TypeOK, NextCall, GoTo
<1> QED BY <1>4, <1>6, <1>7, <1>8, <1>9, <1>10, <1>11, <1>12, <1>13, <1>14 DEF Compile

\* While a server is quiet no other one is anywhere but before a call.
LEMMA OthersStep ==
    ASSUME TypeOK, NEW s \in quiet, Alone(s), NEW t \in Servers \ {s}, Compile(t)
    PROVE  s \notin quiet'
<1>1. phase[t] = "idle"
    BY DEF Alone
<1>2. NothingFound(t) \/ Begin(t)
    BY <1>1 DEF Compile, ReadFile, HashFails, UseArtifact, BuildFails, BuildStarts, BuildEnds,
                CopyStarts, CopyEnds, CopyFails, Load, NextCall
<1> QED BY <1>2 DEF NothingFound, Begin, NewCall

LEMMA StepQuiet == TypeOK /\ QuietInv /\ [Next]_vars => QuietInv'
<1> SUFFICES ASSUME TypeOK, QuietInv, [Next]_vars, NEW s \in quiet'
             PROVE  Fine(s)'
    BY DEF QuietInv
<1>1. ASSUME NEW t \in Servers, Compile(t)
      PROVE  Fine(s)'
    <2>1. CASE NothingFound(t) \/ Begin(t)
        <3>1. s = t
            BY <2>1 DEF NothingFound, Begin, NewCall
        <3> QED BY <2>1, <3>1, BeginQuiet
    <2>2. CASE ~NothingFound(t) /\ ~Begin(t)
        <3>1. s \in quiet
            BY <1>1, <2>2 DEF Compile, ReadFile, HashFails, UseArtifact, BuildFails, BuildStarts,
                              BuildEnds, CopyStarts, CopyEnds, CopyFails, Load, NextCall, Disturb,
                              history
        <3>2. Fine(s)
            BY <3>1 DEF QuietInv
        <3>3. s = t
            BY <1>1, <3>1, <3>2, OthersStep DEF Fine
        <3> QED BY <1>1, <2>2, <3>1, <3>2, <3>3, OwnStep
    <2> QED BY <2>1, <2>2
<1>2. CASE \E t \in Servers : Crash(t)
    BY <1>2 DEF Crash
<1>3. CASE Edit \/ UserBuild \/ UserClean
    BY <1>3 DEF Edit, UserBuild, UserClean, User
<1>4. CASE UNCHANGED vars
    <2>1. UNCHANGED <<source, output, artifact, phase, read, hash, building, loaded, began,
                      found, failed, unbuilt, quiet>>
        BY <1>4 DEF vars, cjpm, compiling, history, call
    <2>2. Alone(s) /\ Hashed(s) /\ Sound(s) /\ Built(s) /\ Stored(s)
        BY <2>1 DEF QuietInv, Fine
    <2>3. Made' = Made /\ Due' = Due
        BY <2>1 DEF Made, Due
    <2> QED BY <2>1, <2>2, <2>3 DEF Fine, Alone, Hashed, Sound, Built, Stored
<1> QED BY <1>1, <1>2, <1>3, <1>4 DEF Next

LEMMA QuietCorrect == Spec => []QuietInv
<1>1. Init => QuietInv
    BY DEF Init, QuietInv
<1> QED BY <1>1, StepQuiet, TypeCorrect, PTL DEF Spec

(***************************************************************************)
(* A macro call that nobody disturbs is expanded with the library its key  *)
(* is in the cache for or, when it is not, with the one of exactly the     *)
(* sources there are, the last build's if cjpm makes none; and with none   *)
(* when a step of it fails or the artifact is torn (compile_macro_package):*)
(* for any number of processes sharing the artifacts, files and contents,  *)
(* and whatever the calls before it left in the cache.                     *)
(***************************************************************************)
THEOREM QuietCallsAreExact == Spec => []QuietCallExact
<1>1. QuietInv => QuietCallExact
    BY DEF QuietInv, Fine, Stored, Due, Made, QuietCallExact
<1> QED BY <1>1, QuietCorrect, PTL

(***************************************************************************)
(* Sources that were in the cache when an undisturbed call began are not   *)
(* built again, and the server's steps leave their artifact as it is.      *)
(***************************************************************************)
THEOREM CacheIsKept == Spec => CachedIsKept
<1> DEFINE Kept == \A s \in quiet :
                      began[Key(source)] # NoLib =>
                          /\ ~BuildStarts(s)
                          /\ Compile(s) => artifact'[Key(source)] = artifact[Key(source)]
<1>1. TypeOK /\ QuietInv /\ [Next]_vars => [Kept]_vars
    <2> SUFFICES ASSUME TypeOK, QuietInv, NEW s \in quiet, began[Key(source)] # NoLib
                 PROVE  /\ ~BuildStarts(s)
                        /\ Compile(s) => artifact'[Key(source)] = artifact[Key(source)]
        OBVIOUS
    <2>1. /\ s \in Servers /\ source \in Sources /\ hash[s] \in Sources
          /\ Hashed(s) /\ Built(s)
        BY DEF TypeOK, QuietInv, Fine
    <2>2. ~BuildStarts(s)
        <3> SUFFICES ASSUME BuildStarts(s)
                     PROVE  FALSE
            OBVIOUS
        <3>1. phase[s] = "hash" /\ read[s] = NFiles /\ artifact[Key(hash[s])] = NoLib
            BY DEF BuildStarts
        <3>2. artifact = began /\ \A f \in 1 .. NFiles : hash[s][f] = source[f]
            BY <2>1, <3>1 DEF Hashed
        <3>3. hash[s] = source
            BY <2>1, <3>2, SameSources
        <3> QED BY <3>1, <3>2, <3>3
    <2>3. phase[s] \notin {"build", "find", "copy"}
        BY <2>1 DEF Built
    <2>4. Compile(s) => artifact' = artifact
        BY <2>3 DEF Compile, NothingFound, Begin, NewCall, ReadFile, HashFails, UseArtifact,
                    BuildFails, BuildStarts, BuildEnds, CopyStarts, CopyEnds, CopyFails, Load,
                    NextCall
    <2> QED BY <2>2, <2>4
<1> QED BY <1>1, QuietCorrect, TypeCorrect, PTL DEF Spec, CachedIsKept
=============================================================================
