------------------------ MODULE BundleVerifierProofs ------------------------
(***************************************************************************)
(* Theorems about BundleVerifier for every set of names, every limit and   *)
(* files of any length.  First, against any number of changes by another   *)
(* program: what an accepted bundle was read from, and that nothing is     *)
(* kept beyond its limit.  Then, the verdict on a directory that nobody    *)
(* changes while it is read, and on a bundle nobody changed since it was   *)
(* staged.                                                                 *)
(***************************************************************************)
EXTENDS BundleVerifier, SequenceTheorems, FiniteSetTheorems, TLAPS

-----------------------------------------------------------------------------
(* Types                                                                   *)

Contents == Seq(Nat)

Digests == [sha256 : Contents]

Lines == [fault : LineFaults \cup {"none", "blank"}, name : Names, digest : Digests]

Handles == [name : Names, live : BOOLEAN, content : Contents, got : Contents]

Labels == {"start", "gather", "hashNext", "checkPath", "open", "read", "openSums", "line",
           "checkMeasurements", "openMeasurements", "measure", "done"}

\* The types of the variables.
BundleTypes ==
    /\ disk \in [Names -> [kind : {"absent", "file", "link", "elsewhere"}, content : Contents]]
    /\ sums \in [exists : BOOLEAN, lines : Seq(Lines)]
    /\ pc \in Labels /\ role \in {"finalize", "verify"}
    /\ listing \subseteq Names \cup {"SHA256SUMS"} /\ payloads \subseteq Names
    /\ visited \in Nat
    /\ lines \in Seq(Lines)
    /\ handle \in Handles
    /\ digests \in [Names -> Digests]
    /\ retained \in [Retained -> Contents]
    /\ records \in Contents

\* The names with a role of their own.
LEMMA NamesFacts ==
    /\ Manifest \in Names /\ Measurements \in Names
    /\ Retained \subseteq Names /\ Measurements \notin Retained
BY BundleAssumption

\* Digests, directory entries, lines and handles are built within their types.
LEMMA ConstructorTypes ==
    /\ \A c \in Contents : Sha256(c) \in Digests
    /\ Unread \in Contents /\ <<>> \in Contents
    /\ \A kind \in {"absent", "file", "link", "elsewhere"}, c \in Contents :
          Entry(kind, c) \in [kind : {"absent", "file", "link", "elsewhere"}, content : Contents]
    /\ \A fault \in LineFaults \cup {"none", "blank"}, n \in Names, c \in Contents :
          Line(fault, n, Sha256(c)) \in Lines
    /\ NoHandle \in Handles
    /\ \A n \in Names : [NoHandle EXCEPT !.name = n] \in Handles
<1>1. Unread \in Contents /\ <<>> \in Contents
  BY DEF Unread, Contents
<1>2. Manifest \in Names
  BY NamesFacts
<1> QED
  BY <1>1, <1>2 DEF Sha256, Digests, Entry, Line, Lines, NoHandle, Handles

\* A path's content as read through the handle.
LEMMA VisibleType ==
    ASSUME BundleTypes
    PROVE  Visible \in Contents
BY DEF BundleTypes, Handles, Visible

\* A staged or published bundle to start from.
LEMMA TypesInit == Init => BundleTypes
<1> SUFFICES ASSUME Init PROVE BundleTypes
  OBVIOUS
<1>1. \A n \in Names, oversized \in SUBSET Growable : StagedContent(n, oversized) \in Contents
  <2> SUFFICES ASSUME NEW n \in Names, NEW oversized \in SUBSET Growable
               PROVE  StagedContent(n, oversized) \in Contents
    OBVIOUS
  <2>1. n \in oversized => Limit[n] \in Nat
    BY BundleAssumption
  <2> DEFINE m == IF n = Measurements THEN MeasurementLines
                  ELSE IF n \in oversized THEN Limit[n] + 1 ELSE 1
  <2>2. m \in Nat
    BY <2>1, BundleAssumption
  <2> HIDE DEF m
  <2>3. [k \in 1..m |-> 1] \in Seq(Nat)
    BY <2>2
  <2> QED
    BY <2>3 DEF StagedContent, Contents, m
<1>2. disk \in [Names -> [kind : {"absent", "file", "link", "elsewhere"}, content : Contents]]
  BY <1>1, ConstructorTypes DEF Init, Absent
<1>3. /\ digests \in [Names -> Digests] /\ retained \in [Retained -> Contents]
      /\ handle \in Handles /\ records \in Contents
  BY ConstructorTypes DEF Init
<1>4. sums \in [exists : BOOLEAN, lines : Seq(Lines)] /\ lines \in Seq(Lines)
  BY DEF Init
<1> QED
  BY <1>2, <1>3, <1>4 DEF Init, BundleTypes, Labels

\* Refusing keeps everything but the verdict.
LEMMA RefuseType ==
    ASSUME BundleTypes, NEW error, Refuse(error)
    PROVE  BundleTypes'
BY DEF Refuse, BundleTypes, Labels, world, gathered, results

\* The walk over the directory.
LEMMA GatherType ==
    ASSUME BundleTypes, Start \/ Gathered \/ (\E e \in Names \cup {"SHA256SUMS"} : GatherEntry(e))
    PROVE  BundleTypes'
<1> USE DEF Goto, world, gathered, results
<1>1. CASE Start
  <2>1. CASE Refuse("AlreadyFinalized")
    BY <2>1, RefuseType
  <2>2. CASE listing' = Present \cup (IF sums.exists THEN {"SHA256SUMS"} ELSE {})
             /\ visited' = 0 /\ payloads' = {} /\ lines' = <<>> /\ Goto("gather")
             /\ UNCHANGED <<role, handle, results>>
    BY <2>2 DEF BundleTypes, Present, Labels
  <2> QED
    BY <1>1, <2>1, <2>2 DEF Start
<1>2. CASE Gathered
  BY <1>2 DEF Gathered, BundleTypes, Labels
<1>3. ASSUME NEW e \in Names \cup {"SHA256SUMS"}, GatherEntry(e) PROVE BundleTypes'
  <2>1. CASE \E error : Refuse(error)
    BY <2>1, RefuseType
  <2>2. CASE ~\E error : Refuse(error)
    BY <1>3, <2>2 DEF GatherEntry, BundleTypes, Labels
  <2> QED
    BY <2>1, <2>2
<1> QED
  BY <1>1, <1>2, <1>3

\* Opening and reading a file.
LEMMA HashType ==
    ASSUME BundleTypes, CheckPath \/ OpenFile \/ ReadChunk
    PROVE  BundleTypes'
<1> USE DEF Goto, world, gathered, results
<1>1. CASE \E error : Refuse(error)
  BY <1>1, RefuseType
<1>2. CASE CheckPath /\ ~\E error : Refuse(error)
  BY <1>2 DEF CheckPath, BundleTypes, Labels
<1>3. CASE OpenFile /\ ~\E error : Refuse(error)
  <2>1. handle' = [handle EXCEPT !.live = TRUE, !.got = <<>>]
        /\ pc' = "read" /\ UNCHANGED <<world, verdict, gathered, lines, results>>
    BY <1>3 DEF OpenFile
  <2>2. handle' \in Handles
    BY <2>1, ConstructorTypes DEF BundleTypes, Handles
  <2> QED
    BY <2>1, <2>2 DEF BundleTypes, Labels
<1>4. CASE ReadChunk /\ ~\E error : Refuse(error)
  <2>1. /\ handle' = [handle EXCEPT !.got = Append(@, Visible[Len(@) + 1])]
        /\ Len(handle.got) < Len(Visible)
        /\ pc' = "read" /\ UNCHANGED <<world, verdict, gathered, lines, results>>
    BY <1>4 DEF ReadChunk
  <2>2. handle.got \in Seq(Nat) /\ Visible \in Seq(Nat) /\ handle \in Handles
    BY VisibleType DEF BundleTypes, Handles, Contents
  <2>3. Visible[Len(handle.got) + 1] \in Nat
    BY <2>1, <2>2
  <2>4. Append(handle.got, Visible[Len(handle.got) + 1]) \in Seq(Nat)
    BY <2>2, <2>3
  <2>5. handle' \in Handles
    BY <2>1, <2>2, <2>4 DEF Handles, Contents
  <2> QED
    BY <2>1, <2>5 DEF BundleTypes, Labels
<1> QED
  BY <1>1, <1>2, <1>3, <1>4

\* Writing the list of checksums.
LEMMA FinalizeType ==
    ASSUME BundleTypes, HashNext \/ WriteLine \/ RenameSums
    PROVE  BundleTypes'
<1> USE DEF Goto, world, gathered, results
<1>1. CASE HashNext
  <2>1. \A k \in Unlisted : NameOrder[k] \in Names
    BY DEF Unlisted, Names
  <2>2. handle' \in Handles
    BY <1>1, <2>1, ConstructorTypes DEF HashNext
  <2> QED
    BY <1>1, <2>2 DEF HashNext, BundleTypes, Labels
<1>2. CASE WriteLine
  <2>1. Line("none", handle.name, Sha256(handle.got)) \in Lines
    BY ConstructorTypes DEF BundleTypes, Handles
  <2>2. lines' \in Seq(Lines) /\ handle' \in Handles
    BY <1>2, <2>1, ConstructorTypes DEF WriteLine, BundleTypes
  <2> QED
    BY <1>2, <2>2 DEF WriteLine, BundleTypes, Labels
<1>3. CASE RenameSums
  BY <1>3 DEF RenameSums, BundleTypes, Labels
<1> QED
  BY <1>1, <1>2, <1>3

\* Reading the list of checksums back.
LEMMA ListType ==
    ASSUME BundleTypes, OpenSums \/ ReadLine \/ FinishEntry \/ EndOfSums
    PROVE  BundleTypes'
<1> USE DEF Goto, world, gathered, results
<1>1. CASE \E error : Refuse(error)
  BY <1>1, RefuseType
<1>2. CASE OpenSums /\ ~\E error : Refuse(error)
  BY <1>2 DEF OpenSums, BundleTypes, Labels
<1>3. CASE ReadLine /\ ~\E error : Refuse(error)
  <2> DEFINE line == sums.lines[Len(lines) + 1]
  <2>1. lines \in Seq(Lines) /\ sums.lines \in Seq(Lines) /\ Len(lines) + 1 <= Len(sums.lines)
    BY <1>3 DEF ReadLine, BundleTypes
  <2>2. line \in Lines
    BY <2>1
  <2>3. /\ lines' = Append(lines, line)
        /\ handle' \in {handle, [NoHandle EXCEPT !.name = line.name]}
        /\ pc' \in {"line", "checkPath"} /\ UNCHANGED <<world, verdict, gathered, results>>
    BY <1>3 DEF ReadLine
  <2>4. line.name \in Names
    BY <2>2 DEF Lines
  <2> HIDE DEF line
  <2>5. lines' \in Seq(Lines) /\ handle' \in Handles
    BY <2>1, <2>2, <2>3, <2>4, ConstructorTypes DEF BundleTypes
  <2> QED
    BY <2>3, <2>5 DEF BundleTypes, Labels
<1>4. CASE FinishEntry /\ ~\E error : Refuse(error)
  <2>1. handle.name \in Names /\ handle.got \in Contents
    BY DEF BundleTypes, Handles
  <2>2. Sha256(handle.got) \in Digests
    BY <2>1, ConstructorTypes
  <2>3. /\ digests' = [digests EXCEPT ![handle.name] = Sha256(handle.got)]
        /\ retained' = IF handle.name \in Retained
                       THEN [retained EXCEPT ![handle.name] = handle.got] ELSE retained
        /\ handle' = NoHandle /\ pc' = "line"
        /\ UNCHANGED <<world, verdict, gathered, lines, records>>
    BY <1>4 DEF FinishEntry
  <2>4. digests' \in [Names -> Digests] /\ retained' \in [Retained -> Contents]
        /\ handle' \in Handles
    BY <2>1, <2>2, <2>3, ConstructorTypes DEF BundleTypes
  <2> QED
    BY <2>3, <2>4 DEF BundleTypes, Labels
<1>5. CASE EndOfSums /\ ~\E error : Refuse(error)
  <2>1. handle' \in Handles
    BY <1>5, NamesFacts, ConstructorTypes DEF EndOfSums
  <2> QED
    BY <1>5, <2>1 DEF EndOfSums, BundleTypes, Labels
<1> QED
  BY <1>1, <1>2, <1>3, <1>4, <1>5

\* The second look at the measurements, and the verdict.
LEMMA MeasureType ==
    ASSUME BundleTypes, CheckMeasurements \/ OpenMeasurements \/ MeasureLine \/ Conclude
    PROVE  BundleTypes'
<1> USE DEF Goto, world, gathered, results
<1>1. CASE \E error : Refuse(error)
  BY <1>1, RefuseType
<1>2. CASE CheckMeasurements /\ ~\E error : Refuse(error)
  BY <1>2 DEF CheckMeasurements, BundleTypes, Labels
<1>3. CASE OpenMeasurements /\ ~\E error : Refuse(error)
  <2>1. handle' = [handle EXCEPT !.live = TRUE]
    BY <1>3 DEF OpenMeasurements
  <2>2. handle' \in Handles
    BY <2>1 DEF BundleTypes, Handles
  <2> QED
    BY <1>3, <2>2 DEF OpenMeasurements, BundleTypes, Labels
<1>4. CASE MeasureLine /\ ~\E error : Refuse(error)
  <2>1. Visible \in Seq(Nat) /\ records \in Seq(Nat)
    BY VisibleType DEF BundleTypes, Contents
  <2>2. records' = Append(records, Visible[Len(records) + 1]) /\ Len(records) + 1 <= Len(Visible)
        /\ pc' = "measure" /\ UNCHANGED <<world, verdict, gathered, lines, handle, digests, retained>>
    BY <1>4 DEF MeasureLine
  <2>3. records' \in Contents
    BY <2>1, <2>2 DEF Contents
  <2> QED
    BY <2>2, <2>3 DEF BundleTypes, Labels
<1>5. CASE Conclude /\ ~\E error : Refuse(error)
  BY <1>5 DEF Conclude, BundleTypes, Labels
<1> QED
  BY <1>1, <1>2, <1>3, <1>4, <1>5

\* Another program at work in the directory.
LEMMA OtherProgramType ==
    ASSUME BundleTypes, OtherProgram
    PROVE  BundleTypes'
<1> USE DEF Changed, results
<1> DEFINE Paths == [kind : {"absent", "file", "link", "elsewhere"}, content : Contents]
<1>1. ASSUME NEW n \in Names, ChangeInPlace(n) PROVE BundleTypes'
  <2> DEFINE old == disk[n].content
  <2>1. old \in Seq(Nat)
    BY DEF BundleTypes, Contents
  <2>2. PICK new : /\ new \in {Append(old, 1)}
                              \cup (IF old = <<>> THEN {}
                                    ELSE {[old EXCEPT ![1] = v] : v \in {0, 1, 2}} \ {old})
                              \cup (IF old = <<>> THEN {} ELSE {SubSeq(old, 1, Len(old) - 1)})
                   /\ disk' = [disk EXCEPT ![n].content = new]
    BY <1>1 DEF ChangeInPlace
  <2>3. Append(old, 1) \in Seq(Nat)
    BY <2>1
  <2>4. old # <<>> => \A v \in {0, 1, 2} : [old EXCEPT ![1] = v] \in Seq(Nat)
    BY <2>1, ExceptSeq
  <2>5. old # <<>> => SubSeq(old, 1, Len(old) - 1) \in Seq(Nat)
    BY <2>1
  <2> HIDE DEF old
  <2>6. new \in Contents
    BY <2>2, <2>3, <2>4, <2>5 DEF Contents
  <2>7. disk' \in [Names -> Paths]
    BY <1>1, <2>2, <2>6 DEF BundleTypes
  <2>8. UNCHANGED <<sums, handle, pc, role, listing, visited, payloads, lines, results>>
    BY <1>1 DEF ChangeInPlace
  <2> QED
    BY <2>7, <2>8 DEF BundleTypes
<1>2. ASSUME NEW n \in Names, Replace(n) PROVE BundleTypes'
  <2>1. PICK new \in Replacements : new # disk[n] /\ disk' = [disk EXCEPT ![n] = new]
    BY <1>2 DEF Replace
  <2>2. <<1>> \in Contents /\ <<2>> \in Contents
    BY DEF Contents
  <2>3. new \in Paths
    BY <2>1, <2>2, ConstructorTypes DEF Absent, Replacements
  <2>4. disk' \in [Names -> Paths]
    BY <2>1, <2>3 DEF BundleTypes
  <2>5. handle' \in Handles
    <3>1. handle \in Handles /\ disk[n].content \in Contents
      BY DEF BundleTypes
    <3>2. [handle EXCEPT !.live = FALSE, !.content = disk[n].content] \in Handles
      BY <3>1 DEF Handles
    <3> QED
      BY <1>2, <3>1, <3>2 DEF Replace
  <2>6. UNCHANGED <<sums, pc, role, listing, visited, payloads, lines, results>>
    BY <1>2 DEF Replace
  <2> QED
    BY <2>4, <2>5, <2>6 DEF BundleTypes
<1>3. CASE ChangeSums
  <2> DEFINE old == sums.lines
             wrong == Sha256(<<2>>)
  <2>1. old \in Seq(Lines) /\ sums \in [exists : BOOLEAN, lines : Seq(Lines)]
    BY DEF BundleTypes
  <2>2. UNCHANGED <<disk, handle, pc, role, listing, visited, payloads, lines, results>>
    BY <1>3 DEF ChangeSums
  <2>3. ASSUME NEW k \in 1..Len(old),
               NEW new \in {SubSeq(old, 1, k - 1) \o SubSeq(old, k + 1, Len(old)),
                            Append(old, old[k]), Append(old, BlankLine),
                            [old EXCEPT ![k].digest = wrong]}
                           \cup {[old EXCEPT ![k].fault = f] : f \in LineFaults}
        PROVE  new \in Seq(Lines)
    <3>1. old[k] \in Lines /\ BlankLine \in Lines /\ wrong \in Digests
      <4>1. <<2>> \in Contents
        BY DEF Contents
      <4>2. old[k] \in Lines
        BY <2>1
      <4>3. BlankLine \in Lines
        BY ConstructorTypes, NamesFacts DEF BlankLine
      <4> QED
        BY <4>1, <4>2, <4>3, ConstructorTypes
    <3>2. SubSeq(old, 1, k - 1) \in Seq(Lines) /\ SubSeq(old, k + 1, Len(old)) \in Seq(Lines)
      BY <2>1
    <3>3. SubSeq(old, 1, k - 1) \o SubSeq(old, k + 1, Len(old)) \in Seq(Lines)
      BY <3>2
    <3>4. Append(old, old[k]) \in Seq(Lines) /\ Append(old, BlankLine) \in Seq(Lines)
      BY <2>1, <3>1
    <3>5. [old[k] EXCEPT !.digest = wrong] \in Lines
          /\ \A f \in LineFaults : [old[k] EXCEPT !.fault = f] \in Lines
      BY <3>1 DEF Lines
    <3>6. \A l \in Lines : [old EXCEPT ![k] = l] \in Seq(Lines)
      BY <2>1
    <3>7. [old EXCEPT ![k].digest = wrong] \in Seq(Lines)
          /\ \A f \in LineFaults : [old EXCEPT ![k].fault = f] \in Seq(Lines)
      BY <3>5, <3>6
    <3> QED
      BY <2>3, <3>3, <3>4, <3>7
  <2>4. sums' \in [exists : BOOLEAN, lines : Seq(Lines)]
    <3>1. CASE sums' = [exists |-> FALSE, lines |-> <<>>]
      BY <3>1
    <3>2. CASE \E new \in Seq(Lines) : sums' = [sums EXCEPT !.lines = new]
      BY <2>1, <3>2
    <3> QED
      BY <1>3, <2>3, <3>1, <3>2 DEF ChangeSums
  <2> QED
    BY <2>2, <2>4 DEF BundleTypes
<1> QED
  BY <1>1, <1>2, <1>3 DEF OtherProgram

\* Another program's change never moves the handle or what was read through it,
\* and leaves the reader where it is.
LEMMA HandleKept ==
    ASSUME BundleTypes, OtherProgram
    PROVE  /\ handle'.name = handle.name /\ handle'.got = handle.got
           /\ UNCHANGED <<pc, role, listing, visited, payloads, lines, digests, retained, records, verdict>>
<1> USE DEF Changed, results
<1>1. CASE ChangeSums \/ \E n \in Names : ChangeInPlace(n)
  BY <1>1 DEF ChangeSums, ChangeInPlace
<1>2. ASSUME NEW n \in Names, Replace(n)
      PROVE  /\ handle'.name = handle.name /\ handle'.got = handle.got
             /\ UNCHANGED <<pc, role, listing, visited, payloads, lines, digests, retained, records, verdict>>
  <2>1. handle' = IF handle.live /\ handle.name = n
                  THEN [handle EXCEPT !.live = FALSE, !.content = disk[n].content]
                  ELSE handle
    BY <1>2 DEF Replace
  <2>2. handle'.name = handle.name /\ handle'.got = handle.got
    BY <2>1 DEF BundleTypes, Handles
  <2> QED
    BY <1>2, <2>2 DEF Replace
<1> QED
  BY <1>1, <1>2 DEF OtherProgram

\* The types are preserved by every step.
LEMMA TypesStep ==
    ASSUME BundleTypes, [Next]_vars
    PROVE  BundleTypes'
<1>1. CASE UNCHANGED vars
  BY <1>1 DEF vars, BundleTypes, results
<1> QED
  BY <1>1, GatherType, HashType, FinalizeType, ListType, MeasureType, OtherProgramType
     DEF Next, Verifier, Terminated

-----------------------------------------------------------------------------
(* The limits                                                              *)

LimitInv == BundleTypes /\ RetainedWithinLimit

\* A step preserves the bounds: what is read is compared with the limit chunk
\* by chunk, so a file that grows after its size was checked stays bounded.
LEMMA LimitStep ==
    ASSUME LimitInv, [Next]_vars
    PROVE  LimitInv'
<1> USE DEF Goto, world, gathered, results, LimitInv
<1>1. BundleTypes'
  BY TypesStep
<1>2. Limit \in [Retained -> Nat] /\ MeasurementsLimit \in Nat /\ MaxEntries \in Nat
  BY BundleAssumption
<1>3. CASE \E error : Refuse(error)
  BY <1>1, <1>3 DEF Refuse, RetainedWithinLimit
<1>4. CASE Start /\ ~\E error : Refuse(error)
  BY <1>1, <1>2, <1>4 DEF Start, RetainedWithinLimit
<1>5. ASSUME NEW e \in Names \cup {"SHA256SUMS"}, GatherEntry(e), ~\E error : Refuse(error)
      PROVE  LimitInv'
  <2>1. visited + 1 <= MaxEntries
    BY <1>2, <1>5 DEF GatherEntry, BundleTypes
  <2> QED
    BY <1>1, <1>5, <2>1 DEF GatherEntry, RetainedWithinLimit
<1>6. CASE Gathered \/ HashNext \/ WriteLine \/ RenameSums
  BY <1>1, <1>6 DEF Gathered, HashNext, WriteLine, RenameSums, RetainedWithinLimit
<1>7. CASE OpenFile /\ ~\E error : Refuse(error)
  <2>1. handle' = [handle EXCEPT !.live = TRUE, !.got = <<>>] /\ UNCHANGED <<retained, records, visited>>
    BY <1>7 DEF OpenFile
  <2>2. handle'.name = handle.name /\ Len(handle'.got) = 0
    BY <2>1 DEF BundleTypes, Handles
  <2> QED
    BY <1>1, <1>2, <2>1, <2>2 DEF RetainedWithinLimit
<1>8. CASE ReadChunk /\ ~\E error : Refuse(error)
  <2>1. /\ handle' = [handle EXCEPT !.got = Append(@, Visible[Len(@) + 1])]
        /\ UNCHANGED <<retained, records, visited, role>>
        /\ ~(role = "verify" /\ handle.name \in Retained /\ Len(handle.got) + 1 > Limit[handle.name])
    BY <1>8 DEF ReadChunk
  <2>2. handle.got \in Seq(Nat) /\ handle \in Handles
    BY DEF BundleTypes, Handles, Contents
  <2>3. handle'.name = handle.name /\ handle'.got = Append(handle.got, Visible[Len(handle.got) + 1])
    BY <2>1, <2>2 DEF Handles
  <2>4. Len(handle'.got) = Len(handle.got) + 1 /\ Len(handle.got) \in Nat
    BY <2>2, <2>3
  <2> QED
    BY <1>1, <1>2, <2>1, <2>3, <2>4 DEF RetainedWithinLimit
<1>9. CASE (CheckPath \/ OpenSums \/ ReadLine \/ EndOfSums \/ CheckMeasurements) /\ ~\E error : Refuse(error)
  BY <1>1, <1>9 DEF CheckPath, OpenSums, ReadLine, EndOfSums, CheckMeasurements, RetainedWithinLimit
<1>10. CASE FinishEntry /\ ~\E error : Refuse(error)
  <2>1. /\ retained' = IF handle.name \in Retained
                       THEN [retained EXCEPT ![handle.name] = handle.got] ELSE retained
        /\ pc = "read" /\ role = "verify" /\ pc' = "line" /\ UNCHANGED <<records, visited>>
    BY <1>10 DEF FinishEntry, EndOfFile
  <2>2. \A n \in Retained : retained'[n] # Unread => Len(retained'[n]) <= Limit[n]
    BY <2>1 DEF RetainedWithinLimit, BundleTypes
  <2> QED
    BY <1>1, <2>1, <2>2 DEF RetainedWithinLimit
<1>11. CASE (OpenMeasurements \/ Conclude) /\ ~\E error : Refuse(error)
  BY <1>1, <1>11 DEF OpenMeasurements, Conclude, RetainedWithinLimit
<1>12. CASE MeasureLine /\ ~\E error : Refuse(error)
  <2>1. /\ records' = Append(records, Visible[Len(records) + 1]) /\ Len(records) + 1 <= MeasurementsLimit
        /\ pc' = "measure" /\ UNCHANGED <<retained, visited>>
    BY <1>2, <1>12 DEF MeasureLine, BundleTypes, Contents
  <2>2. Len(records') <= MeasurementsLimit
    BY <2>1 DEF BundleTypes, Contents
  <2> QED
    BY <1>1, <2>1, <2>2 DEF RetainedWithinLimit
<1>13. CASE OtherProgram
  <2>1. UNCHANGED <<retained, records, visited, role, pc>> /\ handle'.name = handle.name
        /\ handle'.got = handle.got
    BY <1>13, HandleKept
  <2> QED
    BY <1>1, <2>1 DEF RetainedWithinLimit
<1>14. CASE UNCHANGED vars
  BY <1>1, <1>14 DEF vars, RetainedWithinLimit
<1> QED
  BY <1>3, <1>4, <1>5, <1>6, <1>7, <1>8, <1>9, <1>10, <1>11, <1>12, <1>13, <1>14
     DEF Next, Verifier, Terminated

\* However a file grows after its size was checked, what is kept of it stays
\* within its limit, and so do the measurements and the entries counted
\* (evidence.rs hash_regular_file, validate_measurements, gather_directory).
THEOREM WithinLimits == Spec => []RetainedWithinLimit
<1>1. Init => LimitInv
  <2> SUFFICES ASSUME Init PROVE LimitInv
    OBVIOUS
  <2>1. role = "finalize" /\ visited = 0 /\ records = <<>> /\ retained = [n \in Retained |-> Unread]
    BY DEF Init
  <2>2. MeasurementsLimit \in Nat /\ MaxEntries \in Nat
    BY BundleAssumption
  <2> QED
    BY <2>1, <2>2, TypesInit DEF LimitInv, RetainedWithinLimit
<1>2. LimitInv /\ [Next]_vars => LimitInv'
  BY LimitStep
<1>3. LimitInv => RetainedWithinLimit
  BY DEF LimitInv
<1> QED
  BY <1>1, <1>2, <1>3, PTL DEF Spec

-----------------------------------------------------------------------------
(* What was accepted is what the list declares                             *)

EntriesUnique ==
    \A j, k \in Entries(lines) : lines[j].name = lines[k].name => j = k

\* The file of the k-th line was hashed to the digest of that line, and what
\* was kept of it is what was hashed.
Matched(k) ==
    /\ digests[lines[k].name] = lines[k].digest
    /\ lines[k].name \in Retained => lines[k].digest = Sha256(retained[lines[k].name])

\* The reader is busy with the file of the last line.
Pending == pc \in {"checkPath", "open", "read"}

ListInv ==
    /\ CheckedNames \subseteq payloads
    /\ EntriesUnique
    /\ \A k \in Entries(lines) : (Pending /\ k = Len(lines)) \/ Matched(k)
    /\ Pending => Len(lines) \in Entries(lines) /\ handle.name = lines[Len(lines)].name

\* The list of the verifier while it is being read, and what is known once it
\* has been read to its end.
DeclaredInv ==
    /\ BundleTypes
    /\ pc \in {"openSums", "line", "checkMeasurements", "openMeasurements", "measure"} => role = "verify"
    /\ pc = "hashNext" => role = "finalize"
    /\ role = "verify" /\ pc = "gather" => lines = <<>>
    /\ role = "verify" /\ pc \notin {"start", "gather", "done"} => ListInv
    /\ pc \in {"checkMeasurements", "openMeasurements", "measure"} => payloads \subseteq CheckedNames
    /\ verdict = "accepted" =>
          /\ pc = "done" /\ ListInv /\ payloads \subseteq CheckedNames
          /\ digests[Measurements] = Sha256(records)

\* The reader accepts in one place only, after the digest of the second read
\* was compared with that of the first.
LEMMA OneAcceptance ==
    ASSUME BundleTypes, Verifier, verdict # "accepted", verdict' = "accepted"
    PROVE  /\ Conclude /\ pc = "measure" /\ MeasurementsError = "none" /\ pc' = "done"
           /\ UNCHANGED <<world, gathered, lines, handle, results>>
<1> USE DEF Goto
<1>1. \A n \in Names : PathError(n) # "accepted" /\ LimitError(n) # "accepted"
  BY DEF PathError, LimitError
<1>2. handle.name \in Names /\ Measurements \in Names
  BY NamesFacts DEF BundleTypes, Handles
<1>3. ~Start /\ ~Gathered /\ ~(\E e \in Names \cup {"SHA256SUMS"} : GatherEntry(e))
  BY DEF Start, Gathered, GatherEntry, Refuse
<1>4. ~CheckPath /\ ~OpenFile /\ ~ReadChunk
  BY <1>1, <1>2 DEF CheckPath, OpenFile, ReadChunk, Refuse
<1>5. ~HashNext /\ ~WriteLine /\ ~RenameSums /\ ~OpenSums
  BY DEF HashNext, WriteLine, RenameSums, OpenSums, Refuse
<1>6. ~ReadLine
  <2> SUFFICES ASSUME ReadLine PROVE FALSE
    OBVIOUS
  <2> DEFINE line == sums.lines[Len(lines) + 1]
  <2>1. lines \in Seq(Lines) /\ sums.lines \in Seq(Lines) /\ Len(lines) + 1 <= Len(sums.lines)
    BY DEF ReadLine, BundleTypes
  <2>2. line \in Lines
    BY <2>1
  <2>3. line.fault # "accepted"
    BY <2>2 DEF Lines, LineFaults
  <2>4. LineError(line, Len(lines) + 1) # "accepted" /\ EntryError(line) # "accepted"
    BY <2>3 DEF LineError, EntryError
  <2> QED
    BY <2>4 DEF ReadLine, Refuse
<1>7. ~FinishEntry /\ ~EndOfSums
  BY DEF FinishEntry, EndOfSums, CloseError, Refuse
<1>8. ~CheckMeasurements /\ ~OpenMeasurements /\ ~MeasureLine
  BY <1>1, <1>2 DEF CheckMeasurements, OpenMeasurements, MeasureLine, Refuse
<1>9. Conclude
  BY <1>3, <1>4, <1>5, <1>6, <1>7, <1>8 DEF Verifier
<1> QED
  BY <1>9 DEF Conclude, MeasurementsError, Refuse

\* Reading a line adds its name to the names read, unless it is blank.
LEMMA EntryAdded ==
    ASSUME BundleTypes, NEW line \in Lines, lines' = Append(lines, line)
    PROVE  /\ lines' \in Seq(Lines) /\ Len(lines') = Len(lines) + 1
           /\ lines'[Len(lines')] = line /\ \A k \in DOMAIN lines : lines'[k] = lines[k]
           /\ Entries(lines') = Entries(lines) \cup (IF line.fault = "none" THEN {Len(lines')} ELSE {})
           /\ CheckedNames' = CheckedNames \cup (IF line.fault = "none" THEN {line.name} ELSE {})
           /\ \A k \in Entries(lines) : k \in DOMAIN lines /\ k # Len(lines')
<1>1. lines \in Seq(Lines)
  BY DEF BundleTypes
<1>2. /\ lines' \in Seq(Lines) /\ Len(lines') = Len(lines) + 1
      /\ lines'[Len(lines')] = line /\ \A k \in DOMAIN lines : lines'[k] = lines[k]
      /\ DOMAIN lines' = DOMAIN lines \cup {Len(lines')} /\ Len(lines') \notin DOMAIN lines
  BY <1>1
<1>3. Entries(lines') = Entries(lines) \cup (IF line.fault = "none" THEN {Len(lines')} ELSE {})
  BY <1>2 DEF Entries
<1>4. \A k \in Entries(lines) : k \in DOMAIN lines /\ k # Len(lines')
  BY <1>2 DEF Entries
<1>5. CheckedNames' = CheckedNames \cup (IF line.fault = "none" THEN {line.name} ELSE {})
  BY <1>2, <1>3, <1>4 DEF CheckedNames
<1> QED
  BY <1>2, <1>3, <1>4, <1>5

\* An entry that passes EntryError: its name is new and among the files found.
LEMMA ReadLineDeclared ==
    ASSUME DeclaredInv, BundleTypes', ReadLine, ~\E error : Refuse(error)
    PROVE  DeclaredInv'
<1> USE DEF Goto, world, gathered, results
<1> DEFINE line == sums.lines[Len(lines) + 1]
<1>1. lines \in Seq(Lines) /\ sums.lines \in Seq(Lines) /\ Len(lines) + 1 <= Len(sums.lines)
  BY DEF ReadLine, DeclaredInv, BundleTypes
<1>2. line \in Lines
  BY <1>1
<1>3. /\ pc = "line" /\ lines' = Append(lines, line)
      /\ UNCHANGED <<role, payloads, digests, retained, records, verdict>>
      /\ \/ line.fault = "blank" /\ pc' = "line" /\ handle' = handle
         \/ /\ EntryError(line) = "none" /\ pc' = "checkPath"
            /\ handle' = [NoHandle EXCEPT !.name = line.name]
  BY DEF ReadLine
<1>4. role = "verify" /\ ListInv /\ verdict # "accepted"
  BY <1>3 DEF DeclaredInv
<1> HIDE DEF line
<1>5. \A k \in Entries(lines) : Matched(k)
  BY <1>3, <1>4 DEF ListInv, Pending
<1>6. /\ lines'[Len(lines')] = line /\ \A k \in DOMAIN lines : lines'[k] = lines[k]
      /\ Entries(lines') = Entries(lines) \cup (IF line.fault = "none" THEN {Len(lines')} ELSE {})
      /\ CheckedNames' = CheckedNames \cup (IF line.fault = "none" THEN {line.name} ELSE {})
      /\ \A k \in Entries(lines) : k \in DOMAIN lines /\ k # Len(lines')
  BY <1>2, <1>3, EntryAdded DEF DeclaredInv
<1>7. \A k \in Entries(lines) : Matched(k)'
  BY <1>3, <1>5, <1>6 DEF Matched
<1>8. CASE line.fault = "blank" /\ pc' = "line"
  <2>1. Entries(lines') = Entries(lines) /\ CheckedNames' = CheckedNames
    BY <1>6, <1>8
  <2>2. EntriesUnique'
    BY <1>4, <1>6, <2>1 DEF ListInv, EntriesUnique
  <2>3. ListInv'
    BY <1>3, <1>4, <1>7, <1>8, <2>1, <2>2 DEF ListInv, Pending
  <2> QED
    BY <1>3, <1>4, <1>8, <2>3 DEF DeclaredInv
<1>9. CASE EntryError(line) = "none" /\ pc' = "checkPath" /\ handle' = [NoHandle EXCEPT !.name = line.name]
  <2>1. line.fault = "none" /\ line.name \notin CheckedNames /\ line.name \in payloads
    BY <1>2, <1>9 DEF EntryError, Lines, LineFaults
  <2>2. /\ Entries(lines') = Entries(lines) \cup {Len(lines')}
        /\ CheckedNames' = CheckedNames \cup {line.name}
    BY <1>6, <2>1
  <2>3. \A k \in Entries(lines) : lines[k].name # line.name
    BY <2>1 DEF CheckedNames
  <2>4. EntriesUnique'
    BY <1>4, <1>6, <2>2, <2>3 DEF ListInv, EntriesUnique
  <2>5. handle'.name = lines'[Len(lines')].name
    BY <1>6, <1>9 DEF NoHandle
  <2>6. ListInv'
    BY <1>3, <1>4, <1>7, <1>9, <2>1, <2>2, <2>4, <2>5 DEF ListInv, Pending
  <2> QED
    BY <1>3, <1>4, <1>9, <2>6 DEF DeclaredInv
<1> QED
  BY <1>3, <1>8, <1>9

\* FinishEntry fills in the two maps for the last line and, as names are
\* unique, for no other.
LEMMA FinishEntryDeclared ==
    ASSUME DeclaredInv, BundleTypes', FinishEntry, ~\E error : Refuse(error)
    PROVE  DeclaredInv'
<1> USE DEF Goto, world, gathered, results
<1> DEFINE n == handle.name
<1>1. /\ role = "verify" /\ pc = "read" /\ pc' = "line"
      /\ lines[Len(lines)].digest = Sha256(handle.got)
      /\ digests' = [digests EXCEPT ![n] = Sha256(handle.got)]
      /\ retained' = IF n \in Retained THEN [retained EXCEPT ![n] = handle.got] ELSE retained
      /\ UNCHANGED <<role, payloads, lines, records, verdict>>
  BY DEF FinishEntry, EndOfFile
<1>2. ListInv /\ Pending /\ verdict # "accepted"
  BY <1>1 DEF DeclaredInv, Pending
<1>3. /\ digests \in [Names -> Digests] /\ retained \in [Retained -> Contents] /\ n \in Names
      /\ Len(lines) \in Entries(lines) /\ n = lines[Len(lines)].name
  BY <1>2 DEF DeclaredInv, BundleTypes, Handles, ListInv
<1>4. \A k \in Entries(lines) : Matched(k)'
  <2> SUFFICES ASSUME NEW k \in Entries(lines) PROVE Matched(k)'
    OBVIOUS
  <2>1. CASE k = Len(lines)
    BY <1>1, <1>3, <2>1 DEF Matched
  <2>2. CASE k # Len(lines)
    <3>1. Matched(k) /\ lines[k].name # n
      BY <1>2, <1>3, <2>2 DEF ListInv, EntriesUnique
    <3>2. lines[k].name \in Names
      <4>1. lines \in Seq(Lines) /\ k \in DOMAIN lines
        BY DEF DeclaredInv, BundleTypes, Entries
      <4>2. lines[k] \in Lines
        BY <4>1
      <4> QED
        BY <4>2 DEF Lines
    <3>3. digests'[lines[k].name] = digests[lines[k].name]
      BY <1>1, <1>3, <3>1, <3>2
    <3>4. lines[k].name \in Retained => retained'[lines[k].name] = retained[lines[k].name]
      BY <1>1, <1>3, <3>1
    <3> QED
      BY <1>1, <3>1, <3>3, <3>4 DEF Matched
  <2> QED
    BY <2>1, <2>2
<1> HIDE DEF n
<1>5. ListInv'
  BY <1>1, <1>2, <1>4 DEF ListInv, Pending, EntriesUnique, CheckedNames
<1> QED
  BY <1>1, <1>2, <1>5 DEF DeclaredInv

\* Every step keeps the list and what was checked against it together.
LEMMA DeclaredStep ==
    ASSUME DeclaredInv, [Next]_vars
    PROVE  DeclaredInv'
<1> USE DEF Goto, world, gathered, results
<1>1. BundleTypes' /\ BundleTypes
  BY TypesStep DEF DeclaredInv
<1> DEFINE Same == UNCHANGED <<role, payloads, lines, digests, retained, records, verdict>>
<1>2. ASSUME Same, handle'.name = handle.name
      PROVE  (Pending' <=> Pending) /\ ListInv => ListInv' /\ CheckedNames' = CheckedNames
  BY <1>2 DEF ListInv, EntriesUnique, Matched, CheckedNames, Pending
<1>3. ASSUME Same, ~Pending, ~Pending'
      PROVE  ListInv => ListInv' /\ CheckedNames' = CheckedNames
  BY <1>3 DEF ListInv, EntriesUnique, Matched, CheckedNames
<1>4. CASE Verifier /\ verdict # "accepted" /\ verdict' = "accepted"
  <2>1. /\ pc = "measure" /\ MeasurementsError = "none" /\ pc' = "done"
        /\ UNCHANGED <<role, payloads, lines, digests, retained, records>>
    BY <1>1, <1>4, OneAcceptance
  <2>2. ListInv /\ payloads \subseteq CheckedNames /\ digests[Measurements] = Sha256(records)
    BY <2>1 DEF DeclaredInv, MeasurementsError
  <2>3. ListInv' /\ payloads' \subseteq CheckedNames'
    BY <2>1, <2>2 DEF ListInv, EntriesUnique, Matched, CheckedNames, Pending
  <2> QED
    BY <1>1, <2>1, <2>2, <2>3 DEF DeclaredInv
<1>5. CASE (\E error : Refuse(error)) /\ verdict' # "accepted"
  BY <1>1, <1>5 DEF Refuse, DeclaredInv
<1>6. CASE Verifier /\ verdict' # "accepted" /\ ~\E error : Refuse(error)
  <2>0. Verifier /\ ~(\E error : Refuse(error)) /\ verdict' # "accepted"
    BY <1>6
  <2>1. CASE Start
    BY <1>1, <2>0, <2>1 DEF Start, DeclaredInv
  <2>2. ASSUME NEW e \in Names \cup {"SHA256SUMS"}, GatherEntry(e) PROVE DeclaredInv'
    BY <1>1, <2>0, <2>2 DEF GatherEntry, DeclaredInv
  <2>3. CASE Gathered
    <3>1. role = "verify" => lines' = <<>>
      BY <2>3 DEF Gathered, DeclaredInv
    <3>2. lines' = <<>> /\ ~Pending' => ListInv'
      <4> SUFFICES ASSUME lines' = <<>>, ~Pending' PROVE ListInv'
        OBVIOUS
      <4>1. Entries(lines') = {}
        BY DEF Entries
      <4> QED
        BY <4>1 DEF ListInv, EntriesUnique, CheckedNames
    <3>3. role \in {"finalize", "verify"}
      BY <1>1 DEF BundleTypes
    <3>4. role' = role /\ pc' = IF role = "finalize" THEN "hashNext" ELSE "openSums"
      BY <2>3 DEF Gathered
    <3> QED
      BY <1>1, <2>0, <3>1, <3>2, <3>3, <3>4 DEF DeclaredInv, Pending
  <2>4. CASE CheckPath
    <3>1. Same /\ handle' = handle /\ pc = "checkPath" /\ pc' = "open"
      BY <2>0, <2>4 DEF CheckPath
    <3> QED
      BY <1>1, <1>2, <2>0, <3>1 DEF DeclaredInv, Pending
  <2>5. CASE OpenFile
    <3>1. Same /\ handle' = [handle EXCEPT !.live = TRUE, !.got = <<>>] /\ pc = "open" /\ pc' = "read"
      BY <2>0, <2>5 DEF OpenFile
    <3>2. handle'.name = handle.name
      BY <1>1, <3>1 DEF BundleTypes, Handles
    <3> QED
      BY <1>1, <1>2, <2>0, <3>1, <3>2 DEF DeclaredInv, Pending
  <2>6. CASE ReadChunk
    <3>1. Same /\ handle' = [handle EXCEPT !.got = Append(@, Visible[Len(@) + 1])]
          /\ pc = "read" /\ pc' = "read"
      BY <2>0, <2>6 DEF ReadChunk
    <3>2. handle'.name = handle.name
      BY <1>1, <3>1 DEF BundleTypes, Handles
    <3> QED
      BY <1>1, <1>2, <2>0, <3>1, <3>2 DEF DeclaredInv, Pending
  <2>7. CASE HashNext \/ WriteLine \/ RenameSums
    BY <1>1, <2>0, <2>7 DEF HashNext, WriteLine, RenameSums, EndOfFile, DeclaredInv
  <2>8. CASE OpenSums
    <3>1. Same /\ pc = "openSums" /\ pc' = "line"
      BY <2>0, <2>8 DEF OpenSums
    <3> QED
      BY <1>1, <1>3, <2>0, <3>1 DEF DeclaredInv, Pending
  <2>9. CASE ReadLine
    BY <1>1, <2>0, <2>9, ReadLineDeclared
  <2>10. CASE FinishEntry
    BY <1>1, <2>0, <2>10, FinishEntryDeclared
  <2>11. CASE EndOfSums
    <3>1. Same /\ pc = "line" /\ pc' = "checkMeasurements" /\ CloseError = "none"
      BY <2>0, <2>11 DEF EndOfSums
    <3>2. payloads \subseteq CheckedNames
      BY <3>1 DEF CloseError
    <3> QED
      BY <1>1, <1>3, <2>0, <3>1, <3>2 DEF DeclaredInv, Pending
  <2>12. CASE CheckMeasurements \/ OpenMeasurements
    <3>1. Same /\ pc \in {"checkMeasurements", "openMeasurements"} /\ pc' \in {"openMeasurements", "measure"}
      BY <2>0, <2>12 DEF CheckMeasurements, OpenMeasurements
    <3> QED
      BY <1>1, <1>3, <2>0, <3>1 DEF DeclaredInv, Pending
  <2>13. CASE MeasureLine
    <3>1. pc = "measure" /\ pc' = "measure" /\ UNCHANGED <<role, payloads, lines, digests, retained, verdict>>
      BY <2>0, <2>13 DEF MeasureLine
    <3>2. ListInv' /\ CheckedNames' = CheckedNames
      BY <3>1 DEF DeclaredInv, ListInv, EntriesUnique, Matched, CheckedNames, Pending
    <3> QED
      BY <1>1, <2>0, <3>1, <3>2 DEF DeclaredInv
  <2>14. CASE Conclude
    BY <2>0, <2>14 DEF Conclude
  <2> QED
    BY <2>0, <2>1, <2>2, <2>3, <2>4, <2>5, <2>6, <2>7, <2>8, <2>9, <2>10, <2>11, <2>12, <2>13, <2>14
       DEF Verifier
<1>7. CASE Verifier /\ verdict = "accepted"
  <2>1. pc = "done"
    BY <1>7 DEF DeclaredInv
  <2> QED
    BY <1>7, <2>1 DEF Verifier, Start, Gathered, GatherEntry, CheckPath, OpenFile, ReadChunk, HashNext,
       WriteLine, RenameSums, OpenSums, ReadLine, FinishEntry, EndOfFile, EndOfSums,
       CheckMeasurements, OpenMeasurements, MeasureLine, Conclude
<1>8. CASE OtherProgram
  <2>1. Same /\ handle'.name = handle.name /\ pc' = pc
    BY <1>1, <1>8, HandleKept
  <2> QED
    BY <1>1, <1>2, <2>1 DEF DeclaredInv, Pending
<1>9. CASE UNCHANGED vars
  <2>1. Same /\ handle'.name = handle.name /\ pc' = pc
    BY <1>9 DEF vars
  <2> QED
    BY <1>1, <1>2, <2>1 DEF DeclaredInv, Pending
<1> QED
  BY <1>4, <1>5, <1>6, <1>7, <1>8, <1>9 DEF Next, Terminated

\* Whatever another program does to the directory meanwhile, a bundle that was
\* accepted is the one SHA256SUMS declares: each file found has one line, and
\* what was kept and what was parsed hashes to it (evidence.rs
\* verify_evidence_bundle_data, validate_measurements).
THEOREM DeclaredAccepted == Spec => []AcceptedIsDeclared
<1>1. Init => DeclaredInv
  BY TypesInit DEF Init, DeclaredInv
<1>2. DeclaredInv /\ [Next]_vars => DeclaredInv'
  BY DeclaredStep
<1>3. DeclaredInv => AcceptedIsDeclared
  <2> SUFFICES ASSUME DeclaredInv, verdict = "accepted" PROVE AcceptedIsDeclared
    BY DEF AcceptedIsDeclared
  <2>1. pc = "done" /\ ListInv /\ payloads \subseteq CheckedNames /\ digests[Measurements] = Sha256(records)
    BY DEF DeclaredInv
  <2>2. \A k \in Entries(lines) : Matched(k)
    BY <2>1 DEF ListInv, Pending
  <2> QED
    BY <2>1, <2>2 DEF AcceptedIsDeclared, ListInv, EntriesUnique, Matched
<1> QED
  BY <1>1, <1>2, <1>3, PTL DEF Spec

-----------------------------------------------------------------------------
(* The verdict on a directory nobody changes: definitions                  *)

\* Nobody changed the directory since the reader started, as far as it matters
\* to the role it is in.
Steady == IF role = "verify" THEN ~dirty ELSE changes = 0

\* What read_dir lists.
Listed == Present \cup (IF sums.exists THEN {"SHA256SUMS"} ELSE {})

\* gather_directory has visited part of the listing and found only files.
Walk ==
    /\ listing \subseteq Listed
    /\ payloads = Present \ listing
    /\ \A n \in payloads : disk[n].kind = "file"
    /\ visited = Cardinality(Listed \ listing)
    /\ visited <= MaxEntries
    /\ pc # "gather" => listing = {}

\* The part of a file that was read so far, through a handle that still leads
\* to it.
PrefixOf(s, t) == Len(s) <= Len(t) /\ \A k \in 1..Len(s) : s[k] = t[k]

Reading ==
    LET content == disk[handle.name].content
    IN  /\ handle.live
        /\ PrefixOf(handle.got, content)
        /\ role = "verify" /\ handle.name \in Retained => Len(content) <= Limit[handle.name]

\* A line whose file was found to be as it says.
Correct(k) ==
    LET n == lines[k].name
    IN  /\ lines[k].digest = Sha256(disk[n].content)
        /\ role = "verify" /\ n \in Retained => Len(disk[n].content) <= Limit[n]

\* The verifier has read part of the list and found nothing to refuse.
ListRead ==
    /\ sums.exists /\ Len(sums.lines) <= MaxSumsLines
    /\ PrefixOf(lines, sums.lines)
    /\ \A k \in 1..Len(lines) : lines[k].fault \in {"none", "blank"}
    /\ \A k \in Entries(lines) : (Pending /\ k = Len(lines)) \/ Correct(k)

\* It has read all of it.
ListClosed ==
    /\ lines = sums.lines
    /\ Required \subseteq CheckedNames
    /\ Parses(retained[Manifest])
    /\ handle.name = Measurements

\* The second look at the measurements.
Measured ==
    LET content == disk[Measurements].content
    IN  /\ handle.live
        /\ Len(content) <= MeasurementsLimit
        /\ PrefixOf(records, content)
        /\ \A k \in 1..Len(records) : records[k] > 0

Measuring == {"checkMeasurements", "openMeasurements", "measure"}

\* The reader, undisturbed.
Undisturbed ==
    /\ pc \notin {"start", "done"} => Walk
    /\ pc = "read" => Reading
    /\ role = "verify" /\ pc \notin {"start", "gather", "openSums", "done"} => ListRead
    /\ pc \in Measuring => ListClosed
    /\ pc = "measure" => Measured
    /\ role = "verify" /\ pc = "done" => (verdict = "accepted" <=> Intact)

QuietInv ==
    /\ DeclaredInv
    /\ changes \in Nat
    /\ pc = "openSums" => lines = <<>>
    /\ pc \notin {"measure", "done"} => records = <<>>
    /\ Steady => Undisturbed

\* What the run staged.
Staged ==
    /\ Required \subseteq Present
    /\ \A n \in Names \ Present : disk[n].content = <<>>
    /\ \A n \in Present :
          /\ disk[n].kind = "file"
          /\ \A k \in 1..Len(disk[n].content) : disk[n].content[k] = 1
          /\ n # Measurements => disk[n].content # <<>>
    /\ Len(disk[Measurements].content) = MeasurementLines

\* write_checksum_file has listed part of the files.
ListWritten ==
    /\ \A k \in 1..Len(lines) : lines[k].fault = "none" /\ lines[k].name \in payloads /\ Correct(k)
    /\ \A j, k \in 1..Len(lines) : lines[j].name = lines[k].name => j = k
    /\ Pending => handle.name \in payloads /\ \A k \in 1..Len(lines) : lines[k].name # handle.name

\* It has listed all of them.
ListComplete ==
    /\ sums.exists
    /\ \A k \in 1..Len(sums.lines) :
          /\ sums.lines[k].fault = "none" /\ sums.lines[k].name \in Present
          /\ sums.lines[k].digest = Sha256(disk[sums.lines[k].name].content)
    /\ \A j, k \in 1..Len(sums.lines) : sums.lines[j].name = sums.lines[k].name => j = k
    /\ \A n \in Present : \E k \in 1..Len(sums.lines) : sums.lines[k].name = n

FinalInv ==
    /\ QuietInv
    /\ changes = 0 =>
          /\ Staged /\ ~dirty
          /\ IF role = "verify" THEN ListComplete
             ELSE /\ ~sums.exists
                  /\ pc = "gather" => lines = <<>>
                  /\ pc \notin {"start", "gather", "done"} => ListWritten
                  /\ pc = "done" => verdict # "accepted" /\ ~(Cardinality(Present) < MaxEntries)

-----------------------------------------------------------------------------
(* Finite sets of names and of lines                                       *)

\* The names, the files present and the entries listed are finite.
LEMMA ListedFacts ==
    ASSUME BundleTypes
    PROVE  /\ IsFiniteSet(Names) /\ Present \in SUBSET Names /\ IsFiniteSet(Present)
           /\ Cardinality(Present) \in Nat
           /\ IsFiniteSet(Listed) /\ Cardinality(Listed) \in Nat
           /\ Cardinality(Listed) = Cardinality(Present) + (IF sums.exists THEN 1 ELSE 0)
           /\ \A e \in Listed : e = "SHA256SUMS" \/ e \in Present
           /\ "SHA256SUMS" \notin Present /\ Present \subseteq Listed
<1>1. NameOrder \in Seq(Names) /\ "SHA256SUMS" \notin Names
  BY BundleAssumption
<1>2. NameOrder \in Surjection(1..Len(NameOrder), Names)
  <2>1. NameOrder \in [1..Len(NameOrder) -> Names] /\ DOMAIN NameOrder = 1..Len(NameOrder)
    BY <1>1
  <2>2. \A n \in Names : \E k \in 1..Len(NameOrder) : NameOrder[k] = n
    BY <2>1 DEF Names
  <2> QED
    BY <2>1, <2>2 DEF Surjection
<1>3. IsFiniteSet(Names)
  <2>1. Len(NameOrder) \in Nat
    BY <1>1
  <2>2. IsFiniteSet(1..Len(NameOrder))
    BY <2>1, FS_Interval
  <2> QED
    BY <1>2, <2>2, FS_Surjection
<1>4. Present \in SUBSET Names
  BY DEF Present
<1>5. IsFiniteSet(Present) /\ Cardinality(Present) \in Nat
  BY <1>3, <1>4, FS_Subset, FS_CardinalityType
<1>6. "SHA256SUMS" \notin Present
  BY <1>1, <1>4
<1>7. CASE sums.exists
  <2>1. Listed = Present \cup {"SHA256SUMS"}
    BY <1>7 DEF Listed
  <2>2. IsFiniteSet(Listed) /\ Cardinality(Listed) = Cardinality(Present) + 1
    BY <1>5, <1>6, <2>1, FS_AddElement
  <2> QED
    BY <1>3, <1>4, <1>5, <1>6, <1>7, <2>1, <2>2
<1>8. CASE ~sums.exists
  <2>1. Listed = Present
    BY <1>8 DEF Listed
  <2> QED
    BY <1>3, <1>4, <1>5, <1>6, <1>8, <2>1
<1> QED
  BY <1>7, <1>8

\* The entries of a list.
LEMMA EntryFacts ==
    ASSUME NEW read \in Seq(Lines)
    PROVE  /\ Entries(read) \in SUBSET (1..Len(read)) /\ IsFiniteSet(Entries(read))
           /\ Cardinality(Entries(read)) \in Nat
           /\ \A k \in Entries(read) : read[k] \in Lines /\ read[k].name \in Names
<1>1. Entries(read) \in SUBSET (1..Len(read)) /\ Len(read) \in Nat
  BY DEF Entries
<1>2. IsFiniteSet(1..Len(read))
  BY <1>1, FS_Interval
<1>3. \A k \in Entries(read) : read[k] \in Lines
  BY <1>1
<1> QED
  BY <1>1, <1>2, <1>3, FS_Subset, FS_CardinalityType DEF Lines

\* The names of a list.
NamesOf(read) == {read[k].name : k \in Entries(read)}

\* They are at most as many as its entries, and as many only if no name is
\* listed twice.
LEMMA NamesCounted ==
    ASSUME NEW read \in Seq(Lines)
    PROVE  /\ IsFiniteSet(NamesOf(read)) /\ Cardinality(NamesOf(read)) \in Nat
           /\ Cardinality(NamesOf(read)) <= Cardinality(Entries(read))
           /\ Cardinality(NamesOf(read)) = Cardinality(Entries(read)) <=>
                 \A j, k \in Entries(read) : read[j].name = read[k].name => j = k
<1> DEFINE E == Entries(read)
           f == [k \in E |-> read[k].name]
<1>1. IsFiniteSet(E)
  BY EntryFacts
<1>2. f \in Surjection(E, NamesOf(read))
  BY DEF Surjection, NamesOf
<1>3. /\ IsFiniteSet(NamesOf(read)) /\ Cardinality(NamesOf(read)) <= Cardinality(E)
      /\ Cardinality(NamesOf(read)) = Cardinality(E) <=> f \in Injection(E, NamesOf(read))
  BY <1>1, <1>2, FS_Surjection
<1>4. f \in Injection(E, NamesOf(read)) <=> \A j, k \in E : read[j].name = read[k].name => j = k
  <2>1. f \in [E -> NamesOf(read)]
    BY DEF NamesOf
  <2>2. f \in Injection(E, NamesOf(read)) <=> \A a, b \in E : f[a] = f[b] => a = b
    BY <2>1 DEF Injection, IsInjective
  <2>3. \A k \in E : f[k] = read[k].name
    OBVIOUS
  <2> QED
    BY <2>2, <2>3
<1> QED
  BY <1>3, <1>4, FS_CardinalityType

\* An intact bundle lists the files present, each of them once.
LEMMA IntactList ==
    ASSUME BundleTypes, Intact
    PROVE  /\ NamesOf(sums.lines) = Present
           /\ \A j, k \in Entries(sums.lines) : sums.lines[j].name = sums.lines[k].name => j = k
           /\ \A k \in Entries(sums.lines) :
                 sums.lines[k].digest = Sha256(disk[sums.lines[k].name].content)
<1>1. sums.lines \in Seq(Lines)
  BY DEF BundleTypes
<1> DEFINE R == NamesOf(sums.lines)
           E == Entries(sums.lines)
<1>2. Present \in SUBSET R
  BY DEF Intact, NamesOf
<1>3. IsFiniteSet(R) /\ Cardinality(R) \in Nat /\ Cardinality(R) <= Cardinality(E)
      /\ (Cardinality(R) = Cardinality(E) <=>
             \A j, k \in E : sums.lines[j].name = sums.lines[k].name => j = k)
  BY <1>1, NamesCounted
<1>4. Cardinality(Present) <= Cardinality(R) /\ (Cardinality(R) = Cardinality(Present) => R = Present)
  BY <1>2, <1>3, FS_Subset
<1>5. Cardinality(E) = Cardinality(Present) /\ Cardinality(Present) \in Nat
  BY ListedFacts DEF Intact
<1> HIDE DEF R, E
<1>6. Cardinality(R) = Cardinality(Present) /\ Cardinality(R) = Cardinality(E)
  BY <1>3, <1>4, <1>5
<1>7. R = Present /\ \A j, k \in E : sums.lines[j].name = sums.lines[k].name => j = k
  BY <1>3, <1>4, <1>6
<1>8. ASSUME NEW k \in E PROVE sums.lines[k].digest = Sha256(disk[sums.lines[k].name].content)
  <2>1. sums.lines[k].name \in Present
    BY <1>7 DEF R, NamesOf, E
  <2>2. PICK j \in E : /\ sums.lines[j].name = sums.lines[k].name
                       /\ sums.lines[j].digest = Sha256(disk[sums.lines[k].name].content)
    BY <2>1 DEF Intact, E
  <2>3. j = k
    BY <1>7, <2>2
  <2> QED
    BY <2>2, <2>3
<1> QED
  BY <1>7, <1>8 DEF R, E

\* What depends on the directory alone.
LEMMA SameWorld ==
    ASSUME UNCHANGED <<disk, sums>>
    PROVE  Present' = Present /\ Listed' = Listed /\ (Intact' <=> Intact)
<1>1. Present' = Present
  BY DEF Present
<1> QED
  BY <1>1 DEF Listed, Intact

\* A prefix as long as the whole is the whole.
LEMMA WholePrefix ==
    ASSUME NEW S, NEW s \in Seq(S), NEW t \in Seq(S), PrefixOf(s, t), Len(s) >= Len(t)
    PROVE  s = t
<1>1. Len(s) = Len(t) /\ \A k \in 1..Len(s) : s[k] = t[k]
  BY DEF PrefixOf
<1> QED
  BY <1>1, SeqEqual

\* A prefix grows by the next element.
LEMMA LongerPrefix ==
    ASSUME NEW S, NEW s \in Seq(S), NEW t \in Seq(S), PrefixOf(s, t), Len(s) < Len(t)
    PROVE  PrefixOf(Append(s, t[Len(s) + 1]), t)
<1>1. Len(s) \in Nat /\ Len(t) \in Nat /\ Len(s) <= Len(t) /\ \A k \in 1..Len(s) : s[k] = t[k]
  BY DEF PrefixOf
<1>2. t[Len(s) + 1] \in S
  BY <1>1
<1> DEFINE x == t[Len(s) + 1]
<1> HIDE DEF x
<1>3. x \in S
  BY <1>2 DEF x
<1>4. Len(Append(s, x)) = Len(s) + 1 /\ Append(s, x)[Len(s) + 1] = x
      /\ \A k \in 1..Len(s) : Append(s, x)[k] = s[k]
  BY <1>3
<1>5. \A k \in 1..(Len(s) + 1) : Append(s, x)[k] = t[k]
  BY <1>1, <1>4 DEF x
<1> QED
  BY <1>1, <1>4, <1>5 DEF PrefixOf, x

\* The entries of a prefix of the list are entries of the list.
LEMMA PrefixEntries ==
    ASSUME NEW read \in Seq(Lines), NEW all \in Seq(Lines), PrefixOf(read, all)
    PROVE  /\ Entries(read) \subseteq Entries(all)
           /\ \A k \in Entries(read) : read[k] = all[k] /\ k <= Len(read)
           /\ Cardinality(Entries(read)) <= Cardinality(Entries(all))
<1>1. /\ Len(read) \in Nat /\ Len(all) \in Nat /\ Len(read) <= Len(all)
      /\ \A k \in 1..Len(read) : read[k] = all[k]
      /\ DOMAIN read = 1..Len(read) /\ DOMAIN all = 1..Len(all)
  BY DEF PrefixOf
<1>2. Entries(read) \subseteq Entries(all) /\ \A k \in Entries(read) : read[k] = all[k] /\ k <= Len(read)
  BY <1>1 DEF Entries
<1> QED
  BY <1>2, EntryFacts, FS_Subset

\* The number of entries visited, while one is left.
LEMMA VisitedCount ==
    ASSUME BundleTypes, Walk, NEW e \in listing
    PROVE  visited + 1 <= Cardinality(Listed) /\ visited \in Nat
           /\ visited + 1 = Cardinality(Listed \ (listing \ {e}))
<1>1. IsFiniteSet(Listed) /\ Cardinality(Listed) \in Nat
  BY ListedFacts
<1>2. listing \subseteq Listed /\ visited = Cardinality(Listed \ listing)
  BY DEF Walk
<1> DEFINE A == Listed \ listing
           B == Listed \ (listing \ {e})
<1>3. B = A \cup {e} /\ e \notin A /\ A \subseteq Listed /\ B \subseteq Listed
  BY <1>2
<1>4. IsFiniteSet(A) /\ Cardinality(A) \in Nat /\ IsFiniteSet(B) /\ Cardinality(B) <= Cardinality(Listed)
  BY <1>1, <1>3, FS_Subset, FS_CardinalityType
<1>5. Cardinality(B) = Cardinality(A) + 1
  BY <1>3, <1>4, FS_AddElement
<1> QED
  BY <1>2, <1>4, <1>5

-----------------------------------------------------------------------------
(* An intact bundle is not refused                                         *)

\* While gathering.
LEMMA GatherAccepts ==
    ASSUME BundleTypes, Walk, Intact, NEW e \in Names \cup {"SHA256SUMS"}, GatherEntry(e)
    PROVE  pc' # "done"
<1>1. e \in listing
  BY DEF GatherEntry
<1>2. visited + 1 <= Cardinality(Listed) /\ visited \in Nat
  BY <1>1, VisitedCount
<1>3. /\ Cardinality(Listed) = Cardinality(Present) + 1 /\ Cardinality(Present) \in Nat
      /\ e = "SHA256SUMS" \/ e \in Present
  BY <1>1, ListedFacts DEF Intact, Walk
<1>4. Cardinality(Present) < MaxEntries /\ MaxEntries \in Nat
  BY BundleAssumption DEF Intact
<1>5. ~(visited + 1 > MaxEntries)
  BY <1>2, <1>3, <1>4
<1>6. e # "SHA256SUMS" => disk[e].kind = "file"
  BY <1>3 DEF Intact
<1> QED
  BY <1>5, <1>6 DEF GatherEntry, Goto

\* At a line of the list.
LEMMA ReadLineAccepts ==
    ASSUME BundleTypes, Walk, ListRead, Intact, ReadLine
    PROVE  pc' # "done"
<1>1. pc = "line" /\ lines \in Seq(Lines) /\ sums.lines \in Seq(Lines)
      /\ Len(lines) + 1 <= Len(sums.lines)
  BY DEF ReadLine, BundleTypes
<1> DEFINE line == sums.lines[Len(lines) + 1]
<1>2. line \in Lines /\ Len(lines) + 1 \in DOMAIN sums.lines /\ line.fault \in {"none", "blank"}
  BY <1>1 DEF Intact
<1>3. PrefixOf(lines, sums.lines)
  BY DEF ListRead
<1>4. /\ Entries(lines) \subseteq Entries(sums.lines)
      /\ \A k \in Entries(lines) : lines[k] = sums.lines[k] /\ k <= Len(lines)
      /\ Cardinality(Entries(lines)) <= Cardinality(Entries(sums.lines))
      /\ Cardinality(Entries(lines)) \in Nat /\ Cardinality(Entries(sums.lines)) \in Nat
  BY <1>1, <1>3, PrefixEntries, EntryFacts
<1>5. ~(Cardinality(Entries(lines)) >= MaxEntries)
  <2>1. Cardinality(Entries(sums.lines)) < MaxEntries /\ MaxEntries \in Nat
    BY BundleAssumption DEF Intact
  <2> QED
    BY <1>4, <2>1
<1>6. LineError(line, Len(lines) + 1) = "none"
  <2>1. Len(sums.lines) <= MaxSumsLines /\ MaxSumsLines \in Nat
    BY BundleAssumption DEF Intact
  <2>2. ~(Len(lines) + 1 > MaxSumsLines)
    BY <1>1, <2>1
  <2> QED
    BY <1>2, <2>2 DEF LineError
<1>7. line.fault = "none" => EntryError(line) = "none"
  <2> SUFFICES ASSUME line.fault = "none" PROVE EntryError(line) = "none"
    OBVIOUS
  <2>1. Len(lines) + 1 \in Entries(sums.lines)
    BY <1>2 DEF Entries
  <2>2. line.name \notin CheckedNames
    <3> SUFFICES ASSUME NEW j \in Entries(lines), lines[j].name = line.name PROVE FALSE
      BY DEF CheckedNames
    <3>1. j \in Entries(sums.lines) /\ sums.lines[j].name = line.name /\ j <= Len(lines) /\ j \in Nat
      BY <1>4 DEF Entries
    <3>2. j = Len(lines) + 1
      BY <2>1, <3>1, IntactList
    <3> QED
      BY <1>1, <3>1, <3>2
  <2>3. line.name \in payloads
    <3>1. line.name \in NamesOf(sums.lines)
      BY <2>1 DEF NamesOf
    <3>2. line.name \in Present
      BY <3>1, IntactList
    <3> QED
      BY <1>1, <3>2 DEF Walk
  <2> QED
    BY <2>2, <2>3 DEF EntryError
<1> HIDE DEF line
<1> QED
  BY <1>2, <1>5, <1>6, <1>7 DEF ReadLine, Goto, line

\* The file of the last line is a regular one, in place.
LEMMA PendingFile ==
    ASSUME DeclaredInv, Walk, role = "verify", Pending
    PROVE  /\ handle.name \in Names /\ handle.name \in Present /\ disk[handle.name].kind = "file"
           /\ Len(lines) \in Entries(lines) /\ lines[Len(lines)].name = handle.name
<1>1. ListInv
  BY DEF DeclaredInv, Pending
<1>2. Len(lines) \in Entries(lines) /\ lines[Len(lines)].name = handle.name /\ handle.name \in payloads
  BY <1>1 DEF ListInv, CheckedNames
<1>3. handle.name \in Present /\ disk[handle.name].kind = "file"
  BY <1>2 DEF Walk
<1> QED
  BY <1>2, <1>3 DEF Present

\* At the file of a line.
LEMMA FileAccepts ==
    ASSUME DeclaredInv, Walk, role = "verify", Intact,
           CheckPath \/ OpenFile \/ (ReadChunk /\ Reading)
    PROVE  pc' # "done"
<1>1. Pending
  BY DEF CheckPath, OpenFile, ReadChunk, Pending
<1>2. handle.name \in Names /\ handle.name \in Present /\ disk[handle.name].kind = "file"
  BY <1>1, PendingFile
<1>3. CASE CheckPath
  BY <1>2, <1>3 DEF CheckPath, PathError, Goto
<1>4. CASE OpenFile
  <2>1. handle.name \in Retained => Len(disk[handle.name].content) <= Limit[handle.name]
    BY <1>2 DEF Intact
  <2>2. disk[handle.name].content \in Seq(Nat)
    BY <1>2 DEF DeclaredInv, BundleTypes, Contents
  <2>3. handle.name \in Retained => Limit[handle.name] \in Nat
    BY BundleAssumption
  <2>4. ~(handle.name \in Retained /\ Len(disk[handle.name].content) > Limit[handle.name])
    BY <2>1, <2>2, <2>3
  <2> QED
    BY <1>2, <1>4, <2>4 DEF OpenFile, Goto
<1>5. CASE ReadChunk /\ Reading
  <2>1. Visible = disk[handle.name].content /\ Len(handle.got) < Len(Visible)
        /\ (handle.name \in Retained => Len(disk[handle.name].content) <= Limit[handle.name])
    BY <1>5 DEF Reading, Visible, ReadChunk
  <2>2. disk[handle.name].content \in Seq(Nat) /\ handle.got \in Seq(Nat)
    BY <1>2 DEF DeclaredInv, BundleTypes, Contents, Handles
  <2>3. handle.name \in Retained => Limit[handle.name] \in Nat
    BY BundleAssumption
  <2>4. ~(handle.name \in Retained /\ Len(handle.got) + 1 > Limit[handle.name])
    BY <2>1, <2>2, <2>3
  <2> QED
    BY <1>5, <2>4 DEF ReadChunk, Goto
<1> QED
  BY <1>3, <1>4, <1>5

\* A file read to its end, undisturbed, was read as it is.
LEMMA ReadWhole ==
    ASSUME BundleTypes, Reading, EndOfFile, handle.name \in Names
    PROVE  handle.got = disk[handle.name].content
<1>1. Visible = disk[handle.name].content /\ Len(handle.got) >= Len(Visible)
      /\ PrefixOf(handle.got, disk[handle.name].content)
  BY DEF Reading, Visible, EndOfFile
<1>2. disk[handle.name].content \in Seq(Nat) /\ handle.got \in Seq(Nat)
  BY DEF BundleTypes, Contents, Handles
<1> QED
  BY <1>1, <1>2, WholePrefix

\* At the digest of a file.
LEMMA FinishEntryAccepts ==
    ASSUME DeclaredInv, Walk, ListRead, Reading, role = "verify", Intact, FinishEntry
    PROVE  pc' # "done"
<1>1. Pending /\ EndOfFile
  BY DEF FinishEntry, EndOfFile, Pending
<1>2. /\ handle.name \in Names /\ Len(lines) \in Entries(lines) /\ lines[Len(lines)].name = handle.name
  BY <1>1, PendingFile
<1>3. handle.got = disk[handle.name].content
  BY <1>1, <1>2, ReadWhole DEF DeclaredInv
<1>4. lines \in Seq(Lines) /\ sums.lines \in Seq(Lines) /\ BundleTypes
  BY DEF DeclaredInv, BundleTypes
<1>5. Len(lines) \in Entries(sums.lines) /\ lines[Len(lines)] = sums.lines[Len(lines)]
  BY <1>2, <1>4, PrefixEntries DEF ListRead
<1>6. lines[Len(lines)].digest = Sha256(disk[handle.name].content)
  BY <1>2, <1>4, <1>5, IntactList
<1> QED
  BY <1>3, <1>6 DEF FinishEntry, Goto

\* What was kept of a listed file is what it holds.
LEMMA KeptAsIs ==
    ASSUME DeclaredInv, ListRead, role = "verify", ~Pending, pc \notin {"start", "gather", "done"}
    PROVE  \A n \in CheckedNames :
              /\ digests[n] = Sha256(disk[n].content)
              /\ n \in Retained => retained[n] = disk[n].content /\ Len(disk[n].content) <= Limit[n]
<1>1. ListInv
  BY DEF DeclaredInv
<1> SUFFICES ASSUME NEW k \in Entries(lines)
             PROVE  LET n == lines[k].name
                    IN  /\ digests[n] = Sha256(disk[n].content)
                        /\ n \in Retained => /\ retained[n] = disk[n].content
                                             /\ Len(disk[n].content) <= Limit[n]
  BY DEF CheckedNames
<1>2. Matched(k) /\ Correct(k)
  BY <1>1 DEF ListInv, ListRead
<1> QED
  BY <1>2 DEF Matched, Correct, Sha256

\* The list read to its end, undisturbed, is the list of the bundle.
LEMMA ListIsWhole ==
    ASSUME BundleTypes, ListRead, Len(lines) >= Len(sums.lines)
    PROVE  lines = sums.lines /\ CheckedNames = NamesOf(sums.lines)
<1>1. lines \in Seq(Lines) /\ sums.lines \in Seq(Lines)
  BY DEF BundleTypes
<1>2. lines = sums.lines
  BY <1>1, WholePrefix DEF ListRead
<1> QED
  BY <1>2 DEF CheckedNames, NamesOf

\* At the end of the list.
LEMMA EndOfSumsAccepts ==
    ASSUME DeclaredInv, Walk, ListRead, role = "verify", Intact, EndOfSums
    PROVE  pc' # "done"
<1>1. pc = "line" /\ Len(lines) >= Len(sums.lines) /\ BundleTypes
  BY DEF EndOfSums, DeclaredInv
<1>2. CheckedNames = Present
  BY <1>1, ListIsWhole, IntactList
<1>3. Manifest \in Required /\ Manifest \in Retained
  BY BundleAssumption
<1>4. Manifest \in CheckedNames /\ Required \subseteq CheckedNames
  BY <1>2, <1>3 DEF Intact
<1>5. payloads \subseteq CheckedNames
  BY <1>1, <1>2 DEF Walk
<1>6. retained[Manifest] = disk[Manifest].content
  BY <1>1, <1>3, <1>4, KeptAsIs DEF Pending
<1>7. Parses(retained[Manifest])
  BY <1>2, <1>3, <1>4, <1>6 DEF Intact
<1>8. CloseError = "none"
  BY <1>4, <1>5, <1>7 DEF CloseError
<1> QED
  BY <1>8 DEF EndOfSums, Goto

\* The measurements are among the files listed.
LEMMA MeasurementsListed ==
    ASSUME DeclaredInv, Walk, ListClosed, pc \in Measuring
    PROVE  /\ Measurements \in CheckedNames /\ Measurements \in Present
           /\ disk[Measurements].kind = "file" /\ disk[Measurements].content \in Seq(Nat)
           /\ role = "verify" /\ ~Pending /\ payloads = Present /\ CheckedNames = Present
           /\ CheckedNames = NamesOf(sums.lines)
<1>1. Measurements \in CheckedNames /\ role = "verify" /\ ~Pending
  BY BundleAssumption DEF ListClosed, DeclaredInv, Measuring, Pending
<1>2. ListInv /\ payloads \subseteq CheckedNames
  BY <1>1 DEF DeclaredInv, Measuring
<1>3. payloads = Present /\ CheckedNames = payloads
  BY <1>2 DEF ListInv, Walk, Measuring
<1>4. disk[Measurements].kind = "file"
  BY <1>1, <1>3 DEF Walk
<1>5. disk[Measurements].content \in Seq(Nat)
  BY NamesFacts DEF DeclaredInv, BundleTypes, Contents
<1>6. CheckedNames = NamesOf(sums.lines)
  BY DEF CheckedNames, NamesOf, ListClosed
<1> QED
  BY <1>1, <1>3, <1>4, <1>5, <1>6

\* At the measurements.
LEMMA MeasurementsAccept ==
    ASSUME DeclaredInv, Walk, ListRead, ListClosed, Intact,
           \/ CheckMeasurements \/ OpenMeasurements
           \/ Measured /\ (MeasureLine \/ Conclude)
    PROVE  pc' = "done" => verdict' = "accepted"
<1>1. pc \in Measuring
  BY DEF CheckMeasurements, OpenMeasurements, MeasureLine, Conclude, Measuring
<1>2. /\ Measurements \in CheckedNames /\ Measurements \in Present
      /\ disk[Measurements].kind = "file" /\ disk[Measurements].content \in Seq(Nat)
      /\ role = "verify" /\ ~Pending /\ CheckedNames = Present
  BY <1>1, MeasurementsListed
<1> DEFINE content == disk[Measurements].content
<1>3. /\ Len(content) = MeasurementLines /\ MeasurementLines <= MeasurementsLimit
      /\ \A k \in 1..MeasurementLines : content[k] > 0
      /\ MeasurementLines \in Nat /\ MeasurementsLimit \in Nat
  BY BundleAssumption DEF Intact
<1>4. CASE CheckMeasurements
  BY <1>2, <1>4 DEF CheckMeasurements, PathError, Goto
<1>5. CASE OpenMeasurements
  <2>1. ~(Len(content) > MeasurementsLimit)
    BY <1>3
  <2> QED
    BY <1>2, <1>5, <2>1 DEF OpenMeasurements, Goto
<1>6. Measured => /\ Visible = content /\ PrefixOf(records, content) /\ records \in Seq(Nat)
                  /\ Len(records) \in Nat
  <2>1. records \in Seq(Nat)
    BY DEF DeclaredInv, BundleTypes, Contents
  <2>2. handle.name = Measurements
    BY DEF ListClosed
  <2> QED
    BY <2>1, <2>2 DEF Measured, Visible
<1> HIDE DEF content
<1>7. CASE Measured /\ MeasureLine
  <2>1. Len(records) + 1 <= Len(content)
    BY <1>6, <1>7 DEF MeasureLine
  <2>2. Len(records) + 1 \in 1..MeasurementLines
    BY <1>3, <1>6, <1>7, <2>1
  <2>3. content[Len(records) + 1] > 0
    BY <1>3, <2>2
  <2>4. Parses(<<Visible[Len(records) + 1]>>)
    BY <1>6, <1>7, <2>3 DEF Parses
  <2>5. ~(Len(records) + 1 > MeasurementsLimit \/ Len(records) + 1 > MeasurementLines)
    BY <1>3, <1>6, <1>7, <2>2
  <2> QED
    BY <1>7, <2>4, <2>5 DEF MeasureLine, Goto
<1>8. CASE Measured /\ Conclude
  <2>1. Len(records) >= Len(content)
    BY <1>6, <1>8 DEF Conclude
  <2>2. records = content
    BY <1>2, <1>6, <1>8, <2>1, WholePrefix DEF content
  <2>3. pc = "measure"
    BY <1>8 DEF Conclude
  <2>4. \A n \in CheckedNames :
           /\ digests[n] = Sha256(disk[n].content)
           /\ n \in Retained => retained[n] = disk[n].content
    BY <1>2, <2>3, KeptAsIs
  <2>5. MeasurementsError = "none"
    BY <1>2, <1>3, <2>2, <2>4 DEF MeasurementsError, content
  <2>6. ConsistentRecords(retained)
    <3>1. Manifest \in CheckedNames /\ Manifest \in Retained
      BY BundleAssumption DEF ListClosed
    <3>2. retained[Manifest] = disk[Manifest].content
      BY <2>4, <3>1
    <3>3. ASSUME NEW n \in Retained, n \in CheckedNames
          PROVE  Parses(retained[n]) /\ \A k \in 1..Len(retained[n]) : retained[n][k] = retained[Manifest][1]
      <4>1. retained[n] = disk[n].content /\ n \in Present
        BY <1>2, <2>4, <3>3
      <4> QED
        BY <3>2, <4>1 DEF Intact
    <3> QED
      BY <3>3 DEF ConsistentRecords
  <2> QED
    BY <1>8, <2>5, <2>6 DEF Conclude
<1> QED
  BY <1>4, <1>5, <1>7, <1>8

-----------------------------------------------------------------------------
(* An accepted bundle is intact                                            *)

\* Every comparison that Intact asks for was made, on what is still there.
LEMMA AcceptedIsIntact ==
    ASSUME DeclaredInv, Walk, ListRead, ListClosed, Measured, Conclude, verdict' = "accepted"
    PROVE  Intact
<1>1. pc = "measure" /\ pc \in Measuring /\ BundleTypes
  BY DEF Conclude, Measuring, DeclaredInv
<1>2. /\ Measurements \in CheckedNames /\ Measurements \in Present
      /\ disk[Measurements].kind = "file" /\ disk[Measurements].content \in Seq(Nat)
      /\ role = "verify" /\ ~Pending /\ payloads = Present /\ CheckedNames = Present
      /\ CheckedNames = NamesOf(sums.lines)
  BY <1>1, MeasurementsListed
<1>3. MeasurementsError = "none" /\ ConsistentRecords(retained)
  BY DEF Conclude, MeasurementsError, Refuse
<1>4. \A n \in CheckedNames :
         /\ digests[n] = Sha256(disk[n].content)
         /\ n \in Retained => retained[n] = disk[n].content /\ Len(disk[n].content) <= Limit[n]
  BY <1>1, <1>2, KeptAsIs
<1>5. Manifest \in CheckedNames /\ Manifest \in Retained /\ Required \subseteq Present
  BY <1>2, BundleAssumption DEF ListClosed
<1>6. retained[Manifest] = disk[Manifest].content
  BY <1>4, <1>5
<1>7. disk[Manifest].content # <<>>
  <2>1. Len(retained[Manifest]) > 0
    BY DEF ListClosed, Parses
  <2> QED
    BY <1>6, <2>1
<1>8. sums.exists /\ Len(sums.lines) <= MaxSumsLines /\ lines = sums.lines
  BY DEF ListRead, ListClosed
<1>9. \A k \in DOMAIN sums.lines : sums.lines[k].fault \in {"none", "blank"}
  <2>1. DOMAIN sums.lines = 1..Len(sums.lines)
    BY <1>1 DEF BundleTypes
  <2> QED
    BY <1>8, <2>1 DEF ListRead
<1>10. ListInv
  BY <1>1, <1>2 DEF DeclaredInv
<1>11. Cardinality(Entries(sums.lines)) = Cardinality(Present)
  <2>1. sums.lines \in Seq(Lines)
    BY <1>1 DEF BundleTypes
  <2>2. \A j, k \in Entries(sums.lines) : sums.lines[j].name = sums.lines[k].name => j = k
    BY <1>8, <1>10 DEF ListInv, EntriesUnique
  <2> QED
    BY <1>2, <2>1, <2>2, NamesCounted
<1>12. Cardinality(Present) < MaxEntries
  <2>1. listing = {} /\ visited = Cardinality(Listed \ listing) /\ visited <= MaxEntries
    BY <1>1 DEF Walk
  <2>2. Listed \ listing = Listed
    BY <2>1
  <2>3. Cardinality(Listed) = Cardinality(Present) + 1 /\ Cardinality(Present) \in Nat
    BY <1>1, <1>8, ListedFacts
  <2> QED
    BY <2>1, <2>2, <2>3, BundleAssumption
<1>13. ASSUME NEW n \in Present
       PROVE  /\ disk[n].kind = "file"
              /\ \E k \in Entries(sums.lines) :
                    sums.lines[k].name = n /\ sums.lines[k].digest = Sha256(disk[n].content)
              /\ n \in Retained => /\ Len(disk[n].content) <= Limit[n]
                                   /\ Parses(disk[n].content)
                                   /\ \A k \in 1..Len(disk[n].content) :
                                         disk[n].content[k] = disk[Manifest].content[1]
  <2>1. disk[n].kind = "file"
    BY <1>2 DEF Walk
  <2>2. PICK k \in Entries(lines) : lines[k].name = n
    BY <1>2 DEF CheckedNames
  <2>3. lines[k].digest = Sha256(disk[n].content)
    BY <1>2, <2>2 DEF ListRead, Correct
  <2>4. n \in Retained => /\ retained[n] = disk[n].content /\ Len(disk[n].content) <= Limit[n]
                          /\ Parses(retained[n])
                          /\ \A i \in 1..Len(retained[n]) : retained[n][i] = retained[Manifest][1]
    BY <1>2, <1>3, <1>4 DEF ConsistentRecords
  <2> QED
    BY <1>6, <1>8, <2>1, <2>2, <2>3, <2>4
<1>14. records = disk[Measurements].content /\ Len(records) = MeasurementLines
  <2>1. handle.name = Measurements
    BY DEF ListClosed
  <2>2. Len(records) >= Len(disk[Measurements].content) /\ PrefixOf(records, disk[Measurements].content)
    BY <2>1 DEF Measured, Visible, Conclude
  <2>3. records \in Seq(Nat)
    BY <1>1 DEF BundleTypes, Contents
  <2> QED
    BY <1>2, <1>3, <2>2, <2>3, WholePrefix DEF MeasurementsError
<1>15. MeasurementLines <= MeasurementsLimit /\ \A k \in 1..MeasurementLines : records[k] > 0
  BY <1>14 DEF Measured
<1> QED
  BY <1>5, <1>7, <1>8, <1>9, <1>11, <1>12, <1>13, <1>14, <1>15 DEF Intact

-----------------------------------------------------------------------------
(* The reader stays undisturbed                                            *)

\* The walk is over once the listing is empty.
LEMMA WalkKept ==
    ASSUME Walk, pc # "gather", UNCHANGED <<disk, sums, listing, payloads, visited>>
    PROVE  Walk'
<1>1. Present' = Present /\ Listed' = Listed
  BY SameWorld
<1> QED
  BY <1>1 DEF Walk

\* What was read of the list stays true while the reader is elsewhere.
LEMMA ListKept ==
    ASSUME ListRead, ~Pending \/ Pending', UNCHANGED <<disk, sums, lines, role>>
    PROVE  ListRead'
BY DEF ListRead, Correct, Entries, PrefixOf

\* An entry of the directory is visited.
LEMMA GatherWalks ==
    ASSUME BundleTypes, Walk, NEW e \in Names \cup {"SHA256SUMS"}, GatherEntry(e), pc' # "done"
    PROVE  Walk' /\ pc' = "gather"
<1>1. /\ e \in listing /\ listing' = listing \ {e} /\ visited' = visited + 1
      /\ payloads' = payloads \cup ({e} \ {"SHA256SUMS"})
      /\ ~(visited + 1 > MaxEntries) /\ pc' = "gather" /\ UNCHANGED <<disk, sums>>
      /\ e # "SHA256SUMS" => disk[e].kind = "file"
  BY DEF GatherEntry, Refuse, Goto, world
<1>2. Present' = Present /\ Listed' = Listed
  BY <1>1, SameWorld
<1>3. visited' = Cardinality(Listed \ listing') /\ visited \in Nat
  BY <1>1, VisitedCount
<1>4. visited' <= MaxEntries
  BY <1>1, <1>3, BundleAssumption
<1>5. /\ \A x \in Listed : x = "SHA256SUMS" \/ x \in Present
      /\ "SHA256SUMS" \notin Present /\ Present \subseteq Listed
  BY ListedFacts
<1>6. listing \subseteq Listed /\ payloads = Present \ listing
      /\ \A n \in payloads : disk[n].kind = "file"
  BY DEF Walk
<1>7. payloads' = Present \ listing' /\ listing' \subseteq Listed
  BY <1>1, <1>5, <1>6
<1>8. \A n \in payloads' : disk'[n].kind = "file"
  BY <1>1, <1>6
<1> QED
  BY <1>1, <1>2, <1>3, <1>4, <1>7, <1>8 DEF Walk

\* A file is opened and read.
LEMMA FileReads ==
    ASSUME BundleTypes, handle.name \in Names,
           OpenFile \/ (ReadChunk /\ Reading), pc' # "done"
    PROVE  Reading'
<1>1. handle \in Handles /\ disk[handle.name].content \in Seq(Nat) /\ handle.got \in Seq(Nat)
  BY DEF BundleTypes, Handles, Contents
<1>2. handle.name \in Retained => Limit[handle.name] \in Nat
  BY BundleAssumption
<1>3. CASE OpenFile
  <2>1. /\ handle' = [handle EXCEPT !.live = TRUE, !.got = <<>>] /\ UNCHANGED <<disk, role>>
        /\ ~(role = "verify" /\ handle.name \in Retained
              /\ Len(disk[handle.name].content) > Limit[handle.name])
    BY <1>3 DEF OpenFile, Refuse, Goto, world, gathered
  <2>2. handle'.name = handle.name /\ handle'.live /\ handle'.got = <<>>
    BY <1>1, <2>1 DEF Handles
  <2>3. role = "verify" /\ handle.name \in Retained => Len(disk[handle.name].content) <= Limit[handle.name]
    BY <1>1, <1>2, <2>1
  <2>4. PrefixOf(<<>>, disk[handle.name].content)
    BY <1>1 DEF PrefixOf
  <2> QED
    BY <2>1, <2>2, <2>3, <2>4 DEF Reading
<1>4. CASE ReadChunk /\ Reading
  <2>1. handle.live /\ Visible = disk[handle.name].content /\ Len(handle.got) < Len(Visible)
        /\ PrefixOf(handle.got, disk[handle.name].content)
        /\ (role = "verify" /\ handle.name \in Retained
              => Len(disk[handle.name].content) <= Limit[handle.name])
    BY <1>4 DEF Reading, Visible, ReadChunk
  <2>2. handle' = [handle EXCEPT !.got = Append(@, Visible[Len(@) + 1])] /\ UNCHANGED <<disk, role>>
    BY <1>4 DEF ReadChunk, Refuse, Goto, world, gathered
  <2>3. handle'.name = handle.name /\ handle'.live = handle.live
        /\ handle'.got = Append(handle.got, disk[handle.name].content[Len(handle.got) + 1])
    BY <1>1, <2>1, <2>2 DEF Handles
  <2>4. PrefixOf(handle'.got, disk[handle.name].content)
    BY <1>1, <2>1, <2>3, LongerPrefix
  <2> QED
    BY <2>1, <2>2, <2>3, <2>4 DEF Reading
<1> QED
  BY <1>3, <1>4

\* A line of the list is read.
LEMMA LineReads ==
    ASSUME BundleTypes, ListRead, ReadLine, pc' # "done"
    PROVE  ListRead' /\ UNCHANGED <<disk, sums, listing, payloads, visited, role>>
           /\ pc' \in {"line", "checkPath"}
<1> DEFINE line == sums.lines[Len(lines) + 1]
<1>1. lines \in Seq(Lines) /\ sums.lines \in Seq(Lines) /\ Len(lines) + 1 <= Len(sums.lines)
  BY DEF ReadLine, BundleTypes
<1>2. line \in Lines
  BY <1>1
<1>3. /\ pc = "line" /\ lines' = Append(lines, line)
      /\ UNCHANGED <<disk, sums, listing, payloads, visited, role>>
      /\ \/ line.fault = "blank" /\ pc' = "line"
         \/ EntryError(line) = "none" /\ pc' = "checkPath"
  BY DEF ReadLine, Refuse, Goto, world, gathered
<1>4. line.fault \in {"none", "blank"} /\ (line.fault = "none" => pc' = "checkPath")
  BY <1>3 DEF EntryError
<1>5. PrefixOf(lines', sums.lines)
  BY <1>1, <1>3, LongerPrefix DEF ListRead
<1> HIDE DEF line
<1>6. /\ Len(lines') = Len(lines) + 1
      /\ lines'[Len(lines')] = line /\ \A k \in DOMAIN lines : lines'[k] = lines[k]
      /\ Entries(lines') = Entries(lines) \cup (IF line.fault = "none" THEN {Len(lines')} ELSE {})
      /\ \A k \in Entries(lines) : k \in DOMAIN lines /\ k # Len(lines')
  BY <1>2, <1>3, EntryAdded
<1>7. \A k \in Entries(lines) : Correct(k)
  BY <1>3 DEF ListRead, Pending
<1>8. \A k \in Entries(lines) : Correct(k)'
  BY <1>3, <1>6, <1>7 DEF Correct
<1>9. \A k \in Entries(lines') : (Pending' /\ k = Len(lines')) \/ Correct(k)'
  BY <1>4, <1>6, <1>8 DEF Pending
<1>10. \A k \in 1..Len(lines') : lines'[k].fault \in {"none", "blank"}
  <2>1. DOMAIN lines = 1..Len(lines) /\ Len(lines) \in Nat
    BY <1>1
  <2>2. \A k \in 1..Len(lines') : k \in DOMAIN lines \/ k = Len(lines')
    BY <1>6, <2>1
  <2> QED
    BY <1>4, <1>6, <2>1, <2>2 DEF ListRead
<1> QED
  BY <1>3, <1>5, <1>9, <1>10 DEF ListRead

\* The file of a line has the digest of the line.
LEMMA EntryFinishes ==
    ASSUME DeclaredInv, Walk, ListRead, Reading, FinishEntry, pc' # "done"
    PROVE  ListRead' /\ UNCHANGED <<disk, sums, listing, payloads, visited, role>> /\ pc' = "line"
<1>1. /\ role = "verify" /\ EndOfFile /\ pc = "read" /\ pc' = "line"
      /\ lines[Len(lines)].digest = Sha256(handle.got)
      /\ UNCHANGED <<disk, sums, listing, payloads, visited, role, lines>>
  BY DEF FinishEntry, EndOfFile, Refuse, Goto, world, gathered
<1>2. /\ handle.name \in Names /\ Len(lines) \in Entries(lines) /\ lines[Len(lines)].name = handle.name
  BY <1>1, PendingFile DEF Pending
<1>3. handle.got = disk[handle.name].content
  BY <1>1, <1>2, ReadWhole DEF DeclaredInv
<1>4. Correct(Len(lines))
  BY <1>1, <1>2, <1>3 DEF Correct, Reading
<1>5. \A k \in Entries(lines) : Correct(k)
  BY <1>4 DEF ListRead
<1>6. \A k \in Entries(lines) : Correct(k)'
  BY <1>1, <1>5 DEF Correct
<1> QED
  BY <1>1, <1>6 DEF ListRead, PrefixOf

\* The end of the list.
LEMMA ListCloses ==
    ASSUME DeclaredInv, ListRead, EndOfSums, pc' # "done"
    PROVE  /\ ListRead' /\ ListClosed' /\ pc' = "checkMeasurements"
           /\ UNCHANGED <<disk, sums, listing, payloads, visited, role>>
<1>1. /\ pc = "line" /\ Len(lines) >= Len(sums.lines) /\ CloseError = "none"
      /\ handle' = [NoHandle EXCEPT !.name = Measurements] /\ pc' = "checkMeasurements"
      /\ UNCHANGED <<disk, sums, listing, payloads, visited, role, lines, retained>>
  BY DEF EndOfSums, Refuse, Goto, world, gathered, results
<1>2. lines = sums.lines
  BY <1>1, ListIsWhole DEF DeclaredInv
<1>3. Required \subseteq CheckedNames /\ Parses(retained[Manifest])
  BY <1>1 DEF CloseError
<1>4. handle'.name = Measurements
  BY <1>1 DEF NoHandle
<1>5. ListRead'
  BY <1>1, ListKept DEF Pending
<1>6. ListClosed'
  BY <1>1, <1>2, <1>3, <1>4 DEF ListClosed, CheckedNames
<1> QED
  BY <1>1, <1>5, <1>6

\* The second look at the measurements.
LEMMA MeasurementsRead ==
    ASSUME BundleTypes, ListClosed, pc' # "done", records = <<>> \/ MeasureLine,
           CheckMeasurements \/ OpenMeasurements \/ (Measured /\ MeasureLine)
    PROVE  /\ ListClosed' /\ pc' \in Measuring /\ (pc' = "measure" => Measured') /\ pc \in Measuring
           /\ UNCHANGED <<disk, sums, listing, payloads, visited, role, lines>>
<1>1. handle \in Handles /\ handle.name = Measurements /\ disk[Measurements].content \in Seq(Nat)
      /\ MeasurementsLimit \in Nat
  BY NamesFacts, BundleAssumption DEF BundleTypes, ListClosed, Contents
<1>2. CASE CheckMeasurements
  <2>1. /\ pc = "checkMeasurements" /\ pc' = "openMeasurements"
        /\ UNCHANGED <<disk, sums, listing, payloads, visited, role, lines, handle, retained>>
    BY <1>2 DEF CheckMeasurements, Refuse, Goto, world, gathered, results
  <2> QED
    BY <2>1 DEF ListClosed, CheckedNames, Measuring
<1>3. CASE OpenMeasurements
  <2>1. /\ pc = "openMeasurements" /\ pc' = "measure" /\ handle' = [handle EXCEPT !.live = TRUE]
        /\ ~(Len(disk[Measurements].content) > MeasurementsLimit)
        /\ UNCHANGED <<disk, sums, listing, payloads, visited, role, lines, retained, records>>
    BY <1>3 DEF OpenMeasurements, Refuse, Goto, world, gathered, results
  <2>2. handle'.name = Measurements /\ handle'.live
    BY <1>1, <2>1 DEF Handles
  <2>3. records' = <<>>
    BY <1>3, <2>1 DEF MeasureLine
  <2>4. PrefixOf(<<>>, disk[Measurements].content)
    BY <1>1 DEF PrefixOf
  <2>5. Len(disk[Measurements].content) <= MeasurementsLimit
    BY <1>1, <2>1
  <2>6. Measured'
    BY <2>1, <2>2, <2>3, <2>4, <2>5 DEF Measured
  <2> QED
    BY <2>1, <2>2, <2>6 DEF ListClosed, CheckedNames, Measuring
<1>4. CASE Measured /\ MeasureLine
  <2>1. Visible = disk[Measurements].content /\ PrefixOf(records, disk[Measurements].content)
        /\ records \in Seq(Nat) /\ \A k \in 1..Len(records) : records[k] > 0
    BY <1>1, <1>4 DEF Measured, Visible, BundleTypes, Contents
  <2> DEFINE x == disk[Measurements].content[Len(records) + 1]
  <2>2. /\ pc = "measure" /\ pc' = "measure" /\ records' = Append(records, x)
        /\ Len(records) + 1 <= Len(disk[Measurements].content) /\ Parses(<<x>>)
        /\ UNCHANGED <<disk, sums, listing, payloads, visited, role, lines, handle, retained>>
    BY <1>4, <2>1 DEF MeasureLine, Refuse, Goto, world, gathered, results
  <2>3. PrefixOf(records', disk[Measurements].content)
    BY <1>1, <2>1, <2>2, LongerPrefix
  <2>4. x \in Nat /\ x > 0
    <3>1. x \in Nat
      BY <1>1, <2>1, <2>2
    <3>2. 1 \in 1..Len(<<x>>) /\ <<x>>[1] = x
      OBVIOUS
    <3> QED
      BY <2>2, <3>1, <3>2 DEF Parses
  <2> HIDE DEF x
  <2>5. \A k \in 1..Len(records') : records'[k] > 0
    <3>1. Len(records') = Len(records) + 1 /\ records'[Len(records) + 1] = x
          /\ \A k \in 1..Len(records) : records'[k] = records[k]
      BY <2>1, <2>2, <2>4
    <3> QED
      BY <2>1, <2>4, <3>1
  <2>6. Measured'
    BY <1>4, <2>2, <2>3, <2>5 DEF Measured
  <2> QED
    BY <2>2, <2>6 DEF ListClosed, CheckedNames, Measuring
<1> QED
  BY <1>2, <1>3, <1>4

\* A step of the reader that refuses nothing keeps it undisturbed.
LEMMA UndisturbedStep ==
    ASSUME QuietInv, Steady, Verifier, pc' # "done"
    PROVE  Undisturbed'
<1>1. DeclaredInv /\ BundleTypes /\ Undisturbed
  BY DEF QuietInv, DeclaredInv
<1>2. pc # "done"
  BY DEF Verifier, Start, Gathered, GatherEntry, CheckPath, OpenFile, ReadChunk, HashNext,
     WriteLine, RenameSums, OpenSums, ReadLine, FinishEntry, EndOfFile, EndOfSums,
     CheckMeasurements, OpenMeasurements, MeasureLine, Conclude
<1>3. pc # "start" => Walk
  BY <1>1, <1>2 DEF Undisturbed
<1> DEFINE Still == UNCHANGED <<disk, sums, listing, payloads, visited, role>>
<1>4. ASSUME Still, pc \notin {"start", "gather"} PROVE Walk'
  BY <1>3, <1>4, WalkKept
<1>5. handle.name \in Names /\ role \in {"finalize", "verify"}
  BY <1>1 DEF BundleTypes, Handles
<1>6. CASE Start
  <2>1. /\ listing' = Listed /\ visited' = 0 /\ payloads' = {} /\ pc' = "gather"
        /\ UNCHANGED <<disk, sums, role>>
    BY <1>6 DEF Start, Refuse, Goto, world, Listed
  <2>2. Present' = Present /\ Listed' = Listed /\ Present \subseteq Listed
    BY <1>1, <2>1, SameWorld, ListedFacts
  <2>3. Cardinality(Listed \ listing') = 0
    <3>1. Listed \ listing' = {}
      BY <2>1
    <3> QED
      BY <3>1, FS_EmptySet
  <2>4. Walk'
    BY <2>1, <2>2, <2>3, BundleAssumption DEF Walk
  <2> QED
    BY <2>1, <2>4 DEF Undisturbed, Measuring
<1>7. ASSUME NEW e \in Names \cup {"SHA256SUMS"}, GatherEntry(e) PROVE Undisturbed'
  <2>1. Walk' /\ pc' = "gather"
    BY <1>1, <1>3, <1>7, GatherWalks DEF GatherEntry
  <2> QED
    BY <2>1 DEF Undisturbed, Measuring
<1>8. CASE Gathered
  <2>1. pc = "gather" /\ listing = {} /\ Still
        /\ pc' = (IF role = "finalize" THEN "hashNext" ELSE "openSums")
    BY <1>8 DEF Gathered, Goto, world, gathered
  <2>2. Present' = Present /\ Listed' = Listed
    BY <2>1, SameWorld
  <2>3. Walk'
    BY <1>3, <2>1, <2>2 DEF Walk
  <2> QED
    BY <1>5, <2>1, <2>3 DEF Undisturbed, Measuring
<1>9. CASE CheckPath
  <2>1. pc = "checkPath" /\ pc' = "open" /\ Still /\ UNCHANGED lines
    BY <1>9 DEF CheckPath, Refuse, Goto, world, gathered
  <2>2. role = "verify" => ListRead
    BY <1>1, <2>1 DEF Undisturbed
  <2>3. role = "verify" => ListRead'
    BY <2>1, <2>2, ListKept DEF Pending
  <2> QED
    BY <1>4, <2>1, <2>3 DEF Undisturbed, Measuring
<1>10. CASE OpenFile \/ ReadChunk
  <2>1. pc \in {"open", "read"} /\ pc' = "read" /\ Still /\ UNCHANGED lines
    BY <1>10 DEF OpenFile, ReadChunk, Refuse, Goto, world, gathered
  <2>2. (role = "verify" => ListRead) /\ (ReadChunk => Reading)
    BY <1>1, <2>1 DEF Undisturbed, ReadChunk
  <2>3. role = "verify" => ListRead'
    BY <2>1, <2>2, ListKept DEF Pending
  <2>4. Reading'
    BY <1>1, <1>5, <1>10, <2>2, FileReads
  <2> QED
    BY <1>4, <2>1, <2>3, <2>4 DEF Undisturbed, Measuring
<1>11. CASE HashNext \/ WriteLine
  <2>1. pc \in {"hashNext", "read"} /\ pc' \in {"hashNext", "checkPath"} /\ Still /\ role = "finalize"
    BY <1>1, <1>11 DEF HashNext, WriteLine, EndOfFile, Goto, world, gathered, DeclaredInv
  <2> QED
    BY <1>4, <2>1 DEF Undisturbed, Measuring
<1>12. CASE RenameSums
  BY <1>12 DEF RenameSums, Undisturbed, Measuring
<1>13. CASE OpenSums
  <2>1. /\ pc = "openSums" /\ pc' = "line" /\ Still /\ UNCHANGED lines /\ sums.exists
        /\ ~(Len(sums.lines) > MaxSumsLines)
    BY <1>13 DEF OpenSums, Refuse, Goto, world, gathered
  <2>2. lines = <<>> /\ sums.lines \in Seq(Lines) /\ MaxSumsLines \in Nat
    BY <1>1, <2>1, BundleAssumption DEF QuietInv, BundleTypes
  <2>3. Entries(lines) = {} /\ PrefixOf(lines, sums.lines) /\ Len(lines) = 0
    BY <2>2 DEF Entries, PrefixOf
  <2>4. Len(sums.lines) <= MaxSumsLines
    BY <2>1, <2>2
  <2>5. ListRead
    BY <2>1, <2>3, <2>4 DEF ListRead
  <2>6. ListRead'
    BY <2>1, <2>5, ListKept DEF Pending
  <2> QED
    BY <1>4, <2>1, <2>6 DEF Undisturbed, Measuring
<1>14. CASE ReadLine
  <2>1. pc = "line" /\ role = "verify" /\ ListRead
    BY <1>1, <1>14 DEF ReadLine, DeclaredInv, Undisturbed
  <2>2. ListRead' /\ Still /\ pc' \in {"line", "checkPath"}
    BY <1>1, <1>14, <2>1, LineReads
  <2> QED
    BY <1>4, <2>1, <2>2 DEF Undisturbed, Measuring
<1>15. CASE FinishEntry
  <2>1. pc = "read" /\ role = "verify" /\ ListRead /\ Reading
    BY <1>1, <1>15 DEF FinishEntry, EndOfFile, Undisturbed
  <2>2. ListRead' /\ Still /\ pc' = "line"
    BY <1>1, <1>3, <1>15, <2>1, EntryFinishes
  <2> QED
    BY <1>4, <2>1, <2>2 DEF Undisturbed, Measuring
<1>16. CASE EndOfSums
  <2>1. pc = "line" /\ role = "verify" /\ ListRead
    BY <1>1, <1>16 DEF EndOfSums, DeclaredInv, Undisturbed
  <2>2. ListRead' /\ ListClosed' /\ Still /\ pc' = "checkMeasurements"
    BY <1>1, <1>16, <2>1, ListCloses
  <2> QED
    BY <1>4, <2>1, <2>2 DEF Undisturbed, Measuring
<1>17. CASE CheckMeasurements \/ OpenMeasurements \/ MeasureLine
  <2>1. pc \in Measuring /\ role = "verify" /\ ListRead /\ ListClosed /\ (MeasureLine => Measured)
        /\ (records = <<>> \/ MeasureLine)
    BY <1>1, <1>17 DEF CheckMeasurements, OpenMeasurements, MeasureLine, DeclaredInv, Undisturbed, Measuring, QuietInv
  <2>2. /\ ListClosed' /\ pc' \in Measuring /\ (pc' = "measure" => Measured')
        /\ UNCHANGED <<disk, sums, listing, payloads, visited, role, lines>>
    BY <1>1, <1>17, <2>1, MeasurementsRead
  <2>3. ListRead'
    BY <2>1, <2>2, ListKept DEF Pending, Measuring
  <2> QED
    BY <1>4, <2>1, <2>2, <2>3 DEF Undisturbed, Measuring
<1>18. CASE Conclude
  BY <1>18 DEF Conclude, Refuse
<1> QED
  BY <1>6, <1>7, <1>8, <1>9, <1>10, <1>11, <1>12, <1>13, <1>14, <1>15, <1>16, <1>17, <1>18 DEF Verifier

\* A step that ends the verification reaches the right verdict.
LEMMA VerdictStep ==
    ASSUME QuietInv, Steady, Verifier, pc' = "done", role = "verify"
    PROVE  (verdict' = "accepted" <=> Intact) /\ UNCHANGED <<disk, sums, role>>
<1>1. DeclaredInv /\ BundleTypes /\ Undisturbed
  BY DEF QuietInv, DeclaredInv
<1>2. pc # "done" /\ verdict # "accepted"
  <2>1. pc # "done"
    BY DEF Verifier, Start, Gathered, GatherEntry, CheckPath, OpenFile, ReadChunk, HashNext,
       WriteLine, RenameSums, OpenSums, ReadLine, FinishEntry, EndOfFile, EndOfSums,
       CheckMeasurements, OpenMeasurements, MeasureLine, Conclude
  <2> QED
    BY <1>1, <2>1 DEF DeclaredInv
<1>3. pc # "start" => Walk
  BY <1>1, <1>2 DEF Undisturbed
<1>4. UNCHANGED <<disk, sums, role>>
  BY DEF Verifier, Start, Gathered, GatherEntry, CheckPath, OpenFile, ReadChunk, HashNext,
     WriteLine, RenameSums, OpenSums, ReadLine, FinishEntry, EndOfFile, EndOfSums,
     CheckMeasurements, OpenMeasurements, MeasureLine, Conclude, Refuse, Goto, world, gathered
<1>5. ASSUME verdict' = "accepted" PROVE Intact
  <2>1. Conclude /\ pc = "measure"
    BY <1>1, <1>2, <1>5, OneAcceptance
  <2>2. Walk /\ ListRead /\ ListClosed /\ Measured
    BY <1>1, <1>3, <2>1 DEF Undisturbed, Measuring
  <2> QED
    BY <1>1, <1>5, <2>1, <2>2, AcceptedIsIntact
<1>6. ASSUME Intact PROVE verdict' = "accepted"
  <2>1. CASE Start
    BY <2>1 DEF Start, Goto
  <2>2. ASSUME NEW e \in Names \cup {"SHA256SUMS"}, GatherEntry(e) PROVE FALSE
    BY <1>1, <1>3, <1>6, <2>2, GatherAccepts DEF GatherEntry
  <2>3. CASE Gathered \/ HashNext \/ WriteLine \/ RenameSums
    BY <2>3 DEF Gathered, HashNext, WriteLine, RenameSums, Goto
  <2>4. CASE CheckPath \/ OpenFile \/ ReadChunk
    <3>1. Walk /\ (ReadChunk => Reading)
      BY <1>1, <1>3, <2>4 DEF CheckPath, OpenFile, ReadChunk, Undisturbed
    <3> QED
      BY <1>1, <1>6, <2>4, <3>1, FileAccepts
  <2>5. CASE OpenSums
    <3>1. sums.exists /\ Len(sums.lines) <= MaxSumsLines /\ MaxSumsLines \in Nat /\ sums.lines \in Seq(Lines)
      BY <1>1, <1>6, BundleAssumption DEF Intact, BundleTypes
    <3>2. ~(Len(sums.lines) > MaxSumsLines)
      BY <3>1
    <3> QED
      BY <2>5, <3>1, <3>2 DEF OpenSums, Goto
  <2>6. CASE ReadLine
    <3>1. Walk /\ ListRead
      BY <1>1, <1>3, <2>6 DEF ReadLine, Undisturbed
    <3> QED
      BY <1>1, <1>6, <2>6, <3>1, ReadLineAccepts
  <2>7. CASE FinishEntry
    <3>1. Walk /\ ListRead /\ Reading
      BY <1>1, <1>3, <2>7 DEF FinishEntry, EndOfFile, Undisturbed
    <3> QED
      BY <1>1, <1>6, <2>7, <3>1, FinishEntryAccepts
  <2>8. CASE EndOfSums
    <3>1. Walk /\ ListRead
      BY <1>1, <1>3, <2>8 DEF EndOfSums, Undisturbed
    <3> QED
      BY <1>1, <1>6, <2>8, <3>1, EndOfSumsAccepts
  <2>9. CASE CheckMeasurements \/ OpenMeasurements \/ MeasureLine \/ Conclude
    <3>1. pc \in Measuring /\ (MeasureLine \/ Conclude => pc = "measure")
      BY <2>9 DEF CheckMeasurements, OpenMeasurements, MeasureLine, Conclude, Measuring
    <3>2. Walk /\ ListRead /\ ListClosed /\ (MeasureLine \/ Conclude => Measured)
      BY <1>1, <1>3, <3>1 DEF Undisturbed, Measuring
    <3> QED
      BY <1>1, <1>6, <2>9, <3>2, MeasurementsAccept
  <2> QED
    BY <2>1, <2>2, <2>3, <2>4, <2>5, <2>6, <2>7, <2>8, <2>9 DEF Verifier
<1> QED
  BY <1>4, <1>5, <1>6

\* Every step keeps what an undisturbed reader knows.
LEMMA QuietStep ==
    ASSUME QuietInv, [Next]_vars
    PROVE  QuietInv'
<1>1. DeclaredInv' /\ BundleTypes
  BY DeclaredStep DEF QuietInv, DeclaredInv
<1>2. CASE UNCHANGED vars
  <2>1. Undisturbed' <=> Undisturbed
    <3>1. Present' = Present /\ Listed' = Listed /\ (Intact' <=> Intact)
      BY <1>2, SameWorld DEF vars
    <3> USE <1>2 DEF vars, results
    <3>2. (Walk' <=> Walk) /\ (Reading' <=> Reading) /\ (ListRead' <=> ListRead)
      BY <3>1 DEF Walk, Reading, ListRead, Correct, Pending, Entries, PrefixOf
    <3>3. (ListClosed' <=> ListClosed) /\ (Measured' <=> Measured)
      BY DEF ListClosed, Measured, CheckedNames, PrefixOf
    <3> QED
      BY <3>1, <3>2, <3>3 DEF Undisturbed
  <2>2. (Steady' <=> Steady) /\ UNCHANGED <<changes, pc, lines, records>>
    BY <1>2 DEF vars, Steady, results
  <2> QED
    BY <1>1, <2>1, <2>2 DEF QuietInv
<1>3. CASE OtherProgram
  <2>1. /\ changes' = changes + 1 /\ pc # "done" /\ UNCHANGED <<pc, role, lines, records>>
        /\ dirty' = (dirty \/ (role = "verify" /\ pc # "start"))
    BY <1>3 DEF OtherProgram, ChangeSums, ChangeInPlace, Replace, MayChange, Changed, results
  <2>2. changes \in Nat /\ changes' \in Nat /\ changes' # 0
    BY <2>1 DEF QuietInv
  <2>3. Steady' => pc' = "start"
    BY <1>1, <2>1, <2>2 DEF Steady, BundleTypes
  <2>4. pc' = "start" => Undisturbed'
    BY DEF Undisturbed, Measuring
  <2> QED
    BY <1>1, <2>1, <2>2, <2>3, <2>4 DEF QuietInv
<1>4. CASE Verifier
  <2>1. UNCHANGED <<changes, dirty>> /\ pc # "done" /\ (role' = role \/ pc' = "start")
    BY <1>4 DEF Verifier, Start, Gathered, GatherEntry, CheckPath, OpenFile, ReadChunk, HashNext,
       WriteLine, RenameSums, OpenSums, ReadLine, FinishEntry, EndOfFile, EndOfSums,
       CheckMeasurements, OpenMeasurements, MeasureLine, Conclude, Refuse, Goto, world, gathered
  <2>2. pc' \notin {"measure", "done"} => records' = <<>>
    <3> SUFFICES ASSUME pc' \notin {"measure", "done"} PROVE records' = <<>>
      OBVIOUS
    <3>1. pc # "measure" /\ UNCHANGED records
      BY <1>4 DEF Verifier, Start, Gathered, GatherEntry, CheckPath, OpenFile, ReadChunk, HashNext,
         WriteLine, RenameSums, OpenSums, ReadLine, FinishEntry, EndOfFile, EndOfSums,
         CheckMeasurements, OpenMeasurements, MeasureLine, Conclude, Refuse, Goto, results
    <3> QED
      BY <2>1, <3>1 DEF QuietInv
  <2>3. pc' = "openSums" => lines' = <<>>
    <3> SUFFICES ASSUME pc' = "openSums" PROVE lines' = <<>>
      OBVIOUS
    <3>1. Gathered
      BY <1>4 DEF Verifier, Start, Gathered, GatherEntry, CheckPath, OpenFile, ReadChunk, HashNext,
         WriteLine, RenameSums, OpenSums, ReadLine, FinishEntry, EndOfFile, EndOfSums,
         CheckMeasurements, OpenMeasurements, MeasureLine, Conclude, Refuse, Goto
    <3> QED
      BY <1>1, <3>1 DEF Gathered, Goto, QuietInv, DeclaredInv, BundleTypes
  <2>4. Steady' => Undisturbed'
    <3>1. CASE role' # role
      BY <2>1, <3>1 DEF Undisturbed, Measuring
    <3>2. CASE role' = role /\ pc' = "done"
      <4> SUFFICES ASSUME Steady', role = "verify" PROVE verdict' = "accepted" <=> Intact'
        BY <3>2 DEF Undisturbed, Measuring
      <4>1. Steady
        BY <2>1, <3>2 DEF Steady
      <4>2. (verdict' = "accepted" <=> Intact) /\ UNCHANGED <<disk, sums>>
        BY <1>4, <3>2, <4>1, VerdictStep
      <4> QED
        BY <4>2, SameWorld
    <3>3. CASE role' = role /\ pc' # "done"
      <4>1. Steady' => Steady
        BY <2>1, <3>3 DEF Steady
      <4> QED
        BY <1>4, <3>3, <4>1, UndisturbedStep
    <3> QED
      BY <3>1, <3>2, <3>3
  <2> QED
    BY <1>1, <2>1, <2>2, <2>3, <2>4 DEF QuietInv
<1> QED
  BY <1>2, <1>3, <1>4 DEF Next, Terminated

\* The verdict on a directory that nobody changes meanwhile is exact: the
\* bundles accepted are the intact ones, whatever was done to the directory
\* before the verification and however many files, lines and chunks there are
\* (evidence.rs verify_evidence_bundle_data).
THEOREM QuietVerdict == Spec => []QuietVerdictIsExact
<1>1. Init => QuietInv
  <2> SUFFICES ASSUME Init PROVE QuietInv
    OBVIOUS
  <2>1. DeclaredInv
    BY TypesInit DEF Init, DeclaredInv
  <2>2. pc = "start" /\ changes = 0 /\ records = <<>>
    BY DEF Init
  <2> QED
    BY <2>1, <2>2 DEF QuietInv, Undisturbed, Measuring
<1>2. QuietInv /\ [Next]_vars => QuietInv'
  BY QuietStep
<1>3. QuietInv => QuietVerdictIsExact
  BY DEF QuietInv, QuietVerdictIsExact, Steady, Undisturbed
<1> QED
  BY <1>1, <1>2, <1>3, PTL DEF Spec

-----------------------------------------------------------------------------
(* A bundle nobody changed since it was staged                             *)

\* What the run stages.
LEMMA StagedInit == Init => Staged
<1> SUFFICES ASSUME Init PROVE Staged
  OBVIOUS
<1>1. PICK optional \in SUBSET (Names \ Required), oversized \in SUBSET Growable :
         disk = [n \in Names |-> IF n \in Required \cup optional
                                 THEN Entry("file", StagedContent(n, oversized)) ELSE Absent]
  BY DEF Init
<1>2. Required \subseteq Names /\ Measurements \in Required /\ MeasurementLines \in Nat
  BY BundleAssumption
<1>3. \A n \in Names : IF n \in Required \cup optional
                       THEN disk[n].kind = "file" /\ disk[n].content = StagedContent(n, oversized)
                       ELSE disk[n].kind = "absent" /\ disk[n].content = <<>>
  BY <1>1 DEF Entry, Absent
<1>4. Present = Required \cup optional
  BY <1>2, <1>3 DEF Present
<1>5. ASSUME NEW n \in Names
      PROVE  /\ \A k \in 1..Len(StagedContent(n, oversized)) : StagedContent(n, oversized)[k] = 1
             /\ n # Measurements => StagedContent(n, oversized) # <<>>
             /\ n = Measurements => Len(StagedContent(n, oversized)) = MeasurementLines
  <2> DEFINE m == IF n = Measurements THEN MeasurementLines
                  ELSE IF n \in oversized THEN Limit[n] + 1 ELSE 1
  <2>1. m \in Nat /\ (n # Measurements => m # 0)
    <3>1. n \in oversized => Limit[n] \in Nat
      BY BundleAssumption
    <3> QED
      BY <1>2, <3>1
  <2>2. StagedContent(n, oversized) = [k \in 1..m |-> 1]
    BY DEF StagedContent
  <2>3. n = Measurements => m = MeasurementLines
    OBVIOUS
  <2> HIDE DEF m
  <2>4. [k \in 1..m |-> 1] \in Seq(Nat) /\ Len([k \in 1..m |-> 1]) = m
    BY <2>1
  <2> QED
    BY <2>1, <2>2, <2>3, <2>4
<1>6. \A n \in Present : /\ disk[n].kind = "file"
                         /\ \A k \in 1..Len(disk[n].content) : disk[n].content[k] = 1
                         /\ n # Measurements => disk[n].content # <<>>
  BY <1>3, <1>4, <1>5 DEF Present
<1>7. Len(disk[Measurements].content) = MeasurementLines
  BY <1>2, <1>3, <1>5
<1> QED
  BY <1>2, <1>3, <1>4, <1>6, <1>7 DEF Staged

\* A list that names every file present once is not longer than the names are
\* many.
LEMMA ListFits ==
    ASSUME BundleTypes, ListComplete
    PROVE  /\ Entries(sums.lines) = 1..Len(sums.lines) /\ NamesOf(sums.lines) = Present
           /\ Cardinality(Entries(sums.lines)) = Cardinality(Present)
           /\ Len(sums.lines) <= MaxSumsLines
<1>1. sums.lines \in Seq(Lines)
  BY DEF BundleTypes
<1>2. Entries(sums.lines) = 1..Len(sums.lines) /\ Len(sums.lines) \in Nat
  BY <1>1 DEF ListComplete, Entries
<1>3. NamesOf(sums.lines) = Present
  BY <1>2 DEF ListComplete, NamesOf
<1>4. Cardinality(Entries(sums.lines)) = Cardinality(Present)
  BY <1>1, <1>2, <1>3, NamesCounted DEF ListComplete
<1>5. Cardinality(Entries(sums.lines)) = Len(sums.lines)
  BY <1>2, FS_Interval
<1>6. Cardinality(Present) <= Len(NameOrder)
  <2>1. NameOrder \in Seq(Names)
    BY BundleAssumption
  <2>2. NameOrder \in Surjection(1..Len(NameOrder), Names)
    <3>1. NameOrder \in [1..Len(NameOrder) -> Names] /\ DOMAIN NameOrder = 1..Len(NameOrder)
      BY <2>1
    <3>2. \A n \in Names : \E k \in 1..Len(NameOrder) : NameOrder[k] = n
      BY <3>1 DEF Names
    <3> QED
      BY <3>1, <3>2 DEF Surjection
  <2>3. Len(NameOrder) \in Nat
    BY <2>1
  <2>4. IsFiniteSet(1..Len(NameOrder)) /\ Cardinality(1..Len(NameOrder)) = Len(NameOrder)
    <3>1. \A m \in Nat : IsFiniteSet(1..m) /\ Cardinality(1..m) = m
      BY FS_Interval
    <3> QED
      BY <2>3, <3>1
  <2>5. IsFiniteSet(Names) /\ Cardinality(Names) <= Len(NameOrder)
    BY <2>2, <2>4, FS_Surjection
  <2>6. Cardinality(Present) <= Cardinality(Names) /\ Cardinality(Present) \in Nat /\ Cardinality(Names) \in Nat
    BY <2>5, ListedFacts, FS_Subset, FS_CardinalityType
  <2> QED
    BY <2>3, <2>5, <2>6
<1>7. Len(NameOrder) <= MaxSumsLines /\ Len(NameOrder) \in Nat /\ MaxSumsLines \in Nat
  BY BundleAssumption, CapacityAssumption
<1> QED
  BY <1>2, <1>3, <1>4, <1>5, <1>6, <1>7

\* A staged bundle with its list is intact, up to the two limits.
LEMMA StagedIsIntact ==
    ASSUME BundleTypes, Staged, ListComplete
    PROVE  Intact <=> /\ \A n \in Retained : Len(disk[n].content) <= Limit[n]
                      /\ Cardinality(Present) < MaxEntries
<1>1. /\ Entries(sums.lines) = 1..Len(sums.lines) /\ NamesOf(sums.lines) = Present
      /\ Cardinality(Entries(sums.lines)) = Cardinality(Present)
      /\ Len(sums.lines) <= MaxSumsLines
  BY ListFits
<1>2. Manifest \in Required /\ Manifest \in Retained /\ Measurements \in Required
      /\ Retained \subseteq Names \ {Measurements} /\ Limit \in [Retained -> Nat \ {0}]
  BY BundleAssumption
<1>3. ASSUME Intact, NEW n \in Retained PROVE Len(disk[n].content) <= Limit[n]
  <2>1. CASE n \in Present
    BY <1>3, <2>1 DEF Intact
  <2>2. CASE n \notin Present
    <3>1. disk[n].content = <<>> /\ Limit[n] \in Nat
      BY <1>2, <2>2 DEF Staged
    <3> QED
      BY <3>1
  <2> QED
    BY <2>1, <2>2
<1>4. ASSUME \A n \in Retained : Len(disk[n].content) <= Limit[n], Cardinality(Present) < MaxEntries
      PROVE  Intact
  <2>1. \A n \in Names : disk[n].content \in Seq(Nat)
    BY DEF BundleTypes, Contents
  <2>2. Manifest \in Present /\ Measurements \in Present /\ Manifest # Measurements /\ Manifest \in Names
    BY <1>2 DEF Staged, Present
  <2>3. disk[Manifest].content # <<>> /\ disk[Manifest].content[1] = 1
    <3>1. disk[Manifest].content # <<>> /\ disk[Manifest].content \in Seq(Nat)
      BY <2>1, <2>2 DEF Staged
    <3>2. 1 \in 1..Len(disk[Manifest].content)
      BY <3>1
    <3> QED
      BY <2>2, <3>1, <3>2 DEF Staged
  <2>4. \A k \in DOMAIN sums.lines : sums.lines[k].fault \in {"none", "blank"}
    <3>1. DOMAIN sums.lines = 1..Len(sums.lines)
      BY DEF BundleTypes
    <3> QED
      BY <3>1 DEF ListComplete
  <2>5. ASSUME NEW n \in Present
        PROVE  /\ disk[n].kind = "file"
               /\ \E k \in Entries(sums.lines) :
                     sums.lines[k].name = n /\ sums.lines[k].digest = Sha256(disk[n].content)
               /\ n \in Retained => /\ Len(disk[n].content) <= Limit[n]
                                    /\ Parses(disk[n].content)
                                    /\ \A k \in 1..Len(disk[n].content) :
                                          disk[n].content[k] = disk[Manifest].content[1]
    <3>1. PICK k \in 1..Len(sums.lines) : sums.lines[k].name = n
      BY DEF ListComplete
    <3>2. sums.lines[k].digest = Sha256(disk[n].content)
      BY <3>1 DEF ListComplete
    <3>3. disk[n].kind = "file" /\ \A i \in 1..Len(disk[n].content) : disk[n].content[i] = 1
      BY DEF Staged
    <3>4. n \in Retained => Parses(disk[n].content)
      <4> SUFFICES ASSUME n \in Retained PROVE Parses(disk[n].content)
        OBVIOUS
      <4>1. disk[n].content # <<>> /\ disk[n].content \in Seq(Nat)
        BY <1>2, <2>1 DEF Staged
      <4>2. Len(disk[n].content) > 0
        BY <4>1
      <4> QED
        BY <3>3, <4>2 DEF Parses
    <3> QED
      BY <1>1, <1>4, <2>3, <3>1, <3>2, <3>3, <3>4
  <2>6. /\ Len(disk[Measurements].content) = MeasurementLines /\ MeasurementLines <= MeasurementsLimit
        /\ \A k \in 1..MeasurementLines : disk[Measurements].content[k] > 0
    BY <2>2, CapacityAssumption DEF Staged
  <2>7. sums.exists /\ Required \subseteq Present
    BY DEF ListComplete, Staged
  <2> QED
    BY <1>1, <1>4, <2>3, <2>4, <2>5, <2>6, <2>7 DEF Intact
<1>5. Intact => Cardinality(Present) < MaxEntries
  BY DEF Intact
<1> QED
  BY <1>3, <1>4, <1>5

\* write_checksum_file never meets a file it has to refuse; it stops only in a
\* directory of more entries than it may count.
LEMMA FinalizeRefusal ==
    ASSUME FinalInv, changes = 0, role = "finalize", Verifier, pc' = "done"
    PROVE  verdict' # "accepted" /\ ~(Cardinality(Present) < MaxEntries)
<1>1. /\ QuietInv /\ Undisturbed /\ DeclaredInv /\ BundleTypes /\ Staged /\ ~sums.exists
      /\ pc \notin {"start", "gather", "done"} => ListWritten
  BY DEF FinalInv, QuietInv, DeclaredInv, Steady
<1>2. pc \notin {"openSums", "line", "checkMeasurements", "openMeasurements", "measure"}
  BY <1>1 DEF DeclaredInv
<1>3. ~Start /\ ~Gathered /\ ~HashNext /\ ~WriteLine /\ ~RenameSums
  BY <1>1 DEF Start, Gathered, HashNext, WriteLine, RenameSums, Goto
<1>4. ~OpenSums /\ ~ReadLine /\ ~FinishEntry /\ ~EndOfSums /\ ~CheckMeasurements
      /\ ~OpenMeasurements /\ ~MeasureLine /\ ~Conclude
  BY <1>2 DEF OpenSums, ReadLine, FinishEntry, EndOfSums, CheckMeasurements, OpenMeasurements,
     MeasureLine, Conclude
<1>5. ~CheckPath /\ ~OpenFile
  <2> SUFFICES ASSUME CheckPath \/ OpenFile PROVE FALSE
    OBVIOUS
  <2>1. pc \in {"checkPath", "open"}
    BY DEF CheckPath, OpenFile
  <2>2. Walk /\ handle.name \in payloads
    BY <1>1, <2>1 DEF Undisturbed, ListWritten, Pending
  <2>3. disk[handle.name].kind = "file"
    BY <2>2 DEF Walk
  <2> QED
    BY <2>3 DEF CheckPath, OpenFile, PathError, Goto
<1>6. ~ReadChunk
  BY DEF ReadChunk, Goto
<1>7. PICK e \in Names \cup {"SHA256SUMS"} : GatherEntry(e)
  BY <1>3, <1>4, <1>5, <1>6 DEF Verifier
<1>8. pc = "gather" /\ e \in listing /\ Walk
  BY <1>1, <1>7 DEF GatherEntry, Undisturbed
<1>9. e \in Present /\ e # "SHA256SUMS"
  BY <1>1, <1>8, ListedFacts DEF Walk, Listed
<1>10. disk[e].kind = "file"
  BY <1>1, <1>9 DEF Staged
<1>11. visited + 1 > MaxEntries /\ verdict' # "accepted"
  BY <1>7, <1>10 DEF GatherEntry, Goto, Refuse
<1>12. visited + 1 <= Cardinality(Listed) /\ visited \in Nat
  BY <1>1, <1>8, VisitedCount
<1>13. Cardinality(Listed) = Cardinality(Present) /\ Cardinality(Present) \in Nat
  <2>1. Listed = Present
    BY <1>1 DEF Listed
  <2> QED
    BY <1>1, <2>1, ListedFacts
<1> QED
  BY <1>11, <1>12, <1>13, BundleAssumption

\* A line is written for the file that was hashed.
LEMMA LineWritten ==
    ASSUME BundleTypes, Reading, ListWritten, pc = "read", handle.name \in Present, WriteLine
    PROVE  ListWritten'
<1> DEFINE line == Line("none", handle.name, Sha256(handle.got))
<1>1. /\ role = "finalize" /\ EndOfFile /\ lines' = Append(lines, line) /\ pc' = "hashNext"
      /\ UNCHANGED <<disk, payloads, role>>
  BY DEF WriteLine, Goto, world, gathered
<1>2. handle.name \in Names /\ lines \in Seq(Lines)
  BY DEF BundleTypes, Handles
<1>3. handle.got = disk[handle.name].content
  BY <1>1, <1>2, ReadWhole
<1>4. line \in Lines /\ line.fault = "none" /\ line.name = handle.name
      /\ line.digest = Sha256(disk[handle.name].content)
  <2>1. handle.got \in Contents
    BY DEF BundleTypes, Handles
  <2>2. line \in Lines
    BY <1>2, <2>1, ConstructorTypes
  <2> QED
    BY <1>3, <2>2 DEF Line
<1>5. handle.name \in payloads /\ \A k \in 1..Len(lines) : lines[k].name # handle.name
  BY DEF ListWritten, Pending
<1> HIDE DEF line
<1>6. /\ Len(lines') = Len(lines) + 1 /\ lines'[Len(lines')] = line
      /\ \A k \in 1..Len(lines) : lines'[k] = lines[k]
      /\ \A k \in 1..Len(lines') : k \in 1..Len(lines) \/ k = Len(lines')
      /\ Len(lines') \notin 1..Len(lines)
  BY <1>1, <1>2, <1>4
<1>7. \A k \in 1..Len(lines') : lines'[k].fault = "none" /\ lines'[k].name \in payloads' /\ Correct(k)'
  <2> SUFFICES ASSUME NEW k \in 1..Len(lines')
               PROVE  lines'[k].fault = "none" /\ lines'[k].name \in payloads' /\ Correct(k)'
    OBVIOUS
  <2>1. CASE k \in 1..Len(lines)
    <3>1. lines[k].fault = "none" /\ lines[k].name \in payloads /\ Correct(k) /\ lines'[k] = lines[k]
      BY <1>6, <2>1 DEF ListWritten
    <3> QED
      BY <1>1, <3>1 DEF Correct
  <2>2. CASE k = Len(lines')
    BY <1>1, <1>4, <1>5, <1>6, <2>2 DEF Correct
  <2> QED
    BY <1>6, <2>1, <2>2
<1>8. \A j, k \in 1..Len(lines') : lines'[j].name = lines'[k].name => j = k
  BY <1>4, <1>5, <1>6 DEF ListWritten
<1> QED
  BY <1>1, <1>7, <1>8 DEF ListWritten, Pending

\* A step of write_checksum_file.
LEMMA FinalizeStep ==
    ASSUME FinalInv, changes = 0, role = "finalize", Verifier, pc' # "done", role' = role
    PROVE  /\ ~sums'.exists
           /\ pc' = "gather" => lines' = <<>>
           /\ pc' \notin {"start", "gather", "done"} => ListWritten'
<1>1. /\ QuietInv /\ Undisturbed /\ DeclaredInv /\ BundleTypes /\ Staged /\ ~sums.exists
      /\ pc = "gather" => lines = <<>>
      /\ pc \notin {"start", "gather", "done"} => ListWritten
  BY DEF FinalInv, QuietInv, DeclaredInv, Steady
<1>2. pc \notin {"openSums", "line", "checkMeasurements", "openMeasurements", "measure"}
  BY <1>1 DEF DeclaredInv
<1>3. ~OpenSums /\ ~ReadLine /\ ~FinishEntry /\ ~EndOfSums /\ ~CheckMeasurements
      /\ ~OpenMeasurements /\ ~MeasureLine /\ ~Conclude /\ ~RenameSums
  BY <1>2 DEF OpenSums, ReadLine, FinishEntry, EndOfSums, CheckMeasurements, OpenMeasurements,
     MeasureLine, Conclude, RenameSums
<1>4. CASE Start \/ \E e \in Names \cup {"SHA256SUMS"} : GatherEntry(e)
  BY <1>1, <1>4 DEF Start, GatherEntry, Refuse, Goto, world
<1>5. CASE Gathered
  <2>1. lines' = <<>> /\ pc' = "hashNext" /\ UNCHANGED sums
    BY <1>1, <1>5 DEF Gathered, Goto, world
  <2> QED
    BY <1>1, <2>1 DEF ListWritten, Pending
<1>6. CASE CheckPath \/ OpenFile \/ ReadChunk
  <2>1. Pending /\ Pending' /\ pc' # "gather" /\ UNCHANGED <<sums, disk, payloads, lines, role>>
        /\ handle' \in {handle, [handle EXCEPT !.live = TRUE, !.got = <<>>],
                        [handle EXCEPT !.got = Append(@, Visible[Len(@) + 1])]}
    BY <1>6 DEF CheckPath, OpenFile, ReadChunk, Refuse, Goto, world, gathered, Pending
  <2>2. handle'.name = handle.name
    BY <1>1, <2>1 DEF BundleTypes, Handles
  <2>3. ListWritten
    BY <1>1, <2>1 DEF Pending
  <2>4. ListWritten'
    BY <2>1, <2>2, <2>3 DEF ListWritten, Correct
  <2> QED
    BY <1>1, <2>1, <2>4
<1>7. CASE HashNext
  <2>1. pc = "hashNext" /\ pc' = "checkPath" /\ UNCHANGED <<sums, disk, payloads, lines, role>>
    BY <1>7 DEF HashNext, Goto, world, gathered
  <2>2. PICK k \in Unlisted : handle' = [NoHandle EXCEPT !.name = NameOrder[k]]
    BY <1>7 DEF HashNext
  <2>3. handle'.name = NameOrder[k]
    BY <2>2 DEF NoHandle
  <2>4. DOMAIN lines = 1..Len(lines)
    BY <1>1 DEF BundleTypes
  <2>5. handle'.name \in payloads /\ \A j \in 1..Len(lines) : lines[j].name # handle'.name
    BY <2>3, <2>4 DEF Unlisted
  <2>6. ListWritten
    BY <1>1, <2>1
  <2>7. ListWritten'
    BY <2>1, <2>5, <2>6 DEF ListWritten, Correct, Pending
  <2> QED
    BY <1>1, <2>1, <2>7
<1>8. CASE WriteLine
  <2>1. pc = "read" /\ UNCHANGED sums /\ pc' = "hashNext"
    BY <1>8 DEF WriteLine, EndOfFile, Goto, world
  <2>2. Walk /\ Reading /\ ListWritten
    BY <1>1, <2>1 DEF Undisturbed
  <2>3. handle.name \in Present
    BY <2>1, <2>2 DEF Walk, ListWritten, Pending
  <2>4. ListWritten'
    BY <1>1, <1>8, <2>1, <2>2, <2>3, LineWritten
  <2> QED
    BY <1>1, <2>1, <2>4
<1> QED
  BY <1>3, <1>4, <1>5, <1>6, <1>7, <1>8 DEF Verifier

\* The list is complete when it is renamed into place.
LEMMA RenameCompletes ==
    ASSUME FinalInv, changes = 0, role = "finalize", RenameSums
    PROVE  ListComplete'
<1>1. pc = "hashNext" /\ Unlisted = {} /\ sums' = [exists |-> TRUE, lines |-> lines] /\ UNCHANGED disk
  BY DEF RenameSums
<1>2. Walk /\ ListWritten /\ BundleTypes
  BY <1>1 DEF FinalInv, QuietInv, DeclaredInv, Steady, Undisturbed
<1>3. payloads = Present /\ Present' = Present
  BY <1>1, <1>2 DEF Walk, Present
<1>4. sums'.exists /\ sums'.lines = lines /\ DOMAIN lines = 1..Len(lines)
  BY <1>1, <1>2 DEF BundleTypes
<1>5. \A n \in Present : \E k \in 1..Len(lines) : lines[k].name = n
  <2> SUFFICES ASSUME NEW n \in Present PROVE \E k \in 1..Len(lines) : lines[k].name = n
    OBVIOUS
  <2>1. PICK i \in DOMAIN NameOrder : NameOrder[i] = n
    BY DEF Present, Names
  <2>2. i \notin Unlisted
    BY <1>1
  <2> QED
    BY <1>3, <1>4, <2>1, <2>2 DEF Unlisted
<1>6. \A k \in 1..Len(lines) : /\ lines[k].fault = "none" /\ lines[k].name \in Present
                               /\ lines[k].digest = Sha256(disk[lines[k].name].content)
  BY <1>2, <1>3 DEF ListWritten, Correct
<1>7. \A j, k \in 1..Len(lines) : lines[j].name = lines[k].name => j = k
  BY <1>2 DEF ListWritten
<1> QED
  BY <1>1, <1>3, <1>4, <1>5, <1>6, <1>7 DEF ListComplete

\* Every step keeps the bundle as it was staged and listed, as long as nobody
\* changes it.
LEMMA FinalStep ==
    ASSUME FinalInv, [Next]_vars
    PROVE  FinalInv'
<1>1. QuietInv' /\ BundleTypes /\ changes \in Nat
  BY QuietStep DEF FinalInv, QuietInv, DeclaredInv
<1> SUFFICES ASSUME changes' = 0
             PROVE  /\ Staged' /\ ~dirty'
                    /\ IF role' = "verify" THEN ListComplete'
                       ELSE /\ ~sums'.exists
                            /\ pc' = "gather" => lines' = <<>>
                            /\ pc' \notin {"start", "gather", "done"} => ListWritten'
                            /\ pc' = "done" => /\ verdict' # "accepted"
                                               /\ ~(Cardinality(Present') < MaxEntries)
  BY <1>1 DEF FinalInv
<1>2. ~OtherProgram
  <2> SUFFICES ASSUME OtherProgram PROVE FALSE
    OBVIOUS
  <2>1. changes' = changes + 1
    BY DEF OtherProgram, ChangeSums, ChangeInPlace, Replace, Changed
  <2> QED
    BY <1>1, <2>1
<1>3. UNCHANGED <<disk, changes, dirty>>
  BY <1>2 DEF Next, Terminated, vars, Verifier, Start, Gathered, GatherEntry, CheckPath, OpenFile,
     ReadChunk, HashNext, WriteLine, RenameSums, OpenSums, ReadLine, FinishEntry, EndOfFile, EndOfSums,
     CheckMeasurements, OpenMeasurements, MeasureLine, Conclude, Refuse, Goto, world
<1>4. changes = 0 /\ Staged /\ ~dirty /\ Present' = Present
  BY <1>3 DEF FinalInv, Present
<1>5. Staged' /\ ~dirty'
  BY <1>3, <1>4 DEF Staged
<1>6. CASE UNCHANGED vars
  <2>1. UNCHANGED <<disk, sums, pc, role, lines, payloads, handle, verdict>>
    BY <1>6 DEF vars
  <2> QED
    BY <1>4, <1>5, <2>1 DEF FinalInv, ListComplete, ListWritten, Correct, Pending
<1>7. CASE Verifier /\ role = "verify"
  <2>1. UNCHANGED <<sums, role>>
    <3>1. pc # "hashNext"
      BY <1>7 DEF FinalInv, QuietInv, DeclaredInv
    <3> QED
      BY <1>7, <3>1 DEF Verifier, Start, Gathered, GatherEntry, CheckPath, OpenFile,
         ReadChunk, HashNext, WriteLine, RenameSums, OpenSums, ReadLine, FinishEntry, EndOfFile, EndOfSums,
         CheckMeasurements, OpenMeasurements, MeasureLine, Conclude, Refuse, Goto, world, gathered
  <2>2. ListComplete
    BY <1>4, <1>7 DEF FinalInv
  <2>3. ListComplete'
    BY <1>3, <1>4, <2>1, <2>2 DEF ListComplete
  <2> QED
    BY <1>5, <1>7, <2>1, <2>3
<1>8. CASE Verifier /\ role = "finalize"
  <2>1. role' = role \/ RenameSums
    BY <1>8 DEF Verifier, Start, Gathered, GatherEntry, CheckPath, OpenFile,
       ReadChunk, HashNext, WriteLine, OpenSums, ReadLine, FinishEntry, EndOfSums,
       CheckMeasurements, OpenMeasurements, MeasureLine, Conclude, Refuse, Goto, gathered
  <2>2. CASE RenameSums
    <3>1. ListComplete' /\ role' = "verify"
      BY <1>4, <1>8, <2>2, RenameCompletes DEF RenameSums
    <3> QED
      BY <1>5, <3>1
  <2>3. CASE role' = role /\ pc' = "done"
    <3>1. verdict' # "accepted" /\ ~(Cardinality(Present) < MaxEntries)
      BY <1>4, <1>8, <2>3, FinalizeRefusal
    <3>2. ~sums.exists /\ sums' = sums
      <4>1. ~RenameSums
        BY <2>3 DEF RenameSums
      <4> QED
        BY <1>4, <1>8, <4>1 DEF FinalInv, Verifier, Start, Gathered, GatherEntry, CheckPath, OpenFile,
           ReadChunk, HashNext, WriteLine, OpenSums, ReadLine, FinishEntry, EndOfSums,
           CheckMeasurements, OpenMeasurements, MeasureLine, Conclude, Refuse, Goto, world
    <3> QED
      BY <1>4, <1>5, <1>8, <2>3, <3>1, <3>2
  <2>4. CASE role' = role /\ pc' # "done"
    BY <1>4, <1>5, <1>8, <2>4, FinalizeStep
  <2> QED
    BY <2>1, <2>2, <2>3, <2>4
<1> QED
  BY <1>1, <1>2, <1>6, <1>7, <1>8 DEF Next, Terminated, BundleTypes

\* A bundle that was listed and that nobody changed is accepted, but for a file
\* above its parsing limit or a directory as full as it may be: whatever the
\* names, the limits and the order of the files (evidence.rs
\* write_checksum_file, verify_evidence_bundle_data).
THEOREM FinalizedAccepted == Spec => []FinalizedIsAccepted
<1>1. Init => FinalInv
  <2> SUFFICES ASSUME Init PROVE FinalInv
    OBVIOUS
  <2>1. DeclaredInv
    BY TypesInit DEF Init, DeclaredInv
  <2>2. /\ pc = "start" /\ changes = 0 /\ records = <<>> /\ role = "finalize" /\ ~dirty /\ ~sums.exists
    BY DEF Init
  <2>3. QuietInv
    BY <2>1, <2>2 DEF QuietInv, Undisturbed, Measuring
  <2> QED
    BY <2>2, <2>3, StagedInit DEF FinalInv
<1>2. FinalInv /\ [Next]_vars => FinalInv'
  BY FinalStep
<1>3. FinalInv => FinalizedIsAccepted
  <2> SUFFICES ASSUME FinalInv, changes = 0, pc = "done"
               PROVE  verdict = "accepted" <=>
                        /\ \A n \in Retained : Len(disk[n].content) <= Limit[n]
                        /\ Cardinality(Present) < MaxEntries
    BY DEF FinalizedIsAccepted
  <2>1. QuietInv /\ Staged /\ ~dirty /\ BundleTypes
    BY DEF FinalInv, QuietInv, DeclaredInv
  <2>2. CASE role = "verify"
    <3>1. ListComplete /\ (verdict = "accepted" <=> Intact)
      BY <2>1, <2>2 DEF FinalInv, QuietInv, Steady, Undisturbed
    <3> QED
      BY <2>1, <3>1, StagedIsIntact
  <2>3. CASE role # "verify"
    BY <2>3 DEF FinalInv
  <2> QED
    BY <2>2, <2>3
<1> QED
  BY <1>1, <1>2, <1>3, PTL DEF Spec

=============================================================================
