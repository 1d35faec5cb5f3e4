-------------------------- MODULE SideBySideProofs ---------------------------
(***************************************************************************)
(* Proofs about six of the components that MCSideBySide puts together:     *)
(* what an artifact's metadata says is true; sessions run the arguments of *)
(* the store; the child of a stateless exchange is served in order; a      *)
(* bridge to a stream keeps its order; a log record is shown once, until a *)
(* tail has to begin again; and the metrics add up.  Each has an invariant *)
(* of its own, for any number of commands, sessions, requests and records. *)
(***************************************************************************)
EXTENDS Artifacts, SessionArgs, StatelessExchange, StreamBridge, LogWatch, AdminMetrics,
        SequenceTheorems, FiniteSetTheorems, WellFoundedInduction, TLAPS

-----------------------------------------------------------------------------
(* Sequences *)

\* Head and tail, by index.
LEMMA Shifted ==
  ASSUME NEW S, NEW q \in Seq(S), q # <<>>
  PROVE  /\ DOMAIN q = 1 .. Len(q) /\ Len(q) \in Nat \ {0} /\ Head(q) = q[1]
         /\ Tail(q) \in Seq(S) /\ DOMAIN Tail(q) = 1 .. Len(q) - 1
         /\ \A i \in 1 .. Len(q) - 1 : Tail(q)[i] = q[i + 1]
         /\ \A i \in DOMAIN q : q[i] \in S
  OBVIOUS

\* One more, by index.
LEMMA Appended ==
  ASSUME NEW S, NEW q \in Seq(S), NEW e \in S
  PROVE  /\ DOMAIN q = 1 .. Len(q) /\ Len(q) \in Nat
         /\ Append(q, e) \in Seq(S) /\ DOMAIN Append(q, e) = 1 .. Len(q) + 1
         /\ \A i \in 1 .. Len(q) : Append(q, e)[i] = q[i]
         /\ Append(q, e)[Len(q) + 1] = e
         /\ \A i \in DOMAIN q : q[i] \in S
  OBVIOUS

\* What a queue loses at its head or gains at its end, as a set.
LEMMA OneOut ==
  ASSUME NEW S, NEW q \in Seq(S), q # <<>>
  PROVE  /\ Head(q) \in S /\ Tail(q) \in Seq(S)
         /\ \E i \in DOMAIN q : q[i] = Head(q)
         /\ \A i \in DOMAIN Tail(q) : \E j \in DOMAIN q : Tail(q)[i] = q[j]
  BY Shifted

\* ... and what it gains at its end.
LEMMA OneIn ==
  ASSUME NEW S, NEW q \in Seq(S), NEW e \in S
  PROVE  /\ Append(q, e) \in Seq(S)
         /\ \A i \in DOMAIN Append(q, e) :
              Append(q, e)[i] = e \/ (i \in DOMAIN q /\ Append(q, e)[i] = q[i])
  BY Appended

\* A second line after one.
LEMMA SecondAppended ==
  ASSUME NEW S, NEW a \in S, NEW b \in S
  PROVE  Append(<<a>>, b) = <<a, b>>
  <1>1. <<a>> \in Seq(S) /\ <<a, b>> \in Seq(S)
    OBVIOUS
  <1>2. /\ Append(<<a>>, b) \in Seq(S) /\ Len(Append(<<a>>, b)) = 2
        /\ \A i \in 1 .. 2 : Append(<<a>>, b)[i] = <<a, b>>[i]
    BY <1>1
  <1> QED
    BY <1>1, <1>2, SeqEqual

\* A third line after two.
LEMMA ThirdAppended ==
  ASSUME NEW S, NEW a \in S, NEW b \in S, NEW c \in S
  PROVE  Append(<<a, b>>, c) = <<a, b, c>>
  <1>1. <<a, b>> \in Seq(S) /\ <<a, b, c>> \in Seq(S)
    OBVIOUS
  <1>2. /\ Append(<<a, b>>, c) \in Seq(S) /\ Len(Append(<<a, b>>, c)) = 3
        /\ \A i \in 1 .. 3 : Append(<<a, b>>, c)[i] = <<a, b, c>>[i]
    BY <1>1
  <1> QED
    BY <1>1, <1>2, SeqEqual

\* What is passed from the head of one queue to the end of another stays in order.
LEMMA PassedOn ==
  ASSUME NEW S, NEW s \in Seq(S), NEW t \in Seq(S), t # <<>>
  PROVE  /\ Append(s, Head(t)) \o Tail(t) = s \o t
         /\ Head(t) \in S /\ Tail(t) \in Seq(S) /\ Append(s, Head(t)) \in Seq(S)
  <1>1. Head(t) \in S /\ Tail(t) \in Seq(S) /\ t = <<Head(t)>> \o Tail(t)
    <2>1. Head(t) \in S /\ Tail(t) \in Seq(S) /\ Len(t) \in Nat \ {0}
      BY HeadTailProperties, EmptySeq
    <2>2. <<Head(t)>> \in Seq(S) /\ Len(<<Head(t)>>) = 1
      BY <2>1
    <2>3. /\ <<Head(t)>> \o Tail(t) \in Seq(S)
          /\ Len(<<Head(t)>> \o Tail(t)) = 1 + Len(Tail(t))
          /\ \A i \in 1 .. 1 + Len(Tail(t)) :
               (<<Head(t)>> \o Tail(t))[i] =
                 IF i <= 1 THEN <<Head(t)>>[i] ELSE Tail(t)[i - 1]
      BY <2>1, <2>2, ConcatProperties
    <2>4. Len(Tail(t)) = Len(t) - 1 /\ \A i \in 1 .. Len(t) - 1 : Tail(t)[i] = t[i + 1]
      BY <2>1, HeadTailProperties
    <2>5. \A i \in 1 .. Len(t) : t[i] = (<<Head(t)>> \o Tail(t))[i]
      BY <2>1, <2>3, <2>4
    <2> QED
      BY <2>1, <2>3, <2>4, <2>5, SeqEqual
  <1>2. Append(s, Head(t)) = s \o <<Head(t)>> /\ <<Head(t)>> \in Seq(S)
    BY <1>1, AppendIsConcat
  <1>3. Append(s, Head(t)) \in Seq(S)
    BY <1>1
  <1> QED
    BY <1>1, <1>2, <1>3, ConcatAssociative

\* What is in hand joins what is in flight.
LEMMA HandedOver ==
  ASSUME NEW S, NEW r \in Seq(S), NEW s \in Seq(S), NEW t \in Seq(S)
  PROVE  r \o (s \o t) \o <<>> = r \o s \o t
  <1>1. r \o (s \o t) = r \o s \o t
    BY ConcatAssociative
  <1>2. r \o (s \o t) \in Seq(S)
    BY ConcatProperties
  <1> QED
    BY <1>1, <1>2, ConcatEmptySeq

-----------------------------------------------------------------------------
(* Artifacts *)

(***************************************************************************)
(* A command that has begun to write has made what its options name, but   *)
(* for what is left to do; before the metadata nothing is left.            *)
(***************************************************************************)
Left(j) == {job[j].todo[i] : i \in DOMAIN job[j].todo}

MadeInOrder ==
  \A j \in Jobs :
    /\ job[j].stage \in {"next", "close"} =>
         Named(job[j].options) \subseteq made[j] \cup Left(j)
    /\ job[j].stage = "close" => job[j].todo # <<>>
    /\ job[j].stage = "stamp" => Named(job[j].options) \subseteq made[j]

(***************************************************************************)
(* What was made is never taken away.                                      *)
(***************************************************************************)
MadeStays == \A j \in Jobs : \A f \in made[j] : output[f].state # "absent"

MetadataSigned == metadata.state = "whole" => metadata.by \in Jobs

ArtifactInv == ArtifactTypeOK /\ MadeInOrder /\ MadeStays /\ MetadataSigned /\ MetadataIsLast

-----------------------------------------------------------------------------
(* Types *)

\* The outline of a command is a sequence of what its options name.
LEMMA OutlineNames ==
  ASSUME NEW o \in BuildOptions
  PROVE  /\ Outline(o) \in Seq(Outputs)
         /\ \A f \in Named(o) : \E i \in DOMAIN Outline(o) : Outline(o)[i] = f
  <1>1. CASE o.bundle /\ o.compile
    BY <1>1 DEF Outline, Named, Outputs
  <1>2. CASE o.bundle /\ ~o.compile
    BY <1>2 DEF Outline, Named, Outputs
  <1>3. CASE ~o.bundle /\ o.compile
    BY <1>3 DEF Outline, Named, Outputs
  <1>4. CASE ~o.bundle /\ ~o.compile
    BY <1>4 DEF Outline, Named, Outputs
  <1> QED
    BY <1>1, <1>2, <1>3, <1>4

\* The first thing left is done, and the others are left.
LEMMA OneLess ==
  ASSUME NEW q \in Seq(Outputs), q # <<>>
  PROVE  /\ Head(q) \in Outputs /\ Tail(q) \in Seq(Outputs)
         /\ \A i \in DOMAIN q :
              q[i] = Head(q) \/ \E k \in DOMAIN Tail(q) : Tail(q)[k] = q[i]
  <1>1. /\ Head(q) \in Outputs /\ Tail(q) \in Seq(Outputs)
        /\ Head(q) = q[1] /\ DOMAIN q = 1 .. Len(q) /\ Len(q) \in Nat
        /\ DOMAIN Tail(q) = 1 .. Len(q) - 1
        /\ \A k \in 1 .. Len(q) - 1 : Tail(q)[k] = q[k + 1]
    OBVIOUS
  <1>2. ASSUME NEW i \in DOMAIN q, i # 1
        PROVE  i - 1 \in DOMAIN Tail(q) /\ Tail(q)[i - 1] = q[i]
    BY <1>1, <1>2
  <1> QED
    BY <1>1, <1>2

\* Every step keeps the types.
LEMMA ArtifactTypedStep ==
  ASSUME ArtifactTypeOK, MadeInOrder, [ArtifactNext]_artifactVars
  PROVE  ArtifactTypeOK'
  <1>0. 0 \in Versions
    BY VersionsBounded DEF Versions
  <1>a. ASSUME NEW j \in Jobs, NEW r \in Progress, job' = [job EXCEPT ![j] = r],
               UNCHANGED <<definition, output, metadata, made>>
        PROVE  ArtifactTypeOK'
    BY <1>a DEF ArtifactTypeOK
  <1>1. CASE EditDefinition
    BY <1>1, VersionsBounded DEF ArtifactTypeOK, EditDefinition, Versions
  <1>2. ASSUME NEW j \in Jobs, Generate(j) \/ SaveProfile(j) PROVE ArtifactTypeOK'
    <2>1. job[j] \in Progress
      BY DEF ArtifactTypeOK
    <2>2. \E o \in BuildOptions : job' = [job EXCEPT ![j] = [job[j] EXCEPT !.stage = "load", !.options = o]]
      BY <1>2 DEF Generate, SaveProfile, Begins, BuildOptions, PlainOptions, ArtifactTypeOK
    <2>3. \A o \in BuildOptions : [job[j] EXCEPT !.stage = "load", !.options = o] \in Progress
      BY <2>1 DEF Progress
    <2> QED
      BY <1>2, <1>a, <2>2, <2>3 DEF Generate, SaveProfile
  <1>3. ASSUME NEW j \in Jobs, Regenerate(j) PROVE ArtifactTypeOK'
    <2>1. job[j] \in Progress /\ metadata.options \in BuildOptions
      BY DEF ArtifactTypeOK
    <2>2. Overrides(metadata) \subseteq BuildOptions
      BY DEF Overrides
    <2>3. \E o \in BuildOptions : job' = [job EXCEPT ![j] = [job[j] EXCEPT !.stage = "load", !.options = o]]
      BY <1>3, <2>2 DEF Regenerate, Begins, ArtifactTypeOK
    <2>4. \A o \in BuildOptions : [job[j] EXCEPT !.stage = "load", !.options = o] \in Progress
      BY <2>1 DEF Progress
    <2> QED
      BY <1>3, <1>a, <2>3, <2>4 DEF Regenerate
  <1>4. ASSUME NEW j \in Jobs, LoadDefinition(j) PROVE ArtifactTypeOK'
    <2>1. Outline(job[j].options) \in Seq(Outputs)
      BY OutlineNames DEF ArtifactTypeOK, Progress
    <2> QED
      BY <1>4, <2>1 DEF ArtifactTypeOK, LoadDefinition, Progress
  <1>5. ASSUME NEW j \in Jobs, OpenOutput(j) PROVE ArtifactTypeOK'
    <2>1. Head(job[j].todo) \in Outputs
      BY <1>5, OneLess DEF ArtifactTypeOK, OpenOutput, Progress
    <2> QED
      BY <1>0, <1>5, <2>1 DEF ArtifactTypeOK, OpenOutput, Progress
  <1>6. ASSUME NEW j \in Jobs, CloseOutput(j) PROVE ArtifactTypeOK'
    <2>0. job[j] \in Progress /\ job[j].todo \in Seq(Outputs) /\ job[j].version \in Versions
      BY DEF ArtifactTypeOK, Progress
    <2>1. job[j].todo # <<>>
      BY <1>6 DEF CloseOutput, MadeInOrder
    <2>2. Head(job[j].todo) \in Outputs /\ Tail(job[j].todo) \in Seq(Outputs)
      BY <2>0, <2>1, OneLess
    <2>3. [job[j] EXCEPT !.stage = "next", !.todo = Tail(job[j].todo)] \in Progress
      BY <2>0, <2>2 DEF Progress
    <2>4. job' \in [Jobs -> Progress]
      BY <1>6, <2>3 DEF ArtifactTypeOK, CloseOutput
    <2>5. output' \in [Outputs -> [state : {"absent", "torn", "whole"}, version : Versions]]
      BY <1>6, <2>0, <2>2 DEF ArtifactTypeOK, CloseOutput
    <2>6. made' \in [Jobs -> SUBSET Outputs]
      BY <1>6, <2>2 DEF ArtifactTypeOK, CloseOutput
    <2> QED
      BY <1>6, <2>4, <2>5, <2>6 DEF ArtifactTypeOK, CloseOutput
  <1>7. ASSUME NEW j \in Jobs, OpenMetadata(j) PROVE ArtifactTypeOK'
    <2>0. job[j] \in Progress /\ definition \in Versions
      BY DEF ArtifactTypeOK
    <2>1. \E v \in Versions :
            job' = [job EXCEPT ![j] = [job[j] EXCEPT !.stage = "stamp", !.version = v]]
      BY <1>0, <1>7, <2>0 DEF OpenMetadata
    <2>2. \A v \in Versions : [job[j] EXCEPT !.stage = "stamp", !.version = v] \in Progress
      BY <2>0 DEF Progress
    <2>3. job' \in [Jobs -> Progress]
      BY <2>1, <2>2 DEF ArtifactTypeOK
    <2> QED
      BY <1>0, <1>7, <2>3
      DEF ArtifactTypeOK, OpenMetadata, NoMetadata, PlainOptions, BuildOptions
  <1>8. ASSUME NEW j \in Jobs, CloseMetadata(j) PROVE ArtifactTypeOK'
    BY <1>8 DEF ArtifactTypeOK, CloseMetadata, Progress
  <1>9. ASSUME NEW j \in Jobs, Abort(j) PROVE ArtifactTypeOK'
    <2>1. job[j] \in Progress
      BY DEF ArtifactTypeOK
    <2>2. [job[j] EXCEPT !.stage = "ended"] \in Progress
      BY <2>1 DEF Progress
    <2>3. job' = [job EXCEPT ![j] = [job[j] EXCEPT !.stage = "ended"]]
      BY <1>9 DEF Abort
    <2>4. job' \in [Jobs -> Progress]
      BY <2>2, <2>3 DEF ArtifactTypeOK
    <2> QED
      BY <1>9, <2>4 DEF ArtifactTypeOK, Abort
  <1>10. CASE UNCHANGED artifactVars
    BY <1>10 DEF ArtifactTypeOK, artifactVars
  <1> QED
    BY <1>1, <1>2, <1>3, <1>4, <1>5, <1>6, <1>7, <1>8, <1>9, <1>10 DEF ArtifactNext

-----------------------------------------------------------------------------
(* What is made *)

\* A command that moves on by itself leaves the others where they were.
LEMMA OrderOfOthers ==
  ASSUME ArtifactTypeOK, MadeInOrder, NEW j \in Jobs, NEW r \in Progress,
         job' = [job EXCEPT ![j] = r],
         \A k \in Jobs \ {j} : made'[k] = made[k],
         r.stage \in {"next", "close"} =>
           \A f \in Named(r.options) : f \in made'[j] \/ \E i \in DOMAIN r.todo : r.todo[i] = f,
         r.stage = "close" => r.todo # <<>>,
         r.stage = "stamp" => Named(r.options) \subseteq made'[j]
  PROVE  MadeInOrder'
  <1>1. job'[j] = r /\ \A k \in Jobs \ {j} : job'[k] = job[k]
    BY DEF ArtifactTypeOK
  <1>2. ASSUME NEW k \in Jobs \ {j}
        PROVE  /\ job'[k].stage \in {"next", "close"} =>
                    Named(job'[k].options) \subseteq made'[k] \cup Left(k)'
               /\ job'[k].stage = "close" => job'[k].todo # <<>>
               /\ job'[k].stage = "stamp" => Named(job'[k].options) \subseteq made'[k]
    BY <1>1 DEF MadeInOrder, Left
  <1>3. /\ job'[j].stage \in {"next", "close"} =>
             Named(job'[j].options) \subseteq made'[j] \cup Left(j)'
        /\ job'[j].stage = "close" => job'[j].todo # <<>>
        /\ job'[j].stage = "stamp" => Named(job'[j].options) \subseteq made'[j]
    BY <1>1 DEF Left
  <1> QED
    BY <1>2, <1>3 DEF MadeInOrder

\* Every command makes its files before its metadata.
LEMMA ArtifactOrderStep ==
  ASSUME ArtifactTypeOK, MadeInOrder, [ArtifactNext]_artifactVars
  PROVE  MadeInOrder'
  <1>0. ArtifactTypeOK'
    BY ArtifactTypedStep
  <1>1. CASE EditDefinition \/ UNCHANGED artifactVars
    BY <1>1 DEF EditDefinition, artifactVars, MadeInOrder, Left
  <1>2. ASSUME NEW j \in Jobs
        PROVE  /\ job[j] \in Progress /\ job'[j] \in Progress
               /\ job[j].todo \in Seq(Outputs) /\ job[j].options \in BuildOptions
    BY <1>0 DEF ArtifactTypeOK, Progress
  <1>3. ASSUME NEW j \in Jobs, Generate(j) \/ SaveProfile(j) \/ Regenerate(j)
        PROVE  MadeInOrder'
    <2>1. made' = made /\ \E o : Begins(j, o)
      BY <1>3 DEF Generate, SaveProfile, Regenerate
    <2>2. job' = [job EXCEPT ![j] = job'[j]] /\ job'[j].stage = "load"
      BY <1>2, <2>1 DEF Begins, ArtifactTypeOK, Progress
    <2> QED
      BY <1>2, <2>1, <2>2, OrderOfOthers
  <1>4. ASSUME NEW j \in Jobs, LoadDefinition(j) PROVE MadeInOrder'
    <2>1. /\ job' = [job EXCEPT ![j] = job'[j]] /\ job'[j].stage = "next" /\ made' = made
          /\ job'[j].options = job[j].options /\ job'[j].todo = Outline(job[j].options)
      BY <1>2, <1>4 DEF LoadDefinition, ArtifactTypeOK, Progress
    <2> QED
      BY <1>2, <2>1, OrderOfOthers, OutlineNames
  <1>5. ASSUME NEW j \in Jobs, OpenOutput(j) PROVE MadeInOrder'
    <2>1. /\ job' = [job EXCEPT ![j] = job'[j]] /\ job'[j].stage = "close" /\ made' = made
          /\ job'[j].options = job[j].options /\ job'[j].todo = job[j].todo
          /\ job[j].stage = "next" /\ job[j].todo # <<>>
      BY <1>2, <1>5 DEF OpenOutput, ArtifactTypeOK, Progress
    <2>2. \A f \in Named(job[j].options) :
            f \in made[j] \/ \E i \in DOMAIN job[j].todo : job[j].todo[i] = f
      BY <2>1 DEF MadeInOrder, Left
    <2> QED
      BY <1>2, <2>1, <2>2, OrderOfOthers
  <1>6. ASSUME NEW j \in Jobs, CloseOutput(j) PROVE MadeInOrder'
    <2>1. /\ job' = [job EXCEPT ![j] = job'[j]] /\ job'[j].stage = "next"
          /\ job'[j].options = job[j].options /\ job'[j].todo = Tail(job[j].todo)
          /\ job[j].stage = "close"
      BY <1>2, <1>6 DEF CloseOutput, ArtifactTypeOK, Progress
    <2>2. /\ made'[j] = made[j] \cup {Head(job[j].todo)}
          /\ \A k \in Jobs \ {j} : made'[k] = made[k]
      BY <1>6 DEF CloseOutput, ArtifactTypeOK
    <2>3. /\ job[j].todo # <<>>
          /\ \A f \in Named(job[j].options) :
               f \in made[j] \/ \E i \in DOMAIN job[j].todo : job[j].todo[i] = f
      BY <2>1 DEF MadeInOrder, Left
    <2>4. \A f \in Named(job[j].options) :
            f \in made'[j] \/ \E i \in DOMAIN Tail(job[j].todo) : Tail(job[j].todo)[i] = f
      BY <1>2, <2>2, <2>3, OneLess
    <2>5. \A f \in Named(job'[j].options) :
            f \in made'[j] \/ \E i \in DOMAIN job'[j].todo : job'[j].todo[i] = f
      BY <2>1, <2>4
    <2>6. job'[j].stage \notin {"close", "stamp"}
      BY <2>1
    <2>7. job'[j] \in Progress /\ job' = [job EXCEPT ![j] = job'[j]]
      BY <1>2, <2>1
    <2> QED
      BY <2>2, <2>5, <2>6, <2>7, OrderOfOthers
  <1>7. ASSUME NEW j \in Jobs, OpenMetadata(j) PROVE MadeInOrder'
    <2>1. /\ job' = [job EXCEPT ![j] = job'[j]] /\ job'[j].stage = "stamp" /\ made' = made
          /\ job'[j].options = job[j].options
          /\ job[j].stage = "next" /\ job[j].todo = <<>>
      BY <1>2, <1>7 DEF OpenMetadata, ArtifactTypeOK, Progress
    <2>2. Left(j) = {}
      BY <2>1 DEF Left
    <2>3. Named(job[j].options) \subseteq made[j]
      BY <2>1, <2>2 DEF MadeInOrder
    <2> QED
      BY <1>2, <2>1, <2>3, OrderOfOthers
  <1>8. ASSUME NEW j \in Jobs, CloseMetadata(j) \/ Abort(j) PROVE MadeInOrder'
    <2>1. job' = [job EXCEPT ![j] = job'[j]] /\ job'[j].stage = "ended" /\ made' = made
      BY <1>2, <1>8 DEF CloseMetadata, Abort, ArtifactTypeOK, Progress
    <2> QED
      BY <1>2, <2>1, OrderOfOthers
  <1> QED
    BY <1>1, <1>3, <1>4, <1>5, <1>6, <1>7, <1>8 DEF ArtifactNext

\* What was made may be written again, but does not disappear.
LEMMA ArtifactStaysStep ==
  ASSUME ArtifactTypeOK, MadeInOrder, MadeStays, [ArtifactNext]_artifactVars
  PROVE  /\ MadeStays'
         /\ \A f \in Outputs : output[f].state # "absent" => output'[f].state # "absent"
         /\ \A j \in Jobs : made[j] \subseteq made'[j]
  <1>0. /\ output \in [Outputs -> [state : {"absent", "torn", "whole"}, version : Versions]]
        /\ made \in [Jobs -> SUBSET Outputs]
    BY DEF ArtifactTypeOK
  <1>1. CASE UNCHANGED <<output, made>>
    BY <1>1 DEF MadeStays
  <1>2. ASSUME NEW j \in Jobs, OpenOutput(j)
        PROVE  \A f \in Outputs : output[f].state # "absent" => output'[f].state # "absent"
    BY <1>0, <1>2 DEF OpenOutput
  <1>3. ASSUME NEW j \in Jobs, OpenOutput(j) PROVE MadeStays' /\ made' = made
    BY <1>0, <1>2, <1>3 DEF OpenOutput, MadeStays
  <1>4. ASSUME NEW j \in Jobs, CloseOutput(j)
        PROVE  /\ MadeStays'
               /\ \A f \in Outputs : output[f].state # "absent" => output'[f].state # "absent"
               /\ \A k \in Jobs : made[k] \subseteq made'[k]
    <2>1. PICK f : f = Head(job[j].todo)
      OBVIOUS
    <2>2. /\ output' = [output EXCEPT ![f] = [state |-> "whole", version |-> job[j].version]]
          /\ made' = [made EXCEPT ![j] = @ \cup {f}]
      BY <1>4, <2>1 DEF CloseOutput
    <2>3. f \in Outputs
      BY <1>4, <2>1, OneLess DEF CloseOutput, MadeInOrder, ArtifactTypeOK, Progress
    <2>4. /\ output'[f].state = "whole"
          /\ \A g \in Outputs \ {f} : output'[g] = output[g]
          /\ made'[j] = made[j] \cup {f} /\ \A k \in Jobs \ {j} : made'[k] = made[k]
      BY <1>0, <2>2, <2>3
    <2> QED
      BY <1>0, <2>3, <2>4 DEF MadeStays
  <1> QED
    BY <1>1, <1>2, <1>3, <1>4
    DEF ArtifactNext, EditDefinition, Generate, SaveProfile, Regenerate, LoadDefinition,
        OpenMetadata, CloseMetadata, Abort, artifactVars

\* Metadata is written by a command that has made everything it names.
LEMMA MetadataStep ==
  ASSUME ArtifactInv, [ArtifactNext]_artifactVars
  PROVE  MetadataSigned' /\ MetadataIsLast'
  <1> USE DEF ArtifactInv
  <1>1. CASE metadata' = metadata
    <2>1. Named(metadata.options) \subseteq Outputs
      BY DEF Named, Outputs
    <2> QED
      BY <1>1, <2>1, ArtifactStaysStep DEF MetadataSigned, MetadataIsLast
  <1>2. ASSUME NEW j \in Jobs, OpenMetadata(j) PROVE MetadataSigned' /\ MetadataIsLast'
    BY <1>2 DEF OpenMetadata, NoMetadata, MetadataSigned, MetadataIsLast
  <1>3. ASSUME NEW j \in Jobs, CloseMetadata(j) PROVE MetadataSigned' /\ MetadataIsLast'
    <2>1. /\ metadata' = [state |-> "whole", by |-> j, options |-> job[j].options,
                          sha |-> job[j].version]
          /\ UNCHANGED <<output, made>> /\ job[j].stage = "stamp"
      BY <1>3 DEF CloseMetadata
    <2>2. Named(job[j].options) \subseteq made[j]
      BY <2>1 DEF MadeInOrder
    <2> QED
      BY <2>1, <2>2 DEF MetadataSigned, MetadataIsLast, MadeStays
  <1> QED
    BY <1>1, <1>2, <1>3
    DEF ArtifactNext, EditDefinition, Generate, SaveProfile, Regenerate, LoadDefinition,
        OpenOutput, CloseOutput, Abort, artifactVars

-----------------------------------------------------------------------------
\* ArtifactInv holds in every behaviour.
LEMMA ArtifactInvHolds == ArtifactSpec => []ArtifactInv
  <1>1. ArtifactInit => ArtifactInv
    <2> SUFFICES ASSUME ArtifactInit PROVE ArtifactInv
      OBVIOUS
    <2>1. 0 \in Versions /\ PlainOptions \in BuildOptions /\ <<>> \in Seq(Outputs)
      BY VersionsBounded DEF Versions, PlainOptions, BuildOptions
    <2>2. ArtifactTypeOK
      BY <2>1 DEF ArtifactInit, ArtifactTypeOK, Progress, NoMetadata
    <2> QED
      BY <2>2 DEF ArtifactInit, ArtifactInv, MadeInOrder, MadeStays, MetadataSigned, MetadataIsLast,
                  NoMetadata
  <1>2. ArtifactInv /\ [ArtifactNext]_artifactVars => ArtifactInv'
    BY ArtifactTypedStep, ArtifactOrderStep, ArtifactStaysStep, MetadataStep DEF ArtifactInv
  <1> QED
    BY <1>1, <1>2, PTL DEF ArtifactSpec

\* Every variable keeps its type.
THEOREM ArtifactTypeCorrect == ArtifactSpec => []ArtifactTypeOK
  <1>1. ArtifactInv => ArtifactTypeOK
    BY DEF ArtifactInv
  <1> QED
    BY <1>1, ArtifactInvHolds, PTL

\* Metadata never names a file that its command had not finished.
THEOREM MetadataComesLast == ArtifactSpec => []MetadataIsLast
  <1>1. ArtifactInv => MetadataIsLast
    BY DEF ArtifactInv
  <1> QED
    BY <1>1, ArtifactInvHolds, PTL

-----------------------------------------------------------------------------
(* SessionArgs *)

\* The arguments of a child, or NoProcess.
Args == [args : Seq(Nat), env : Int]

\* The update loop, at any of its awaits.
Loops ==
  [stage : {"idle", "list", "next", "lock", "respawn"}, todo : SUBSET SessionIds,
   one : SessionIds \cup {"none"}, args : Args]

ArgsTypes ==
  /\ updates \in Nat
  /\ global \in Args
  /\ overlay \in [SessionIds -> Args]
  /\ session \in [SessionIds -> {"none", "starting", "started", "live", "removed", "gone"}]
  /\ runs \in [SessionIds -> Args]
  /\ loop \in Loops

InCreation(s) == session[s] \in {"starting", "started"}

\* The child of a session in the map is as SessionsRunLatest has it.
RunsLatest(s) ==
  IF s \in failed THEN runs[s] = NoProcess ELSE s \in late \/ runs[s] = Effective(s)

\* A session in creation has what the store has, or is known to be late.
CreatedLatest ==
  \A s \in SessionIds :
    InCreation(s) => s \notin failed /\ (s \in late \/ runs[s] = Effective(s))

NeverFailedAtFirst == \A s \in SessionIds : session[s] = "none" => s \notin failed

\* While the loop restarts sessions, one that is behind is still to come.
LoopReaches ==
  \A s \in SessionIds :
    session[s] = "live" =>
      /\ loop.stage = "idle" => RunsLatest(s)
      /\ loop.stage = "next" => s \in loop.todo \/ RunsLatest(s)
      /\ loop.stage \in {"lock", "respawn"} =>
           s \in loop.todo \/ s = loop.one \/ RunsLatest(s)

\* What the loop has in hand.
LoopHolds ==
  /\ loop.stage \in {"lock", "respawn"} =>
       loop.one \in SessionIds /\ loop.args = Effective(loop.one)
  /\ loop.stage = "respawn" =>
       mutex = "loop" /\ session[loop.one] = "live" /\ runs[loop.one] = NoProcess

ArgsInv == ArgsTypes /\ CreatedLatest /\ NeverFailedAtFirst /\ LoopReaches /\ LoopHolds

\* What the store gives is typed.
LEMMA EffectiveTyped ==
  ASSUME ArgsTypes, NEW s \in SessionIds
  PROVE  Effective(s) \in Args
  BY DEF ArgsTypes, Args, Effective, Merge

\* An update is typed, and one without fields changes nothing.
LEMMA ChangedTyped ==
  ASSUME ArgsTypes, NEW old \in Args, NEW F \in SUBSET {"args", "env"}
  PROVE  Changed(old, F) \in Args /\ (F = {} => Changed(old, F) = old)
  <1>1. <<updates + 1>> \in Seq(Nat) /\ updates + 1 \in Int
    BY DEF ArgsTypes
  <1>2. old.args \in Seq(Nat) /\ old.env \in Int
    BY DEF Args
  <1>3. Changed(old, F) \in Args
    BY <1>1, <1>2 DEF Changed, Args
  <1>4. F = {} => Changed(old, F) = old
    BY DEF Changed, Args
  <1> QED
    BY <1>3, <1>4

\* Every step keeps the types.
LEMMA ArgsTypedStep ==
  ASSUME ArgsTypes, LoopHolds, [ArgsNext]_argsVars
  PROVE  ArgsTypes'
  <1>0. NoProcess \in Args /\ DefaultArgs \in Args /\ <<>> \in Seq(Nat)
    BY DEF NoProcess, DefaultArgs, Args
  <1>a. /\ LoopIdle \in Loops
        /\ [LoopIdle EXCEPT !.stage = "list"] \in Loops
        /\ \A S \in SUBSET SessionIds :
             [LoopIdle EXCEPT !.stage = "next", !.todo = S] \in Loops
    BY <1>0 DEF LoopIdle, Loops
  <1>1. ASSUME NEW s \in SessionIds, ReadArgs(s) PROVE ArgsTypes'
    BY <1>1, EffectiveTyped DEF ReadArgs, ArgsTypes
  <1>2. ASSUME NEW s \in SessionIds, StartChild(s) PROVE ArgsTypes'
    BY <1>0, <1>2 DEF StartChild, ArgsTypes
  <1>3. ASSUME NEW s \in SessionIds, EnterSession(s) \/ RemoveSession(s) PROVE ArgsTypes'
    BY <1>3 DEF EnterSession, RemoveSession, ArgsTypes
  <1>4. ASSUME NEW s \in SessionIds, ShutDown(s) PROVE ArgsTypes'
    BY <1>0, <1>4 DEF ShutDown, ArgsTypes
  <1>5. ASSUME NEW s \in SessionIds, UpdateOne(s) PROVE ArgsTypes'
    <2>1. PICK F \in SUBSET {"args", "env"} :
            /\ overlay' = [overlay EXCEPT ![s] = Changed(overlay[s], F)]
            /\ loop' = IF RestartNeeded(F)
                       THEN [LoopIdle EXCEPT !.stage = "next", !.todo = {s}] ELSE loop
      BY <1>5 DEF UpdateOne
    <2>2. overlay[s] \in Args /\ Changed(overlay[s], F) \in Args
      BY ChangedTyped DEF ArgsTypes
    <2>3. overlay' \in [SessionIds -> Args]
      BY <2>1, <2>2 DEF ArgsTypes
    <2>4. loop' \in Loops
      BY <1>a, <2>1 DEF ArgsTypes
    <2> QED
      BY <1>5, <2>3, <2>4 DEF UpdateOne, ArgsTypes
  <1>6. CASE UpdateAll
    <2>1. PICK F \in SUBSET {"args", "env"} :
            /\ global' = Changed(global, F)
            /\ loop' \in {[LoopIdle EXCEPT !.stage = "list"], loop}
      BY <1>6 DEF UpdateAll
    <2>2. global' \in Args
      BY <2>1, ChangedTyped DEF ArgsTypes
    <2>3. loop' \in Loops
      BY <1>a, <2>1 DEF ArgsTypes
    <2> QED
      BY <1>6, <2>2, <2>3 DEF UpdateAll, ArgsTypes
  <1>7. CASE ListSessions \/ AnswerUpdate
    <2>1. {s \in SessionIds : session[s] = "live"} \in SUBSET SessionIds
      OBVIOUS
    <2> QED
      BY <1>a, <1>7, <2>1 DEF ListSessions, AnswerUpdate, ArgsTypes
  <1>8. CASE ReadForRestart
    <2>1. PICK s \in loop.todo :
            loop' = [loop EXCEPT !.stage = "lock", !.todo = @ \ {s}, !.one = s,
                                 !.args = Effective(s)]
      BY <1>8 DEF ReadForRestart, ArgsOf
    <2>2. s \in SessionIds /\ Effective(s) \in Args
      BY EffectiveTyped DEF ArgsTypes, Loops
    <2> QED
      BY <1>8, <2>1, <2>2 DEF ReadForRestart, ArgsTypes, Loops
  <1>9. CASE KillChild
    BY <1>0, <1>9 DEF KillChild, ArgsTypes, Loops
  <1>10. CASE Respawn
    BY <1>0, <1>10 DEF Respawn, ArgsTypes, Loops
  <1>11. CASE UNCHANGED argsVars
    BY <1>11 DEF argsVars, ArgsTypes
  <1> QED
    BY <1>1, <1>2, <1>3, <1>4, <1>5, <1>6, <1>7, <1>8, <1>9, <1>10, <1>11 DEF ArgsNext

\* Every step keeps what the store, the loop and the sessions know of each other.
LEMMA StepKeepsArgs ==
  ASSUME ArgsInv, [ArgsNext]_argsVars
  PROVE  (CreatedLatest /\ NeverFailedAtFirst /\ LoopReaches /\ LoopHolds)'
  <1> DEFINE Rest == CreatedLatest /\ NeverFailedAtFirst /\ LoopReaches /\ LoopHolds
  <1>0. ArgsTypes /\ Rest
    BY DEF ArgsInv
  <1> USE <1>0
  <1>a. ASSUME UNCHANGED <<global, overlay>>
        PROVE  \A s : Effective(s)' = Effective(s)
    BY <1>a DEF Effective
  <1>1. ASSUME NEW s \in SessionIds, ReadArgs(s) PROVE Rest'
    BY <1>1, <1>a DEF ReadArgs, ArgsTypes, CreatedLatest, NeverFailedAtFirst, LoopReaches,
                      LoopHolds, RunsLatest, InCreation
  <1>2. ASSUME NEW s \in SessionIds, StartChild(s) PROVE Rest'
    BY <1>2, <1>a DEF StartChild, ArgsTypes, CreatedLatest, NeverFailedAtFirst, LoopReaches,
                      LoopHolds, RunsLatest, InCreation
  <1>3. ASSUME NEW s \in SessionIds, EnterSession(s) PROVE Rest'
    BY <1>3, <1>a DEF EnterSession, ArgsTypes, CreatedLatest, NeverFailedAtFirst, LoopReaches,
                      LoopHolds, RunsLatest, InCreation
  <1>4. ASSUME NEW s \in SessionIds, RemoveSession(s) PROVE Rest'
    BY <1>4, <1>a DEF RemoveSession, ArgsTypes, CreatedLatest, NeverFailedAtFirst, LoopReaches,
                      LoopHolds, RunsLatest, InCreation
  <1>5. ASSUME NEW s \in SessionIds, ShutDown(s) PROVE Rest'
    BY <1>5, <1>a, HoldersDiffer
    DEF ShutDown, ArgsTypes, CreatedLatest, NeverFailedAtFirst, LoopReaches, LoopHolds,
        RunsLatest, InCreation
  <1>6. ASSUME NEW s \in SessionIds, UpdateOne(s) PROVE Rest'
    <2>1. PICK F \in SUBSET {"args", "env"} :
            /\ overlay' = [overlay EXCEPT ![s] = Changed(overlay[s], F)]
            /\ loop' = IF F # {} THEN [LoopIdle EXCEPT !.stage = "next", !.todo = {s}] ELSE loop
      BY <1>6 DEF UpdateOne, RestartNeeded
    <2>2. \A t \in SessionIds \ {s} : Effective(t)' = Effective(t)
      BY <1>6, <2>1 DEF UpdateOne, Effective, ArgsTypes
    <2>3. CASE F = {}
      <3>1. overlay' = overlay
        BY <2>1, <2>3, ChangedTyped DEF ArgsTypes
      <3> QED
        BY <1>6, <1>a, <2>1, <2>3, <3>1
        DEF UpdateOne, CreatedLatest, NeverFailedAtFirst, LoopReaches, LoopHolds, RunsLatest,
            InCreation
    <2>4. CASE F # {}
      <3>1. loop.stage = "idle" /\ session[s] \in {"live", "removed", "gone"}
        BY <1>6 DEF UpdateOne
      <3>2. UNCHANGED <<session, runs, mutex, late, failed>>
        BY <1>6 DEF UpdateOne
      <3>3. loop'.stage = "next" /\ loop'.todo = {s}
        BY <2>1, <2>4 DEF LoopIdle
      <3>4. CreatedLatest'
        BY <2>2, <3>1, <3>2 DEF CreatedLatest, InCreation
      <3>5. NeverFailedAtFirst'
        BY <3>2 DEF NeverFailedAtFirst
      <3>6. LoopReaches'
        BY <2>2, <3>1, <3>2, <3>3 DEF LoopReaches, RunsLatest
      <3>7. LoopHolds'
        BY <3>3 DEF LoopHolds
      <3> QED
        BY <3>4, <3>5, <3>6, <3>7
    <2> QED
      BY <2>3, <2>4
  <1>7. CASE UpdateAll
    <2>1. PICK F \in SUBSET {"args", "env"} :
            /\ global' = Changed(global, F)
            /\ IF F # {}
               THEN /\ loop' = [LoopIdle EXCEPT !.stage = "list"]
                    /\ late' = late \cup {s \in SessionIds : InCreation(s)}
               ELSE UNCHANGED <<loop, late>>
      BY <1>7 DEF UpdateAll, RestartNeeded, InCreation
    <2>2. CASE F = {}
      <3>1. global' = global
        BY <2>1, <2>2, ChangedTyped DEF ArgsTypes
      <3> QED
        BY <1>7, <1>a, <2>1, <2>2, <3>1
        DEF UpdateAll, CreatedLatest, NeverFailedAtFirst, LoopReaches, LoopHolds, RunsLatest,
            InCreation
    <2>3. CASE F # {}
      BY <1>7, <2>1, <2>3
      DEF UpdateAll, LoopIdle, CreatedLatest, NeverFailedAtFirst, LoopReaches, LoopHolds,
          InCreation
    <2> QED
      BY <2>2, <2>3
  <1>8. CASE ListSessions
    BY <1>8, <1>a DEF ListSessions, LoopIdle, CreatedLatest, NeverFailedAtFirst, LoopReaches,
                      LoopHolds, InCreation
  <1>9. CASE ReadForRestart
    <2>1. PICK s \in loop.todo :
            loop' = [loop EXCEPT !.stage = "lock", !.todo = @ \ {s}, !.one = s,
                                 !.args = Effective(s)]
      BY <1>9 DEF ReadForRestart, ArgsOf
    <2>2. /\ s \in SessionIds /\ loop.stage = "next"
          /\ loop'.stage = "lock" /\ loop'.todo = loop.todo \ {s} /\ loop'.one = s
          /\ loop'.args = Effective(s)
      BY <1>9, <2>1 DEF ReadForRestart, ArgsTypes, Loops
    <2> QED
      BY <1>9, <1>a, <2>2
      DEF ReadForRestart, CreatedLatest, NeverFailedAtFirst, LoopReaches, LoopHolds, RunsLatest,
          InCreation
  <1>10. CASE KillChild
    BY <1>10, <1>a DEF KillChild, ArgsTypes, Loops, CreatedLatest, NeverFailedAtFirst, LoopReaches,
                       LoopHolds, RunsLatest, InCreation
  <1>11. CASE Respawn
    BY <1>11, <1>a DEF Respawn, ArgsTypes, Loops, CreatedLatest, NeverFailedAtFirst, LoopReaches,
                       LoopHolds, RunsLatest, InCreation
  <1>12. CASE AnswerUpdate
    BY <1>12, <1>a DEF AnswerUpdate, LoopIdle, CreatedLatest, NeverFailedAtFirst, LoopReaches,
                       LoopHolds, RunsLatest, InCreation
  <1>13. CASE UNCHANGED argsVars
    BY <1>13, <1>a DEF argsVars, CreatedLatest, NeverFailedAtFirst, LoopReaches, LoopHolds,
                       RunsLatest, InCreation
  <1> QED
    BY <1>1, <1>2, <1>3, <1>4, <1>5, <1>6, <1>7, <1>8, <1>9, <1>10, <1>11, <1>12, <1>13
    DEF ArgsNext

\* After an update is answered, every session in the map runs what the store has,
\* but for sessions that were being created when the global arguments changed,
\* and sessions whose restart failed, which have no child.
THEOREM RestartedRunLatest == ArgsSpec => []SessionsRunLatest
  <1>1. ArgsInit => ArgsInv
    <2> SUFFICES ASSUME ArgsInit PROVE ArgsInv
      OBVIOUS
    <2>1. NoProcess \in Args /\ DefaultArgs \in Args
      BY DEF NoProcess, DefaultArgs, Args
    <2>2. ArgsTypes
      BY <2>1 DEF ArgsInit, ArgsTypes, LoopIdle, Loops
    <2> QED
      BY <2>2 DEF ArgsInit, ArgsInv, CreatedLatest, NeverFailedAtFirst, LoopReaches, LoopHolds,
                  InCreation, LoopIdle
  <1>2. ArgsInv /\ [ArgsNext]_argsVars => ArgsInv'
    BY ArgsTypedStep, StepKeepsArgs DEF ArgsInv
  <1>3. ArgsInv => SessionsRunLatest
    BY DEF ArgsInv, LoopReaches, RunsLatest, SessionsRunLatest
  <1> QED
    BY <1>1, <1>2, <1>3, PTL DEF ArgsSpec

-----------------------------------------------------------------------------
(* StatelessExchange *)

\* The lines to the child and from it.
ScriptLines == {"auto", "initialized", "payload"}
Said == {"welcome", "answer", "same id", "other"}

StatelessTypes ==
  /\ exchange \in {"new", "write", "read", "ended", "failed", "dropped"}
  /\ payload \in Payloads /\ welcoming \in BOOLEAN
  /\ child \in {"none", "runs", "exited", "killed"}
  /\ unread \in Seq(ScriptLines) /\ spoken \in Seq(Said)

Handshake == <<"auto", "initialized", "payload">>

\* What is written and what is left are two parts of what the exchange writes.
ScriptFollowed ==
  IF child = "none"
  THEN /\ given = <<>> /\ toWrite = <<>> /\ unread = <<>> /\ spoken = <<>>
       /\ response # "answer"
  ELSE IF payload # "request"
  THEN /\ ~welcoming
       /\ \/ given = <<>> /\ toWrite = <<"payload">>
          \/ given = <<"payload">> /\ toWrite = <<>>
  ELSE IF welcoming
  THEN \/ given = <<>> /\ toWrite = <<"auto">>
       \/ given = <<"auto">> /\ toWrite = <<>>
  ELSE \/ given = <<"auto">> /\ toWrite = <<"initialized", "payload">>
       \/ given = <<"auto", "initialized">> /\ toWrite = <<"payload">>
       \/ given = Handshake /\ toWrite = <<>>

\* An answer means that the child has read the payload, after all else.
AnswersFollow ==
  /\ \A i \in DOMAIN unread : unread[i] = "payload" => given = Script
  /\ \A i \in DOMAIN spoken : spoken[i] = "answer" => given = Script
  /\ response = "answer" => given = Script

\* Where the handler is.
ExchangeAt ==
  /\ exchange = "new" => child = "none"
  /\ child = "none" => exchange \in {"new", "failed"}
  /\ exchange = "read" => toWrite = <<>>
  /\ exchange = "ended" => child = "killed"
  /\ exchange = "failed" /\ child = "runs" => toWrite # <<>>

StatelessInv == StatelessTypes /\ ScriptFollowed /\ AnswersFollow /\ ExchangeAt

\* A reply is nothing or one line, and an answer only to the payload.
LEMMA RepliesAre ==
  ASSUME NEW line \in ScriptLines, NEW reply \in Replies(line)
  PROVE  \/ reply = <<>>
         \/ \E e \in Said : reply = <<e>> /\ (e = "answer" => line = "payload")
  BY DEF Replies, Said

\* Every step keeps the script, and with it the order.
LEMMA ExchangeStep == StatelessInv /\ [StatelessNext]_statelessVars => StatelessInv'
  <1> SUFFICES ASSUME StatelessInv, [StatelessNext]_statelessVars PROVE StatelessInv'
    OBVIOUS
  <1>0. StatelessTypes /\ ScriptFollowed /\ AnswersFollow /\ ExchangeAt
    BY DEF StatelessInv
  <1> USE <1>0
  <1>1. CASE PostStateless
    <2>1. <<>> \in Seq(ScriptLines) /\ <<>> \in Seq(Said) /\ DOMAIN <<>> = {}
      OBVIOUS
    <2>2. child = "none" /\ given = <<>> /\ toWrite = <<>> /\ unread = <<>> /\ spoken = <<>>
          /\ response # "answer" /\ response' # "answer"
          /\ UNCHANGED <<given, unread, spoken, own>>
      BY <1>1 DEF PostStateless, ExchangeAt, ScriptFollowed
    <2>3. AnswersFollow'
      BY <2>1, <2>2 DEF AnswersFollow
    <2>4. PICK p \in Payloads :
            /\ payload' = p
            /\ \/ /\ exchange' = "write" /\ child' = "runs"
                  /\ toWrite' = IF p = "request" THEN <<"auto">> ELSE <<"payload">>
                  /\ welcoming' = (p = "request")
               \/ exchange' = "failed" /\ UNCHANGED <<child, toWrite, welcoming>>
      BY <1>1 DEF PostStateless
    <2>5. ScriptFollowed' /\ ExchangeAt'
      BY <2>2, <2>4 DEF ScriptFollowed, ExchangeAt
    <2>6. StatelessTypes'
      BY <2>1, <2>2, <2>4 DEF StatelessTypes
    <2> QED
      BY <2>3, <2>5, <2>6 DEF StatelessInv
  <1>2. CASE WriteLine
    <2>1. /\ exchange = "write" /\ toWrite # <<>> /\ child # "none"
          /\ given' = Append(given, Head(toWrite)) /\ toWrite' = Tail(toWrite)
          /\ unread' \in {unread, Append(unread, Head(toWrite))}
          /\ UNCHANGED <<exchange, payload, welcoming, child, spoken, own, response>>
      BY <1>2 DEF WriteLine, ExchangeAt
    <2>2. Head(toWrite) \in ScriptLines /\ ScriptFollowed'
          /\ (Head(toWrite) = "payload" => given' = Script') /\ given # Script
      <3>1. CASE payload # "request"
        <4>1. given = <<>> /\ toWrite = <<"payload">> /\ ~welcoming
          BY <2>1, <3>1 DEF ScriptFollowed
        <4>2. Head(toWrite) = "payload" /\ given' = <<"payload">> /\ toWrite' = <<>>
          BY <2>1, <4>1
        <4> QED
          BY <2>1, <3>1, <4>1, <4>2 DEF ScriptFollowed, ScriptLines, Script
      <3>2. CASE payload = "request" /\ welcoming
        <4>1. given = <<>> /\ toWrite = <<"auto">>
          BY <2>1, <3>2 DEF ScriptFollowed
        <4>2. Head(toWrite) = "auto" /\ given' = <<"auto">> /\ toWrite' = <<>>
          BY <2>1, <4>1
        <4> QED
          BY <2>1, <3>2, <4>1, <4>2 DEF ScriptFollowed, ScriptLines, Script
      <3>3. CASE /\ payload = "request" /\ ~welcoming
                 /\ given = <<"auto">> /\ toWrite = <<"initialized", "payload">>
        <4>0. "auto" \in ScriptLines /\ "initialized" \in ScriptLines
          BY DEF ScriptLines
        <4>1. /\ Head(toWrite) = "initialized" /\ given' = <<"auto", "initialized">>
              /\ toWrite' = <<"payload">>
          <5>1. /\ Head(<<"initialized", "payload">>) = "initialized"
                /\ Tail(<<"initialized", "payload">>) = <<"payload">>
            OBVIOUS
          <5>2. Append(<<"auto">>, "initialized") = <<"auto", "initialized">>
            BY <4>0, SecondAppended
          <5> QED
            BY <2>1, <3>3, <5>1, <5>2
        <4> QED
          BY <2>1, <3>3, <4>1 DEF ScriptFollowed, ScriptLines, Script
      <3>4. CASE /\ payload = "request" /\ ~welcoming
                 /\ given = <<"auto", "initialized">> /\ toWrite = <<"payload">>
        <4>0. "auto" \in ScriptLines /\ "initialized" \in ScriptLines /\ "payload" \in ScriptLines
          BY DEF ScriptLines
        <4>1. Head(toWrite) = "payload" /\ given' = Handshake /\ toWrite' = <<>>
          <5>1. Head(<<"payload">>) = "payload" /\ Tail(<<"payload">>) = <<>>
            OBVIOUS
          <5>2. Append(<<"auto", "initialized">>, "payload") = Handshake
            BY <4>0, ThirdAppended DEF Handshake
          <5> QED
            BY <2>1, <3>4, <5>1, <5>2
        <4> QED
          BY <2>1, <3>4, <4>1 DEF ScriptFollowed, ScriptLines, Script, Handshake
      <3> QED
        BY <2>1, <3>1, <3>2, <3>3, <3>4 DEF ScriptFollowed, StatelessTypes
    <2>3. /\ unread' \in Seq(ScriptLines)
          /\ \A i \in DOMAIN unread' :
               unread'[i] = Head(toWrite) \/ (i \in DOMAIN unread /\ unread'[i] = unread[i])
      <3>1. unread \in Seq(ScriptLines)
        BY DEF StatelessTypes
      <3>2. CASE unread' = unread
        BY <3>1, <3>2
      <3>3. CASE unread' = Append(unread, Head(toWrite))
        BY <2>2, <3>1, <3>3, OneIn
      <3> QED
        BY <2>1, <3>2, <3>3
    <2>4. StatelessTypes' /\ ExchangeAt'
      BY <2>1, <2>3 DEF StatelessTypes, ExchangeAt
    <2>5. AnswersFollow'
      BY <2>1, <2>2, <2>3 DEF AnswersFollow
    <2> QED
      BY <2>2, <2>4, <2>5 DEF StatelessInv
  <1>3. CASE WriteFails \/ Written \/ OutputEnds \/ ClientLeaves
    <2>1. /\ exchange \in {"write", "read"} /\ exchange' \in {"read", "ended", "failed", "dropped"}
          /\ response' # "answer" \/ response' = response
          /\ child' \in {child, "killed"}
          /\ UNCHANGED <<payload, toWrite, welcoming, given, unread, spoken>>
      BY <1>3 DEF WriteFails, Written, OutputEnds, ClientLeaves, Close
    <2>2. child # "none"
      BY <2>1 DEF ExchangeAt
    <2>3. /\ exchange' = "read" => toWrite = <<>>
          /\ exchange' = "ended" => child' = "killed"
          /\ exchange' = "failed" /\ child' = "runs" => toWrite # <<>>
      BY <1>3 DEF WriteFails, Written, OutputEnds, ClientLeaves, Close
    <2>4. StatelessTypes' /\ ExchangeAt'
      BY <2>1, <2>2, <2>3 DEF StatelessTypes, ExchangeAt
    <2>5. ScriptFollowed'
      BY <2>1, <2>2 DEF ScriptFollowed
    <2>6. AnswersFollow'
      BY <2>1 DEF AnswersFollow, Script
    <2> QED
      BY <2>4, <2>5, <2>6 DEF StatelessInv
  <1>4. CASE ReadOutput
    <2>1. /\ exchange = "read" /\ spoken # <<>> /\ spoken' = Tail(spoken)
          /\ UNCHANGED <<payload, given, unread, own>>
          /\ \/ /\ Head(spoken) = "welcome" /\ welcoming
                /\ welcoming' = FALSE /\ toWrite' = AfterWelcome /\ exchange' = "write"
                /\ UNCHANGED <<child, response>>
             \/ /\ exchange' = "ended" /\ response' = Head(spoken) /\ child' = "killed"
                /\ UNCHANGED <<toWrite, welcoming>>
             \/ UNCHANGED <<exchange, toWrite, welcoming, child, response>>
      BY <1>4 DEF ReadOutput, Close
    <2>2. /\ spoken' \in Seq(Said)
          /\ \E i \in DOMAIN spoken : spoken[i] = Head(spoken)
          /\ \A i \in DOMAIN spoken' : \E j \in DOMAIN spoken : spoken'[i] = spoken[j]
      BY <2>1, OneOut DEF StatelessTypes
    <2>3. child # "none" /\ toWrite = <<>>
      BY <2>1 DEF ExchangeAt
    <2>4. StatelessTypes' /\ ExchangeAt'
      BY <2>1, <2>2, <2>3 DEF StatelessTypes, ExchangeAt
    <2>5. ScriptFollowed'
      BY <2>1, <2>3 DEF ScriptFollowed, AfterWelcome
    <2>6. AnswersFollow'
      BY <2>1, <2>2 DEF AnswersFollow, Script
    <2> QED
      BY <2>4, <2>5, <2>6 DEF StatelessInv
  <1>5. CASE ChildReads
    <2>1. /\ child = "runs" /\ unread # <<>> /\ unread' = Tail(unread)
          /\ UNCHANGED <<exchange, payload, toWrite, welcoming, child, given, own, response>>
      BY <1>5 DEF ChildReads
    <2>2. PICK reply \in Replies(Head(unread)) : spoken' = spoken \o reply
      BY <1>5 DEF ChildReads
    <2>3. /\ Head(unread) \in ScriptLines /\ unread' \in Seq(ScriptLines)
          /\ \E i \in DOMAIN unread : unread[i] = Head(unread)
          /\ \A i \in DOMAIN unread' : \E j \in DOMAIN unread : unread'[i] = unread[j]
      BY <2>1, OneOut DEF StatelessTypes
    <2>4. \/ spoken' = spoken
          \/ \E e \in Said :
               spoken' = Append(spoken, e) /\ (e = "answer" => Head(unread) = "payload")
      <3>1. spoken \in Seq(Said)
        BY DEF StatelessTypes
      <3>2. CASE reply = <<>>
        BY <2>2, <3>1, <3>2
      <3>3. CASE \E e \in Said : reply = <<e>> /\ (e = "answer" => Head(unread) = "payload")
        <4>1. PICK e \in Said : reply = <<e>> /\ (e = "answer" => Head(unread) = "payload")
          BY <3>3
        <4>2. spoken \o <<e>> = Append(spoken, e)
          BY <3>1
        <4> QED
          BY <2>2, <4>1, <4>2
      <3> QED
        BY <2>3, <3>2, <3>3, RepliesAre
    <2>5. /\ spoken' \in Seq(Said)
          /\ \A i \in DOMAIN spoken' :
               \/ i \in DOMAIN spoken /\ spoken'[i] = spoken[i]
               \/ spoken'[i] = "answer" => Head(unread) = "payload"
      <3>1. spoken \in Seq(Said)
        BY DEF StatelessTypes
      <3>2. CASE spoken' = spoken
        BY <3>1, <3>2
      <3>3. CASE \E e \in Said :
                   spoken' = Append(spoken, e) /\ (e = "answer" => Head(unread) = "payload")
        BY <3>1, <3>3, OneIn
      <3> QED
        BY <2>4, <3>2, <3>3
    <2>6. StatelessTypes' /\ ExchangeAt' /\ ScriptFollowed'
      BY <2>1, <2>3, <2>5 DEF StatelessTypes, ExchangeAt, ScriptFollowed
    <2>7. AnswersFollow'
      BY <2>1, <2>3, <2>5 DEF AnswersFollow, Script
    <2> QED
      BY <2>6, <2>7 DEF StatelessInv
  <1>6. CASE ChildSpeaks
    <2>1. PICK line \in {"same id", "other"} : spoken' = Append(spoken, line)
      BY <1>6 DEF ChildSpeaks
    <2>2. /\ spoken' \in Seq(Said)
          /\ \A i \in DOMAIN spoken' :
               spoken'[i] = line \/ (i \in DOMAIN spoken /\ spoken'[i] = spoken[i])
      <3>1. spoken \in Seq(Said) /\ line \in Said
        BY DEF StatelessTypes, Said
      <3>2. \A e \in Said :
              /\ Append(spoken, e) \in Seq(Said)
              /\ \A i \in DOMAIN Append(spoken, e) :
                   \/ Append(spoken, e)[i] = e
                   \/ i \in DOMAIN spoken /\ Append(spoken, e)[i] = spoken[i]
        BY <3>1, OneIn
      <3> QED
        BY <2>1, <3>1, <3>2
    <2> QED
      BY <1>6, <2>1, <2>2 DEF ChildSpeaks, StatelessInv, StatelessTypes, ScriptFollowed,
                              AnswersFollow, ExchangeAt, Script
  <1>7. CASE ChildEnds
    BY <1>7 DEF ChildEnds, StatelessInv, StatelessTypes, ScriptFollowed, AnswersFollow,
                ExchangeAt, Script
  <1>8. CASE UNCHANGED statelessVars
    BY <1>8 DEF statelessVars, StatelessInv, StatelessTypes, ScriptFollowed, AnswersFollow,
                ExchangeAt, Script
  <1> QED
    BY <1>1, <1>2, <1>3, <1>4, <1>5, <1>6, <1>7, <1>8 DEF StatelessNext

\* The child of an exchange is given the handshake and the message in order,
\* and its answer is taken after all of it.
THEOREM ChildIsServedInOrder == StatelessSpec => []ChildServedInOrder
  <1>1. StatelessInit => StatelessInv
    <2>1. <<>> \in Seq(ScriptLines) /\ <<>> \in Seq(Said) /\ DOMAIN <<>> = {}
      OBVIOUS
    <2> QED
      BY <2>1 DEF StatelessInit, StatelessInv, StatelessTypes, ScriptFollowed, AnswersFollow,
                  ExchangeAt, Payloads
  <1>2. StatelessInv => ChildServedInOrder
    <2> SUFFICES ASSUME StatelessInv PROVE IsPrefix(given, Script)
      BY DEF StatelessInv, AnswersFollow, ExchangeAt, ChildServedInOrder
    <2>1. \/ given \in {<<>>, <<"auto">>, <<"auto", "initialized">>, Handshake}
             /\ Script = Handshake
          \/ given \in {<<>>, <<"payload">>} /\ Script = <<"payload">>
      BY DEF StatelessInv, ScriptFollowed, Script, Handshake
    <2> QED
      BY <2>1 DEF IsPrefix, Handshake
  <1> QED
    BY <1>1, <1>2, ExchangeStep, PTL DEF StatelessSpec

-----------------------------------------------------------------------------
(* StreamBridge *)

\* A name of its own for the set, since the provers match Seq of a name better.
Numbers == Nat
Frames == [number : Nat, holds : Contents]

StreamTypes ==
  /\ transport \in {"ws", "grpc"}
  /\ bridge \in {"connect", "select", "write", "done", "failed"}
  /\ asked \in Nat /\ frames \in Nat
  /\ inHand \in Seq(Numbers) /\ outbound \in Seq(Numbers) /\ toServer \in Seq(Numbers)
  /\ got \in Seq(Numbers) /\ printed \in Seq(Nat)
  /\ toBridge \in Seq(Frames)

\* Requests in flight are those read from stdin, in order.
RequestsInOrder ==
  /\ got \o toServer \o outbound \o inHand = Upto(asked)
  /\ transport = "ws" => outbound = <<>>
  /\ bridge \in {"connect", "select", "done"} => inHand = <<>>

\* Frames are printed, wait and are written in the order of their numbers.
FramesInOrder ==
  /\ \A i, j \in DOMAIN printed : i < j => printed[i] < printed[j]
  /\ \A i \in DOMAIN printed, j \in DOMAIN toBridge : printed[i] < toBridge[j].number
  /\ \A i, j \in DOMAIN toBridge : i < j => toBridge[i].number < toBridge[j].number
  /\ \A i \in DOMAIN printed : printed[i] <= frames
  /\ \A i \in DOMAIN toBridge : toBridge[i].number <= frames

StreamInv == StreamTypes /\ RequestsInOrder /\ FramesInOrder

\* The requests so far, and one more.
LEMMA UptoMore ==
  ASSUME NEW n \in Nat
  PROVE  Upto(n) \o <<n + 1>> = Upto(n + 1)
  <1>1. Upto(n) \in Seq(Nat) /\ Len(Upto(n)) = n /\ \A i \in 1 .. n : Upto(n)[i] = i
    BY DEF Upto
  <1>2. Upto(n + 1) \in Seq(Nat) /\ Len(Upto(n + 1)) = n + 1
        /\ \A i \in 1 .. n + 1 : Upto(n + 1)[i] = i
    BY DEF Upto
  <1>3. <<n + 1>> \in Seq(Nat) /\ Len(<<n + 1>>) = 1
    OBVIOUS
  <1>4. /\ Upto(n) \o <<n + 1>> \in Seq(Nat) /\ Len(Upto(n) \o <<n + 1>>) = n + 1
        /\ \A i \in 1 .. n + 1 :
             (Upto(n) \o <<n + 1>>)[i] = IF i <= n THEN Upto(n)[i] ELSE <<n + 1>>[i - n]
    BY <1>1, <1>3, ConcatProperties
  <1>5. \A i \in 1 .. n + 1 : (Upto(n) \o <<n + 1>>)[i] = Upto(n + 1)[i]
    BY <1>1, <1>2, <1>4
  <1> QED
    BY <1>2, <1>4, <1>5, SeqEqual

\* Every step keeps the types.
LEMMA StreamTypedStep ==
  ASSUME StreamTypes, [BridgeNext]_streamVars
  PROVE  StreamTypes'
  <1>1. CASE ConnectBridge \/ EndOfInput \/ BridgeFails
    BY <1>1 DEF ConnectBridge, EndOfInput, BridgeFails, StreamTypes
  <1>2. CASE ReadRequest
    BY <1>2 DEF ReadRequest, StreamTypes, Numbers
  <1>3. CASE WriteRequest
    <2>1. /\ toServer \o inHand \in Seq(Numbers) /\ outbound \o inHand \in Seq(Numbers)
          /\ <<>> \in Seq(Numbers)
      BY ConcatProperties DEF StreamTypes
    <2> QED
      BY <1>3, <2>1 DEF WriteRequest, StreamTypes
  <1>4. CASE ReadFrame
    <2>1. /\ toBridge # <<>> /\ toBridge' = Tail(toBridge)
          /\ printed' \in {printed, Append(printed, Head(toBridge).number)}
          /\ bridge' \in {"select", "failed"}
      BY <1>4 DEF ReadFrame, TakeFrame
    <2>2. Head(toBridge) \in Frames /\ Tail(toBridge) \in Seq(Frames)
      BY <2>1, HeadTailProperties DEF StreamTypes
    <2>3. printed' \in Seq(Nat)
      <3>1. printed \in Seq(Nat) /\ Head(toBridge).number \in Nat
        BY <2>2 DEF StreamTypes, Frames
      <3> QED
        BY <2>1, <3>1, Appended, SMTT(30)
    <2> QED
      BY <1>4, <2>1, <2>2, <2>3 DEF ReadFrame, StreamTypes
  <1>5. CASE Transmit
    BY <1>5, PassedOn DEF Transmit, StreamTypes
  <1>6. CASE ServerReads
    BY <1>6, PassedOn DEF ServerReads, StreamTypes
  <1>7. CASE ServerWrites
    <2>1. PICK c \in Contents :
            toBridge' = Append(toBridge, [number |-> frames + 1, holds |-> c])
      BY <1>7 DEF ServerWrites
    <2>2. [number |-> frames + 1, holds |-> c] \in Frames
      BY DEF Frames, StreamTypes
    <2> QED
      BY <1>7, <2>1, <2>2 DEF ServerWrites, StreamTypes
  <1> QED
    BY <1>1, <1>2, <1>3, <1>4, <1>5, <1>6, <1>7 DEF BridgeNext, streamVars, StreamTypes

\* Every step keeps the requests in order.
LEMMA RequestsStep ==
  ASSUME StreamTypes, RequestsInOrder, [BridgeNext]_streamVars
  PROVE  RequestsInOrder'
  <1>0. /\ inHand \in Seq(Numbers) /\ outbound \in Seq(Numbers) /\ toServer \in Seq(Numbers)
        /\ got \in Seq(Numbers) /\ asked \in Nat
        /\ got \o toServer \in Seq(Numbers) /\ got \o toServer \o outbound \in Seq(Numbers)
    BY ConcatProperties DEF StreamTypes
  <1>1. CASE ConnectBridge \/ EndOfInput \/ BridgeFails \/ ReadFrame
    BY <1>1 DEF ConnectBridge, EndOfInput, BridgeFails, ReadFrame, TakeFrame, RequestsInOrder
  <1>2. CASE ReadRequest
    <2>1. got \o toServer \o outbound = Upto(asked)
      BY <1>0, <1>2, ConcatEmptySeq DEF ReadRequest, RequestsInOrder
    <2> QED
      BY <1>0, <1>2, <2>1, UptoMore DEF ReadRequest, RequestsInOrder
  <1>3. CASE WriteRequest
    <2>1. CASE transport = "ws"
      <3>1. got \o toServer \o outbound = got \o toServer
        BY <1>0, <2>1, ConcatEmptySeq DEF RequestsInOrder
      <3>2. got \o (toServer \o inHand) \o <<>> = got \o toServer \o inHand
        <4>1. got \in Seq(Numbers) /\ toServer \in Seq(Numbers) /\ inHand \in Seq(Numbers)
          BY <1>0
        <4> QED
          BY <4>1, HandedOver
      <3>3. got \o toServer \o inHand \in Seq(Numbers)
        BY <1>0, ConcatProperties
      <3>4. got \o toServer \o inHand \o <<>> = got \o toServer \o inHand
        BY <3>3, ConcatEmptySeq
      <3> QED
        BY <1>3, <2>1, <3>1, <3>2, <3>4 DEF WriteRequest, RequestsInOrder
    <2>2. CASE transport # "ws"
      <3>1. PICK sent \in Seq(Numbers) : sent = got \o toServer
        BY <1>0
      <3>2. sent \o (outbound \o inHand) \o <<>> = sent \o outbound \o inHand
        <4>1. outbound \in Seq(Numbers) /\ inHand \in Seq(Numbers) /\ sent \in Seq(Numbers)
          BY <1>0
        <4> QED
          BY <4>1, HandedOver
      <3> QED
        BY <1>3, <2>2, <3>1, <3>2 DEF WriteRequest, RequestsInOrder
    <2> QED
      BY <2>1, <2>2
  <1>4. CASE Transmit
    <2>0. outbound # <<>>
      BY <1>4 DEF Transmit
    <2>1. got \o Append(toServer, Head(outbound)) \o Tail(outbound) = got \o toServer \o outbound
      <3>1. /\ Head(outbound) \in Numbers /\ <<Head(outbound)>> \in Seq(Numbers)
            /\ Append(toServer, Head(outbound)) = toServer \o <<Head(outbound)>>
        BY <1>0, <2>0, PassedOn, AppendIsConcat
      <3>2. PICK sent \in Seq(Numbers) : sent = got \o toServer
        BY <1>0
      <3>3. Append(sent, Head(outbound)) = sent \o <<Head(outbound)>>
        BY <3>1, <3>2, AppendIsConcat
      <3>4. Append(sent, Head(outbound)) \o Tail(outbound) = sent \o outbound
        <4>1. outbound \in Seq(Numbers) /\ sent \in Seq(Numbers)
          BY <1>0
        <4> QED
          BY <4>1, <2>0, PassedOn
      <3>5. got \o (toServer \o <<Head(outbound)>>) = got \o toServer \o <<Head(outbound)>>
        <4>1. got \in Seq(Numbers) /\ toServer \in Seq(Numbers)
          BY <1>0
        <4> QED
          BY <4>1, <3>1, ConcatAssociative
      <3> QED
        BY <3>1, <3>2, <3>3, <3>4, <3>5
    <2> QED
      BY <1>4, <2>1 DEF Transmit, RequestsInOrder
  <1>5. CASE ServerReads
    <2>1. Append(got, Head(toServer)) \o Tail(toServer) = got \o toServer
      BY <1>0, <1>5, PassedOn DEF ServerReads
    <2> QED
      BY <1>5, <2>1 DEF ServerReads, RequestsInOrder
  <1>6. CASE ServerWrites \/ UNCHANGED streamVars
    BY <1>6 DEF ServerWrites, streamVars, RequestsInOrder
  <1> QED
    BY <1>1, <1>2, <1>3, <1>4, <1>5, <1>6 DEF BridgeNext

\* Every step keeps the frames in order.
LEMMA FramesStep ==
  ASSUME StreamTypes, FramesInOrder, [BridgeNext]_streamVars
  PROVE  FramesInOrder'
  <1>0. /\ DOMAIN printed = 1 .. Len(printed) /\ Len(printed) \in Nat
        /\ \A i \in DOMAIN printed : printed[i] \in Nat
        /\ frames \in Nat /\ printed \in Seq(Nat) /\ toBridge \in Seq(Frames)
    BY DEF StreamTypes
  <1>1. CASE ReadFrame
    <2> DEFINE n == Head(toBridge).number
    <2>1. /\ toBridge # <<>> /\ toBridge' = Tail(toBridge) /\ UNCHANGED frames
          /\ printed' = printed \/ printed' = Append(printed, n)
      BY <1>1 DEF ReadFrame, TakeFrame
    <2>2. /\ DOMAIN toBridge = 1 .. Len(toBridge) /\ Len(toBridge) \in Nat \ {0}
          /\ Head(toBridge) = toBridge[1]
          /\ DOMAIN toBridge' = 1 .. Len(toBridge) - 1
          /\ \A i \in 1 .. Len(toBridge) - 1 : toBridge'[i] = toBridge[i + 1]
          /\ \A i \in DOMAIN toBridge : toBridge[i] \in Frames
      BY <1>0, <2>1, Shifted
    <2>3. \A i \in DOMAIN toBridge : toBridge[i].number \in Nat
      BY <2>2 DEF Frames
    <2>a. 1 \in DOMAIN toBridge /\ n = toBridge[1].number
      BY <2>2
    <2>b. \A i \in DOMAIN toBridge' :
            /\ i + 1 \in DOMAIN toBridge /\ toBridge'[i] = toBridge[i + 1]
            /\ 1 < i + 1 /\ i \in Int
      BY <2>2
    <2>c. /\ \A i \in DOMAIN printed : printed[i] < n
          /\ n <= frames /\ n \in Nat
      BY <2>3, <2>a DEF FramesInOrder
    <2>d. \A i \in DOMAIN toBridge' : n < toBridge'[i].number /\ toBridge'[i].number <= frames
      BY <2>a, <2>b DEF FramesInOrder
    <2>e. \A i, j \in DOMAIN toBridge' : i < j => toBridge'[i].number < toBridge'[j].number
      <3> TAKE i, j \in DOMAIN toBridge'
      <3>1. i < j => i + 1 < j + 1
        BY <2>b
      <3> QED
        BY <2>b, <3>1 DEF FramesInOrder
    <2>4. /\ \A i \in DOMAIN toBridge' : n < toBridge'[i].number /\ toBridge'[i].number <= frames
          /\ \A i, j \in DOMAIN toBridge' : i < j => toBridge'[i].number < toBridge'[j].number
          /\ \A i \in DOMAIN printed : printed[i] < n
          /\ n <= frames /\ n \in Nat
      BY <2>c, <2>d, <2>e
    <2>5. \A i \in DOMAIN toBridge' : toBridge'[i].number \in Nat
      BY <2>2, <2>3
    <2>6. CASE printed' = printed
      BY <1>0, <2>1, <2>4, <2>5, <2>6 DEF FramesInOrder
    <2>7. CASE printed' = Append(printed, n)
      <3>1. /\ DOMAIN printed' = 1 .. Len(printed) + 1
            /\ \A i \in 1 .. Len(printed) : printed'[i] = printed[i]
            /\ printed'[Len(printed) + 1] = n
        BY <1>0, <2>4, <2>7, Appended
      <3>2. \A i \in DOMAIN printed' :
              printed'[i] = n \/ (i \in DOMAIN printed /\ printed'[i] = printed[i])
        BY <1>0, <3>1
      <3>3. \A i \in DOMAIN printed' : printed'[i] \in Nat /\ printed'[i] <= n
        BY <1>0, <2>4, <3>2
      <3>4. \A i, j \in DOMAIN printed' : i < j => printed'[i] < printed'[j]
        BY <1>0, <2>4, <3>1, SMTT(30) DEF FramesInOrder
      <3>5. \A i \in DOMAIN printed', j \in DOMAIN toBridge' : printed'[i] < toBridge'[j].number
        BY <2>4, <2>5, <3>3
      <3>6. \A i \in DOMAIN printed' : printed'[i] <= frames'
        BY <1>0, <2>1, <2>4, <3>3
      <3> QED
        BY <2>1, <2>4, <3>4, <3>5, <3>6 DEF FramesInOrder
    <2> QED
      BY <2>1, <2>6, <2>7
  <1>2. CASE ServerWrites
    <2>1. PICK c \in Contents :
            toBridge' = Append(toBridge, [number |-> frames + 1, holds |-> c])
      BY <1>2 DEF ServerWrites
    <2>2. [number |-> frames + 1, holds |-> c] \in Frames
      BY <1>0 DEF Frames
    <2>3. /\ DOMAIN toBridge = 1 .. Len(toBridge) /\ Len(toBridge) \in Nat
          /\ DOMAIN toBridge' = 1 .. Len(toBridge) + 1
          /\ \A i \in 1 .. Len(toBridge) : toBridge'[i] = toBridge[i]
          /\ toBridge'[Len(toBridge) + 1] = [number |-> frames + 1, holds |-> c]
          /\ \A i \in DOMAIN toBridge : toBridge[i] \in Frames
      BY <1>0, <2>1, <2>2, Appended
    <2>4. /\ \A i \in DOMAIN toBridge : toBridge[i].number \in Nat
          /\ toBridge'[Len(toBridge) + 1].number = frames + 1
      BY <2>3 DEF Frames
    <2>5. frames' = frames + 1 /\ UNCHANGED printed
      BY <1>2 DEF ServerWrites
    <2>6. \A i \in DOMAIN toBridge' :
            \/ i \in DOMAIN toBridge /\ toBridge'[i] = toBridge[i]
            \/ i = Len(toBridge) + 1 /\ toBridge'[i].number = frames + 1
      BY <2>3, <2>4
    <2>7. \A i \in DOMAIN toBridge' : toBridge'[i].number <= frames'
      BY <1>0, <2>4, <2>5, <2>6 DEF FramesInOrder
    <2>8. \A i, j \in DOMAIN toBridge' : i < j => toBridge'[i].number < toBridge'[j].number
      <3> SUFFICES ASSUME NEW i \in DOMAIN toBridge', NEW j \in DOMAIN toBridge', i < j
                   PROVE  toBridge'[i].number < toBridge'[j].number
        OBVIOUS
      <3>1. i \in DOMAIN toBridge /\ toBridge'[i] = toBridge[i]
        BY <2>3
      <3>2. toBridge[i].number \in Nat /\ toBridge[i].number <= frames
        BY <2>4, <3>1 DEF FramesInOrder
      <3>3. CASE j \in DOMAIN toBridge /\ toBridge'[j] = toBridge[j]
        BY <3>1, <3>3 DEF FramesInOrder
      <3>4. CASE toBridge'[j].number = frames + 1
        BY <1>0, <3>1, <3>2, <3>4
      <3> QED
        BY <2>6, <3>3, <3>4
    <2>9. \A i \in DOMAIN printed', j \in DOMAIN toBridge' : printed'[i] < toBridge'[j].number
      BY <1>0, <2>5, <2>6 DEF FramesInOrder
    <2>10. /\ \A i, j \in DOMAIN printed' : i < j => printed'[i] < printed'[j]
           /\ \A i \in DOMAIN printed' : printed'[i] <= frames'
      BY <1>0, <2>5 DEF FramesInOrder
    <2> QED
      BY <2>7, <2>8, <2>9, <2>10 DEF FramesInOrder
  <1> QED
    BY <1>1, <1>2
    DEF BridgeNext, ConnectBridge, ReadRequest, WriteRequest, EndOfInput, BridgeFails, Transmit,
        ServerReads, streamVars, FramesInOrder

\* A bridge loses and overtakes no request while it runs, whatever the bounds.
THEOREM BridgeIsOrdered == BridgeSpec => []BridgeKeepsOrder
  <1>1. BridgeInit => StreamInv
    <2> SUFFICES ASSUME BridgeInit PROVE StreamInv
      OBVIOUS
    <2>1. <<>> \in Seq(Nat) /\ <<>> \in Seq(Numbers) /\ <<>> \in Seq(Frames) /\ DOMAIN <<>> = {}
      OBVIOUS
    <2>2. Upto(0) = <<>>
      BY DEF Upto
    <2>3. <<>> \o <<>> = <<>>
      BY ConcatEmptySeq, <2>1
    <2> QED
      BY <2>1, <2>2, <2>3
      DEF BridgeInit, StreamInv, StreamTypes, RequestsInOrder, FramesInOrder
  <1>2. StreamInv /\ [BridgeNext]_streamVars => StreamInv'
    BY StreamTypedStep, RequestsStep, FramesStep DEF StreamInv
  <1>3. StreamInv => BridgeKeepsOrder
    <2> SUFFICES ASSUME StreamInv, bridge = "done", transport = "ws"
                 PROVE  got \o toServer = Upto(asked)
      BY DEF StreamInv, RequestsInOrder, FramesInOrder, BridgeKeepsOrder
    <2>1. got \o toServer \in Seq(Numbers)
      BY ConcatProperties DEF StreamInv, StreamTypes
    <2> QED
      BY <2>1, ConcatEmptySeq DEF StreamInv, RequestsInOrder
  <1> QED
    BY <1>1, <1>2, <1>3, PTL DEF BridgeSpec

-----------------------------------------------------------------------------
(* LogWatch *)

Stages == {"off", "mark", "sleep", "read", "seek", "ended"}
Watches ==
  [kind : {"tail", "web"}, stage : Stages, offset : Nat, size : Nat, text : Seq(Nat),
   since : Nat]

LogTypes ==
  /\ log \in Seq(Nat) /\ written \in Nat
  /\ watch \in Watches
  /\ shown \in Seq(Nat) /\ stream \in Seq(Nat) /\ received \in Seq(Nat)
  /\ watch.since <= Len(shown)

\* What was shown since a size that could not be taken sent a tail back.
Fresh == SubSeq(shown, watch.since + 1, Len(shown))

\* A sequence in ascending order, one that is below another, and one whose
\* elements are all from another.
Rising(q) == \A i, j \in DOMAIN q : i < j => q[i] < q[j]
Below(p, q) == \A i \in DOMAIN p, j \in DOMAIN q : p[i] < q[j]
From(q, p) == \A i \in DOMAIN q : \E k \in DOMAIN p : q[i] = p[k]

\* The file is in the order of writing, and nothing is shown that was not written.
LogRises ==
  /\ Rising(log) /\ \A i \in DOMAIN log : log[i] <= written
  /\ Rising(Fresh) /\ \A i \in DOMAIN Fresh : Fresh[i] <= written

\* What is after the offset was not shown yet, and in a file that was truncated
\* since the offset was taken nothing was.
Ahead ==
  \/ Below(Fresh, log)
  \/ /\ watch.offset <= Len(log)
     /\ \A i \in DOMAIN Fresh, j \in DOMAIN log : j > watch.offset => Fresh[i] < log[j]

WatchFollows ==
  /\ watch.stage = "off" => shown = <<>>
  /\ watch.stage \in {"sleep", "read", "seek"} => Ahead
  /\ watch.stage = "seek" =>
       /\ Rising(watch.text) /\ Below(Fresh, watch.text)
       /\ \A i \in DOMAIN watch.text : watch.text[i] <= written

\* The socket has what was broadcast, in order and with gaps.
SocketFollows ==
  /\ Rising(received) /\ Rising(stream) /\ Below(received, stream)
  /\ From(received, Fresh) /\ From(stream, Fresh)

\* Only a tail goes back, and it has no socket.
OnlyTailsGoBack ==
  /\ watch.kind = "tail" => stream = <<>> /\ received = <<>>
  /\ watch.kind = "web" => watch.since = 0
  /\ watch.kind = "web" /\ watch.stage \in {"off", "mark"} => shown = <<>>

LogInv == LogTypes /\ LogRises /\ WatchFollows /\ SocketFollows /\ OnlyTailsGoBack

\* Two sequences, one after the other.
LEMMA Joined ==
  ASSUME NEW p \in Seq(Nat), NEW q \in Seq(Nat)
  PROVE  /\ p \o q \in Seq(Nat)
         /\ \A i \in DOMAIN (p \o q) :
              \/ i \in DOMAIN p /\ (p \o q)[i] = p[i]
              \/ i - Len(p) \in DOMAIN q /\ (p \o q)[i] = q[i - Len(p)] /\ i > Len(p)
         /\ \A i \in DOMAIN p : i \in DOMAIN (p \o q) /\ (p \o q)[i] = p[i]
         /\ \A i \in DOMAIN q :
              i + Len(p) \in DOMAIN (p \o q) /\ (p \o q)[i + Len(p)] = q[i]
         /\ Rising(p) /\ Rising(q) /\ Below(p, q) => Rising(p \o q)
  <1>1. /\ p \o q \in Seq(Nat) /\ DOMAIN (p \o q) = 1 .. Len(p) + Len(q)
        /\ DOMAIN p = 1 .. Len(p) /\ DOMAIN q = 1 .. Len(q)
        /\ Len(p) \in Nat /\ Len(q) \in Nat
        /\ \A i \in 1 .. Len(p) + Len(q) :
             (p \o q)[i] = IF i <= Len(p) THEN p[i] ELSE q[i - Len(p)]
    OBVIOUS
  <1>2. \A i \in DOMAIN (p \o q) :
          \/ i \in DOMAIN p /\ (p \o q)[i] = p[i]
          \/ i - Len(p) \in DOMAIN q /\ (p \o q)[i] = q[i - Len(p)] /\ i > Len(p)
    BY <1>1
  <1>3. ASSUME Rising(p), Rising(q), Below(p, q)
        PROVE  Rising(p \o q)
    <2> SUFFICES ASSUME NEW i \in DOMAIN (p \o q), NEW j \in DOMAIN (p \o q), i < j
                 PROVE  (p \o q)[i] < (p \o q)[j]
      BY DEF Rising
    <2>1. i \in Int /\ j \in Int /\ i >= 1
      <3>1. i \in 1 .. Len(p) + Len(q) /\ j \in 1 .. Len(p) + Len(q)
        BY <1>1, Zenon
      <3> QED
        BY <1>1, <3>1
    <2>2. CASE j \in DOMAIN p
      <3>1. j <= Len(p) /\ Len(p) \in Nat
        BY <1>1, <2>2
      <3>2. i \in 1 .. Len(p)
        BY <2>1, <3>1
      <3>3. i \in DOMAIN p /\ (p \o q)[i] = p[i] /\ (p \o q)[j] = p[j]
        BY <1>1, <1>2, <2>2, <3>1, <3>2
      <3> QED
        BY <1>3, <2>2, <3>3 DEF Rising
    <2>3. CASE j \notin DOMAIN p /\ i \in DOMAIN p
      BY <1>2, <1>1, <1>3, <2>3 DEF Below
    <2>4. CASE j \notin DOMAIN p /\ i \notin DOMAIN p
      <3>1. i - Len(p) \in DOMAIN q /\ j - Len(p) \in DOMAIN q /\ i - Len(p) < j - Len(p)
        BY <1>1, <1>2, <2>1, <2>4
      <3> QED
        BY <1>2, <1>3, <2>4, <3>1 DEF Rising
    <2> QED
      BY <2>2, <2>3, <2>4
  <1>4. /\ \A i \in DOMAIN p : i \in DOMAIN (p \o q) /\ (p \o q)[i] = p[i]
        /\ \A i \in DOMAIN q : i + Len(p) \in DOMAIN (p \o q) /\ (p \o q)[i + Len(p)] = q[i]
    BY <1>1
  <1> QED
    BY <1>1, <1>2, <1>3, <1>4

\* The end of a sequence.
LEMMA PartOf ==
  ASSUME NEW q \in Seq(Nat), NEW m \in Nat \ {0}
  PROVE  /\ SubSeq(q, m, Len(q)) \in Seq(Nat)
         /\ \A i \in DOMAIN SubSeq(q, m, Len(q)) :
              i + m - 1 \in DOMAIN q /\ i >= 1 /\ SubSeq(q, m, Len(q))[i] = q[i + m - 1]
         /\ Rising(q) => Rising(SubSeq(q, m, Len(q)))
  <1>1. DOMAIN q = 1 .. Len(q) /\ Len(q) \in Nat /\ \A i \in m .. Len(q) : q[i] \in Nat
    OBVIOUS
  <1>2. /\ SubSeq(q, m, Len(q)) \in Seq(Nat)
        /\ DOMAIN SubSeq(q, m, Len(q)) = 1 .. Len(q) - m + 1
        /\ \A i \in 1 .. Len(q) - m + 1 : SubSeq(q, m, Len(q))[i] = q[m + i - 1]
    BY <1>1, SubSeqProperties
  <1>3. \A i \in DOMAIN SubSeq(q, m, Len(q)) :
          i + m - 1 \in DOMAIN q /\ i >= 1 /\ SubSeq(q, m, Len(q))[i] = q[i + m - 1]
    BY <1>1, <1>2
  <1>4. ASSUME Rising(q) PROVE Rising(SubSeq(q, m, Len(q)))
    <2> SUFFICES ASSUME NEW i \in DOMAIN SubSeq(q, m, Len(q)),
                        NEW j \in DOMAIN SubSeq(q, m, Len(q)), i < j
                 PROVE  SubSeq(q, m, Len(q))[i] < SubSeq(q, m, Len(q))[j]
      BY DEF Rising
    <2>1. i + m - 1 < j + m - 1
      BY <1>2
    <2> QED
      BY <1>3, <1>4, <2>1 DEF Rising
  <1> QED
    BY <1>2, <1>3, <1>4

\* The latest of a sequence.
LEMMA LatestIs ==
  ASSUME NEW q \in Seq(Nat), NEW n \in Nat
  PROVE  /\ Latest(q, n) \in Seq(Nat) /\ From(Latest(q, n), q)
         /\ Rising(q) => Rising(Latest(q, n))
  <1>1. CASE Len(q) > n
    <2>1. Len(q) - n + 1 \in Nat \ {0} /\ Latest(q, n) = SubSeq(q, Len(q) - n + 1, Len(q))
      BY <1>1 DEF Latest
    <2> QED
      BY <2>1, PartOf DEF From
  <1>2. CASE ~(Len(q) > n)
    BY <1>2 DEF Latest, From
  <1> QED
    BY <1>1, <1>2

\* A sequence after its first k elements.
LEMMA AfterFirst ==
  ASSUME NEW q \in Seq(Nat), NEW k \in 0 .. Len(q)
  PROVE  /\ SubSeq(q, k + 1, Len(q)) \in Seq(Nat)
         /\ Len(SubSeq(q, k + 1, Len(q))) = Len(q) - k
         /\ \A i \in 1 .. Len(q) - k : SubSeq(q, k + 1, Len(q))[i] = q[k + i]
  <1>1. /\ Len(q) \in Nat /\ k \in Nat /\ k <= Len(q)
        /\ \A i \in k + 1 .. Len(q) : q[i] \in Nat
    OBVIOUS
  <1>2. /\ SubSeq(q, k + 1, Len(q)) \in Seq(Nat)
        /\ Len(SubSeq(q, k + 1, Len(q))) = IF k + 1 <= Len(q) THEN Len(q) - (k + 1) + 1 ELSE 0
        /\ \A i \in 1 .. Len(q) - (k + 1) + 1 : SubSeq(q, k + 1, Len(q))[i] = q[k + 1 + i - 1]
    BY <1>1, SubSeqProperties
  <1> QED
    BY <1>1, <1>2

\* What joining lines does to the fresh part of what was shown.
LEMMA FreshJoined ==
  ASSUME NEW p \in Seq(Nat), NEW q \in Seq(Nat), NEW k \in 0 .. Len(p)
  PROVE  SubSeq(p \o q, k + 1, Len(p \o q)) = SubSeq(p, k + 1, Len(p)) \o q
  <1> DEFINE a == SubSeq(p \o q, k + 1, Len(p \o q))
             f == SubSeq(p, k + 1, Len(p))
             b == f \o q
  <1>1. /\ p \o q \in Seq(Nat) /\ Len(p \o q) = Len(p) + Len(q)
        /\ Len(p) \in Nat /\ Len(q) \in Nat /\ k \in Nat /\ k <= Len(p)
        /\ \A i \in 1 .. Len(p) + Len(q) :
             (p \o q)[i] \in Nat /\ (p \o q)[i] = IF i <= Len(p) THEN p[i] ELSE q[i - Len(p)]
        /\ \A i \in 1 .. Len(p) : p[i] \in Nat
    OBVIOUS
  <1>2. /\ f \in Seq(Nat) /\ Len(f) = Len(p) - k
        /\ \A i \in 1 .. Len(p) - k : f[i] = p[k + i]
    BY AfterFirst
  <1>3. /\ a \in Seq(Nat) /\ Len(a) = Len(p) + Len(q) - k
        /\ \A i \in 1 .. Len(p) + Len(q) - k : a[i] = (p \o q)[k + i]
    <2>1. k \in 0 .. Len(p \o q)
      BY <1>1
    <2> QED
      BY <1>1, <2>1, AfterFirst
  <1> HIDE DEF a, f
  <1>4. /\ b \in Seq(Nat) /\ Len(b) = Len(f) + Len(q)
        /\ \A i \in 1 .. Len(f) + Len(q) : b[i] = IF i <= Len(f) THEN f[i] ELSE q[i - Len(f)]
    BY <1>2, ConcatProperties
  <1> HIDE DEF b
  <1>5. Len(a) = Len(b)
    BY <1>1, <1>2, <1>3, <1>4
  <1>6. ASSUME NEW i \in 1 .. Len(a) PROVE a[i] = b[i]
    <2>1. i \in Nat /\ i >= 1 /\ i <= Len(p) + Len(q) - k
      BY <1>1, <1>3
    <2>2. a[i] = (p \o q)[k + i] /\ k + i \in 1 .. Len(p) + Len(q)
      BY <1>1, <1>3, <2>1
    <2>3. CASE i <= Len(f)
      BY <1>1, <1>2, <1>4, <2>1, <2>2, <2>3
    <2>4. CASE ~(i <= Len(f))
      BY <1>1, <1>2, <1>4, <2>1, <2>2, <2>4
    <2> QED
      BY <2>3, <2>4
  <1>7. a = b
    BY <1>3, <1>4, <1>5, <1>6, SeqEqual
  <1> QED
    BY <1>7 DEF a, b, f

\* The fresh part is a sequence of numbers, and all of it if nobody went back.
LEMMA FreshIs ==
  ASSUME LogTypes
  PROVE  /\ watch.since \in 0 .. Len(shown)
         /\ Fresh \in Seq(Nat)
         /\ \A i \in DOMAIN Fresh : Fresh[i] \in Nat
         /\ shown = <<>> => Fresh = <<>>
         /\ \A i \in watch.since + 1 .. Len(shown) :
              i - watch.since \in DOMAIN Fresh /\ Fresh[i - watch.since] = shown[i]
  <1>1. /\ watch.since \in Nat /\ shown \in Seq(Nat) /\ Len(shown) \in Nat
        /\ watch.since <= Len(shown) /\ \A i \in 1 .. Len(shown) : shown[i] \in Nat
    BY DEF LogTypes, Watches
  <1>2. /\ Fresh \in Seq(Nat) /\ Len(Fresh) = Len(shown) - watch.since
        /\ \A i \in 1 .. Len(shown) - watch.since : Fresh[i] = shown[watch.since + i]
    <2>1. watch.since \in 0 .. Len(shown)
      BY <1>1
    <2> QED
      BY <1>1, <2>1, AfterFirst DEF Fresh
  <1>3. shown = <<>> => Fresh = <<>>
    BY <1>1, <1>2
  <1>4. ASSUME NEW i \in watch.since + 1 .. Len(shown)
        PROVE  i - watch.since \in DOMAIN Fresh /\ Fresh[i - watch.since] = shown[i]
    <2>1. i - watch.since \in 1 .. Len(shown) - watch.since /\ watch.since + (i - watch.since) = i
      BY <1>1
    <2>2. DOMAIN Fresh = 1 .. Len(Fresh)
      BY <1>2, LenProperties
    <2> QED
      BY <1>2, <2>1, <2>2
  <1>5. \A i \in DOMAIN Fresh : Fresh[i] \in Nat
    BY <1>2
  <1> QED
    BY <1>1, <1>2, <1>3, <1>4, <1>5

\* What ShowLines makes of lines that are in order and after all that was shown.
LEMMA LinesShown ==
  ASSUME LogTypes, LogRises, SocketFollows, UNCHANGED received, watch'.since = watch.since,
         NEW lines \in Seq(Nat), Rising(lines), Below(Fresh, lines),
         \A i \in DOMAIN lines : lines[i] <= written', written' = written, ShowLines(lines)
  PROVE  /\ shown' \in Seq(Nat) /\ stream' \in Seq(Nat) /\ watch'.since <= Len(shown')
         /\ Rising(Fresh') /\ \A i \in DOMAIN Fresh' : Fresh'[i] <= written'
         /\ SocketFollows'
  <1>1. /\ shown' = shown \o lines
        /\ stream' = <<>> \/ stream' = Latest(stream \o lines, StreamBuffer)
    BY DEF ShowLines
  <1>2. /\ shown \in Seq(Nat) /\ stream \in Seq(Nat) /\ received \in Seq(Nat)
        /\ StreamBuffer \in Nat /\ <<>> \in Seq(Nat) /\ DOMAIN <<>> = {}
        /\ Fresh \in Seq(Nat) /\ watch.since \in 0 .. Len(shown)
    BY FreshIs, LimitsAreNumbers DEF LogTypes
  <1>0. /\ Fresh' = Fresh \o lines
        /\ shown' \in Seq(Nat) /\ watch'.since <= Len(shown')
    <2>1. SubSeq(shown \o lines, watch.since + 1, Len(shown \o lines))
            = SubSeq(shown, watch.since + 1, Len(shown)) \o lines
      BY <1>2, FreshJoined
    <2>2. Len(shown \o lines) = Len(shown) + Len(lines) /\ shown \o lines \in Seq(Nat)
          /\ Len(lines) \in Nat /\ Len(shown) \in Nat
      BY <1>2
    <2>3. Fresh' = Fresh \o lines
      BY <1>1, <2>1 DEF Fresh
    <2> QED
      BY <1>1, <1>2, <2>2, <2>3
  <1>3. /\ Fresh' \in Seq(Nat) /\ Rising(Fresh')
        /\ \A i \in DOMAIN Fresh' : Fresh'[i] <= written'
        /\ \A i \in DOMAIN Fresh : \E k \in DOMAIN Fresh' : Fresh'[k] = Fresh[i]
        /\ \A i \in DOMAIN lines : \E k \in DOMAIN Fresh' : Fresh'[k] = lines[i]
    <2>1. /\ Fresh \o lines \in Seq(Nat) /\ Rising(Fresh \o lines)
          /\ \A i \in DOMAIN (Fresh \o lines) :
               \/ i \in DOMAIN Fresh /\ (Fresh \o lines)[i] = Fresh[i]
               \/ i - Len(Fresh) \in DOMAIN lines /\ (Fresh \o lines)[i] = lines[i - Len(Fresh)]
          /\ \A i \in DOMAIN Fresh :
               i \in DOMAIN (Fresh \o lines) /\ (Fresh \o lines)[i] = Fresh[i]
          /\ \A i \in DOMAIN lines :
               /\ i + Len(Fresh) \in DOMAIN (Fresh \o lines)
               /\ (Fresh \o lines)[i + Len(Fresh)] = lines[i]
      BY <1>2, Joined, SMTT(30) DEF LogRises
    <2>2. \A i \in DOMAIN Fresh : Fresh[i] <= written'
      BY DEF LogRises
    <2> QED
      BY <1>0, <2>1, <2>2
  <1>4. Below(stream, lines) /\ Below(received, lines)
    BY DEF SocketFollows, From, Below
  <1>5. From(received, Fresh') /\ From(stream, Fresh') /\ From(lines, Fresh')
    BY <1>3 DEF SocketFollows, From
  <1>6. ASSUME stream' = <<>> PROVE SocketFollows' /\ stream' \in Seq(Nat)
    BY <1>2, <1>3, <1>5, <1>6 DEF SocketFollows, Rising, Below, From
  <1>7. ASSUME stream' = Latest(stream \o lines, StreamBuffer)
        PROVE  SocketFollows' /\ stream' \in Seq(Nat)
    <2> DEFINE all == stream \o lines
    <2>1. /\ all \in Seq(Nat) /\ Rising(all)
          /\ \A i \in DOMAIN all :
               \/ \E k \in DOMAIN stream : all[i] = stream[k]
               \/ \E k \in DOMAIN lines : all[i] = lines[k]
      <3>1. Rising(stream)
        BY DEF SocketFollows
      <3>2. /\ stream \o lines \in Seq(Nat) /\ Rising(stream \o lines)
            /\ \A i \in DOMAIN (stream \o lines) :
                 \/ i \in DOMAIN stream /\ (stream \o lines)[i] = stream[i]
                 \/ /\ i - Len(stream) \in DOMAIN lines
                    /\ (stream \o lines)[i] = lines[i - Len(stream)]
        BY <1>2, <1>4, <3>1, Joined
      <3> QED
        BY <3>2, Zenon
    <2> HIDE DEF all
    <2>2. Below(received, all) /\ From(all, Fresh')
      <3>1. Below(received, stream)
        BY DEF SocketFollows
      <3>2. Below(received, all)
        <4> SUFFICES ASSUME NEW i \in DOMAIN received, NEW j \in DOMAIN all
                     PROVE  received[i] < all[j]
          BY DEF Below
        <4> QED
          BY <1>4, <2>1, <3>1 DEF Below
      <3>3. From(all, Fresh')
        <4> SUFFICES ASSUME NEW i \in DOMAIN all
                     PROVE  \E k \in DOMAIN Fresh' : all[i] = Fresh'[k]
          BY DEF From
        <4> QED
          BY <1>5, <2>1, SMTT(30) DEF From
      <3> QED
        BY <3>2, <3>3
    <2>3. /\ stream' \in Seq(Nat) /\ Rising(stream') /\ From(stream', all)
      BY <1>2, <1>7, <2>1, LatestIs DEF all
    <2>4. Below(received, stream') /\ From(stream', Fresh')
      BY <2>2, <2>3 DEF Below, From
    <2> QED
      BY <1>3, <1>5, <2>3, <2>4 DEF SocketFollows
  <1>8. SocketFollows' /\ stream' \in Seq(Nat)
    BY <1>1, <1>6, <1>7
  <1> QED
    BY <1>0, <1>3, <1>8

\* A tail that goes back has shown nothing since, and so the file is ahead of it.
LEMMA BackAtStart ==
  ASSUME LogTypes', LogRises, UNCHANGED <<log, written>>, Fresh' = <<>>,
         watch'.stage \in {"sleep", "read"}, stream' = <<>>, received' = <<>>
  PROVE  LogRises' /\ WatchFollows' /\ SocketFollows'
  <1>1. DOMAIN <<>> = {}
    OBVIOUS
  <1> QED
    BY <1>1 DEF LogRises, WatchFollows, SocketFollows, Ahead, Rising, Below, From

\* Every step keeps all of it.
LEMMA WatchStep == LogInv /\ [LogNext]_logVars => LogInv'
  <1> SUFFICES ASSUME LogInv, [LogNext]_logVars PROVE LogInv'
    OBVIOUS
  <1>0. LogTypes /\ LogRises /\ WatchFollows /\ SocketFollows /\ OnlyTailsGoBack
    BY DEF LogInv
  <1> USE <1>0
  <1>t. /\ log \in Seq(Nat) /\ written \in Nat /\ watch \in Watches /\ shown \in Seq(Nat)
        /\ watch.offset \in Nat /\ watch.text \in Seq(Nat) /\ watch.stage \in Stages
        /\ <<>> \in Seq(Nat) /\ DOMAIN <<>> = {}
        /\ DOMAIN log = 1 .. Len(log) /\ Len(log) \in Nat
        /\ \A i \in DOMAIN log : log[i] \in Nat
        /\ Fresh \in Seq(Nat) /\ \A i \in DOMAIN Fresh : Fresh[i] \in Nat
        /\ stream \in Seq(Nat) /\ received \in Seq(Nat)
        /\ watch.since \in Nat /\ watch.since <= Len(shown) /\ Len(shown) \in Nat
        /\ watch.kind \in {"tail", "web"}
    BY FreshIs DEF LogTypes, Watches
  <1>f. UNCHANGED shown /\ watch'.since = watch.since => Fresh' = Fresh
    BY DEF Fresh
  <1>g. watch'.since = Len(shown) /\ shown' = shown => Fresh' = <<>>
    BY <1>t, SubSeqEmpty DEF Fresh
  <1>1. CASE UNCHANGED <<log, written, watch, shown, stream, received>>
    BY <1>1, <1>f DEF LogInv, LogTypes, LogRises, WatchFollows, SocketFollows, OnlyTailsGoBack,
       Ahead, Rising, Below, From
  <1>2. ASSUME NEW p, Truncate(p) PROVE LogInv'
    <2>1. /\ log' = <<>> /\ UNCHANGED <<written, watch, shown, stream, received>>
          /\ Fresh' = Fresh
      BY <1>2, <1>f DEF Truncate
    <2>2. Ahead'
      BY <1>t, <2>1 DEF Ahead, Below
    <2> QED
      BY <1>t, <2>1, <2>2
      DEF LogInv, LogTypes, LogRises, WatchFollows, SocketFollows, OnlyTailsGoBack, Rising, Below,
          From
  <1>3. ASSUME NEW p, Record(p) PROVE LogInv'
    <2>1. /\ written' = written + 1 /\ log' = Append(log, written + 1)
          /\ UNCHANGED <<watch, shown, stream, received>> /\ Fresh' = Fresh
      BY <1>3, <1>f DEF Record
    <2>2. /\ log' \in Seq(Nat) /\ DOMAIN log' = 1 .. Len(log) + 1 /\ Len(log') = Len(log) + 1
          /\ \A i \in 1 .. Len(log) : log'[i] = log[i]
          /\ log'[Len(log) + 1] = written + 1
      BY <1>t, <2>1, Appended
    <2>3. \A i \in DOMAIN log' :
            (i \in DOMAIN log /\ log'[i] = log[i]) \/ (i = Len(log) + 1 /\ log'[i] = written + 1)
      BY <1>t, <2>2
    <2>4. /\ \A i \in DOMAIN log : log[i] < written + 1
          /\ \A i \in DOMAIN Fresh : Fresh[i] < written + 1
      BY <1>t DEF LogRises
    <2>5. LogRises'
      <3>1. Rising(log')
        <4> SUFFICES ASSUME NEW i \in DOMAIN log', NEW j \in DOMAIN log', i < j
                     PROVE  log'[i] < log'[j]
          BY DEF Rising
        <4>1. i \in DOMAIN log /\ log'[i] = log[i]
          <5>1. i \in 1 .. Len(log) + 1 /\ j \in 1 .. Len(log) + 1
            BY <2>2, Zenon
          <5>2. i \in 1 .. Len(log)
            BY <1>t, <5>1
          <5> QED
            BY <1>t, <2>2, <5>2
        <4>2. CASE j \in DOMAIN log /\ log'[j] = log[j]
          BY <4>1, <4>2 DEF LogRises, Rising
        <4>3. CASE log'[j] = written + 1
          BY <2>4, <4>1, <4>3
        <4> QED
          BY <2>3, <4>2, <4>3
      <3>2. \A i \in DOMAIN log' : log'[i] <= written'
        BY <1>t, <2>1, <2>3, <2>4
      <3>3. \A i \in DOMAIN Fresh' : Fresh'[i] <= written'
        BY <1>t, <2>1, <2>4
      <3> QED
        BY <2>1, <3>1, <3>2, <3>3 DEF LogRises
    <2>6. Ahead => Ahead'
      <3>1. CASE Below(Fresh, log)
        BY <2>1, <2>3, <2>4, <3>1 DEF Ahead, Below
      <3>2. CASE /\ watch.offset <= Len(log)
                 /\ \A i \in DOMAIN Fresh, j \in DOMAIN log : j > watch.offset => Fresh[i] < log[j]
        <4>1. watch'.offset <= Len(log')
          BY <1>t, <2>1, <2>2, <3>2
        <4>2. \A i \in DOMAIN Fresh', j \in DOMAIN log' : j > watch'.offset => Fresh'[i] < log'[j]
          BY <2>1, <2>3, <2>4, <3>2
        <4> QED
          BY <4>1, <4>2 DEF Ahead
      <3> QED
        BY <3>1, <3>2 DEF Ahead
    <2>7. WatchFollows'
      <3>1. watch.stage = "seek" => \A i \in DOMAIN watch.text : watch.text[i] <= written + 1
        BY <1>t DEF WatchFollows
      <3> QED
        BY <2>1, <2>6, <3>1 DEF WatchFollows, Rising, Below
    <2> QED
      BY <1>t, <2>1, <2>2, <2>5, <2>7 DEF LogInv, LogTypes, SocketFollows, OnlyTailsGoBack,
         Rising, Below, From
  <1>4. CASE ShowRecent
    <2> DEFINE lines == IF watch.kind = "tail" THEN Latest(log, Window) ELSE <<>>
    <2>1. /\ watch.stage = "off" /\ watch' = [watch EXCEPT !.stage = "mark"] /\ ShowLines(lines)
          /\ UNCHANGED <<log, written, received>>
          /\ watch.kind = "web" => lines = <<>>
      BY <1>4 DEF ShowRecent
    <2>2. lines \in Seq(Nat) /\ Rising(lines) /\ \A i \in DOMAIN lines : lines[i] <= written
      <3>1. /\ Latest(log, Window) \in Seq(Nat) /\ Rising(Latest(log, Window))
            /\ From(Latest(log, Window), log)
        BY <1>t, LatestIs, LimitsAreNumbers DEF LogRises, Window
      <3>2. \A i \in DOMAIN Latest(log, Window) : Latest(log, Window)[i] <= written
        BY <3>1 DEF From, LogRises
      <3> QED
        BY <1>t, <3>1, <3>2 DEF Rising
    <2>3. Below(Fresh, lines)
      BY <1>t, <2>1, FreshIs DEF WatchFollows, Below
    <2>7. OnlyTailsGoBack'
      <3>1. watch.kind = "web" => shown' = <<>>
        BY <1>t, <2>1 DEF WatchFollows, ShowLines
      <3>2. watch.kind = "tail" => stream' = <<>> /\ received' = <<>>
        BY <2>1 DEF ShowLines, OnlyTailsGoBack
      <3>3. watch'.kind = watch.kind /\ watch'.since = watch.since
        BY <1>t, <2>1 DEF Watches
      <3> QED
        BY <3>1, <3>2, <3>3 DEF OnlyTailsGoBack
    <2> HIDE DEF lines
    <2>6. watch'.since = watch.since
      BY <1>t, <2>1 DEF Watches
    <2>4. /\ shown' \in Seq(Nat) /\ stream' \in Seq(Nat) /\ watch'.since <= Len(shown')
          /\ Rising(Fresh') /\ \A i \in DOMAIN Fresh' : Fresh'[i] <= written'
          /\ SocketFollows'
      BY <2>1, <2>2, <2>3, <2>6, LinesShown
    <2>5. watch' \in Watches /\ watch'.stage = "mark"
      BY <1>t, <2>1 DEF Watches, Stages
    <2> QED
      BY <1>t, <2>1, <2>4, <2>5, <2>7 DEF LogInv, LogTypes, LogRises, WatchFollows, Rising
  <1>5. CASE Mark
    <2>1. /\ watch' = [watch EXCEPT !.stage = "sleep", !.offset = Len(log)]
          /\ UNCHANGED <<log, written, shown, stream, received>>
      BY <1>5 DEF Mark
    <2>2. /\ watch' \in Watches /\ watch'.stage = "sleep" /\ watch'.offset = Len(log)
          /\ watch'.since = watch.since /\ watch'.kind = watch.kind
      BY <1>t, <2>1 DEF Watches, Stages
    <2>3. Ahead' /\ Fresh' = Fresh
      BY <1>t, <1>f, <2>1, <2>2 DEF Ahead
    <2> QED
      BY <2>1, <2>2, <2>3
      DEF LogInv, LogTypes, LogRises, WatchFollows, SocketFollows, OnlyTailsGoBack, Rising, Below,
          From
  <1>11. CASE MarkFails
    <2>1. /\ watch.stage = "mark"
          /\ watch' = [watch EXCEPT !.stage = "sleep", !.offset = 0, !.since = Len(shown)]
          /\ UNCHANGED <<log, written, shown, stream, received>>
      BY <1>11 DEF MarkFails
    <2>2. /\ watch' \in Watches /\ watch'.stage = "sleep" /\ watch'.since = Len(shown)
          /\ watch'.kind = watch.kind
      BY <1>t, <2>1 DEF Watches, Stages
    <2>3. ASSUME watch.kind = "web"
          PROVE  Len(shown) = 0 /\ stream = <<>> /\ received = <<>>
      <3>1. shown = <<>> /\ Fresh = <<>>
        BY <2>1, <2>3, FreshIs DEF OnlyTailsGoBack
      <3>2. DOMAIN stream = {} /\ DOMAIN received = {}
        <4>1. \A i \in DOMAIN Fresh : FALSE
          BY <1>t, <3>1
        <4>2. (\A i \in DOMAIN stream : FALSE) /\ (\A i \in DOMAIN received : FALSE)
          BY <4>1 DEF SocketFollows, From
        <4> QED
          BY <4>2
      <3>3. ASSUME NEW q \in Seq(Nat), DOMAIN q = {} PROVE q = <<>>
        BY <3>3
      <3> QED
        BY <1>t, <3>1, <3>2, <3>3
    <2> QED
      BY <1>t, <1>g, <2>1, <2>2, <2>3, BackAtStart DEF LogInv, LogTypes, OnlyTailsGoBack
  <1>6. CASE LookAtSize
    <2>1. /\ watch.stage = "sleep"
          /\ watch' = [watch EXCEPT !.stage = "read", !.size = Len(log),
                                    !.offset = IF Len(log) < watch.offset THEN 0 ELSE watch.offset]
          /\ UNCHANGED <<log, written, shown, stream, received>>
      BY <1>6 DEF LookAtSize, Looked
    <2>2. /\ watch' \in Watches /\ watch'.stage = "read"
          /\ watch'.offset = IF Len(log) < watch.offset THEN 0 ELSE watch.offset
          /\ watch'.since = watch.since /\ watch'.kind = watch.kind
      BY <1>t, <2>1 DEF Watches, Stages
    <2>5. Fresh' = Fresh
      BY <1>f, <2>1, <2>2
    <2>3. Ahead
      BY <2>1 DEF WatchFollows
    <2>4. Ahead'
      <3>1. CASE Below(Fresh, log)
        BY <2>1, <2>5, <3>1 DEF Ahead, Below
      <3>2. CASE ~Below(Fresh, log)
        <4>1. /\ watch.offset <= Len(log)
              /\ \A i \in DOMAIN Fresh, j \in DOMAIN log : j > watch.offset => Fresh[i] < log[j]
          BY <2>3, <3>2 DEF Ahead
        <4>2. watch'.offset = watch.offset
          BY <1>t, <2>2, <4>1
        <4> QED
          BY <2>1, <2>5, <4>1, <4>2 DEF Ahead
      <3> QED
        BY <3>1, <3>2
    <2> QED
      BY <2>1, <2>2, <2>4, <2>5
      DEF LogInv, LogTypes, LogRises, WatchFollows, SocketFollows, OnlyTailsGoBack, Rising, Below,
          From
  <1>12. CASE LookFails
    <2>1. /\ watch.stage = "sleep" /\ watch.kind = "tail"
          /\ watch' = [watch EXCEPT !.stage = "read", !.size = 0,
                         !.offset = IF 0 < watch.offset THEN 0 ELSE watch.offset,
                         !.since = IF watch.offset > 0 THEN Len(shown) ELSE watch.since]
          /\ UNCHANGED <<log, written, shown, stream, received>>
      BY <1>t, <1>12 DEF LookFails, Looked, Watches
    <2>2. /\ watch' \in Watches /\ watch'.stage = "read" /\ watch'.kind = "tail"
          /\ watch'.since = IF watch.offset > 0 THEN Len(shown) ELSE watch.since
          /\ watch'.offset = 0
      <3>1. /\ (IF 0 < watch.offset THEN 0 ELSE watch.offset) = 0
            /\ (IF watch.offset > 0 THEN Len(shown) ELSE watch.since) \in Nat
        BY <1>t
      <3> QED
        BY <1>t, <2>1, <3>1, Zenon DEF Watches, Stages
    <2>3. stream = <<>> /\ received = <<>>
      BY <2>1 DEF OnlyTailsGoBack
    <2>4. CASE watch.offset > 0
      BY <1>t, <1>g, <2>1, <2>2, <2>3, <2>4, BackAtStart DEF LogInv, LogTypes, OnlyTailsGoBack
    <2>5. CASE ~(watch.offset > 0)
      <3>1. watch'.since = watch.since /\ watch'.offset = watch.offset /\ Fresh' = Fresh
        BY <1>t, <1>f, <2>1, <2>2, <2>5
      <3>2. Ahead
        BY <2>1 DEF WatchFollows
      <3>3. Ahead'
        BY <2>1, <3>1, <3>2 DEF Ahead, Below
      <3> QED
        BY <1>t, <2>1, <2>2, <2>3, <3>1, <3>3
        DEF LogInv, LogTypes, LogRises, WatchFollows, SocketFollows, OnlyTailsGoBack, Rising,
            Below, From
    <2> QED
      BY <2>4, <2>5
  <1>7. CASE ReadOn
    <2> DEFINE part == SubSeq(log, watch.offset + 1, Len(log))
    <2>1. /\ watch.stage = "read" /\ watch' = [watch EXCEPT !.stage = "seek", !.text = part]
          /\ UNCHANGED <<log, written, shown, stream, received>>
      BY <1>7 DEF ReadOn
    <2>2. /\ part \in Seq(Nat) /\ Rising(part)
          /\ \A i \in DOMAIN part :
               \E k \in DOMAIN log : k > watch.offset /\ part[i] = log[k]
      <3>1. watch.offset + 1 \in Nat \ {0}
        BY <1>t
      <3>2. /\ part \in Seq(Nat) /\ Rising(part)
            /\ \A i \in DOMAIN part :
                 /\ i + (watch.offset + 1) - 1 \in DOMAIN log /\ i >= 1
                 /\ part[i] = log[i + (watch.offset + 1) - 1]
        BY <1>t, <3>1, PartOf DEF LogRises
      <3>3. \A i \in DOMAIN part : i \in Nat /\ i + (watch.offset + 1) - 1 > watch.offset
        <4> SUFFICES ASSUME NEW i \in DOMAIN part
                     PROVE  i \in Nat /\ i + (watch.offset + 1) - 1 > watch.offset
          OBVIOUS
        <4>1. i \in Nat
          BY <3>2, LenProperties
        <4> QED
          BY <1>t, <3>2, <4>1
      <3> QED
        BY <3>2, <3>3
    <2> HIDE DEF part
    <2>3. /\ watch' \in Watches /\ watch'.stage = "seek" /\ watch'.text = part
          /\ watch'.offset = watch.offset
          /\ watch'.since = watch.since /\ watch'.kind = watch.kind
      BY <1>t, <2>1, <2>2 DEF Watches, Stages
    <2>8. Fresh' = Fresh
      BY <1>f, <2>1, <2>3
    <2>4. Ahead
      BY <2>1 DEF WatchFollows
    <2>5. Below(Fresh, part) /\ \A i \in DOMAIN part : part[i] <= written
      BY <2>2, <2>4 DEF Ahead, Below, LogRises
    <2>6. Ahead'
      BY <2>1, <2>3, <2>4, <2>8 DEF Ahead, Below
    <2>7. WatchFollows'
      BY <2>1, <2>2, <2>3, <2>5, <2>6, <2>8 DEF WatchFollows, Rising, Below
    <2> QED
      BY <2>1, <2>3, <2>7, <2>8
      DEF LogInv, LogTypes, LogRises, SocketFollows, OnlyTailsGoBack, Rising, Below, From
  <1>8. CASE SeekEnd
    <2>1. /\ watch.stage = "seek" /\ ShowLines(watch.text)
          /\ watch' = [watch EXCEPT !.stage = "sleep", !.offset = Len(log), !.text = <<>>]
          /\ UNCHANGED <<log, written, received>>
      BY <1>8 DEF SeekEnd, NextOffset
    <2>5. watch'.since = watch.since /\ watch'.kind = watch.kind
      BY <1>t, <2>1 DEF Watches
    <2>2. /\ shown' \in Seq(Nat) /\ stream' \in Seq(Nat) /\ watch'.since <= Len(shown')
          /\ Rising(Fresh') /\ \A i \in DOMAIN Fresh' : Fresh'[i] <= written'
          /\ SocketFollows'
      BY <1>t, <2>1, <2>5, LinesShown DEF WatchFollows
    <2>3. watch' \in Watches /\ watch'.stage = "sleep" /\ watch'.offset = Len(log)
      BY <1>t, <2>1 DEF Watches, Stages
    <2>4. Ahead'
      BY <1>t, <2>1, <2>3 DEF Ahead
    <2>6. OnlyTailsGoBack'
      BY <2>1, <2>3, <2>5 DEF OnlyTailsGoBack, ShowLines
    <2> QED
      BY <1>t, <2>1, <2>2, <2>3, <2>4, <2>6 DEF LogInv, LogTypes, LogRises, WatchFollows, Rising
  <1>9. CASE ReadFails
    <2>1. /\ watch.stage \in {"read", "seek"}
          /\ watch' = [watch EXCEPT !.stage = IF watch.kind = "tail" THEN "ended" ELSE "sleep",
                                    !.text = <<>>]
          /\ UNCHANGED <<log, written, shown, stream, received>>
      BY <1>9 DEF ReadFails
    <2>2. /\ watch' \in Watches /\ watch'.stage \in {"ended", "sleep"}
          /\ watch'.offset = watch.offset
          /\ watch'.since = watch.since /\ watch'.kind = watch.kind
      BY <1>t, <2>1 DEF Watches, Stages
    <2>4. Fresh' = Fresh
      BY <1>f, <2>1, <2>2
    <2>3. Ahead'
      BY <2>1, <2>2, <2>4 DEF WatchFollows, Ahead, Below
    <2> QED
      BY <2>1, <2>2, <2>3, <2>4
      DEF LogInv, LogTypes, LogRises, WatchFollows, SocketFollows, OnlyTailsGoBack, Rising, Below,
          From
  <1>10. CASE SocketReceives
    <2>1. /\ stream # <<>> /\ received' = Append(received, Head(stream)) /\ stream' = Tail(stream)
          /\ UNCHANGED <<log, written, watch, shown>> /\ Fresh' = Fresh
      BY <1>10, <1>f DEF SocketReceives
    <2>2. /\ DOMAIN stream = 1 .. Len(stream) /\ Len(stream) \in Nat \ {0}
          /\ Head(stream) = stream[1]
          /\ stream' \in Seq(Nat) /\ DOMAIN stream' = 1 .. Len(stream) - 1
          /\ \A i \in 1 .. Len(stream) - 1 : stream'[i] = stream[i + 1]
          /\ \A i \in DOMAIN stream : stream[i] \in Nat
      BY <1>t, <2>1, Shifted
    <2>3. /\ DOMAIN received = 1 .. Len(received) /\ Len(received) \in Nat
          /\ received' \in Seq(Nat) /\ DOMAIN received' = 1 .. Len(received) + 1
          /\ \A i \in 1 .. Len(received) : received'[i] = received[i]
          /\ received'[Len(received) + 1] = stream[1]
      BY <1>t, <2>1, <2>2, Appended
    <2>4. \A i \in DOMAIN received' :
            \/ i \in DOMAIN received /\ received'[i] = received[i]
            \/ i = Len(received) + 1 /\ received'[i] = stream[1]
      BY <2>3
    <2>5. \A i \in DOMAIN stream' :
            i + 1 \in DOMAIN stream /\ stream'[i] = stream[i + 1] /\ 1 < i + 1
      BY <2>2
    <2>6. 1 \in DOMAIN stream
      BY <2>2
    <2>7. Rising(received')
      <3> SUFFICES ASSUME NEW i \in DOMAIN received', NEW j \in DOMAIN received', i < j
                   PROVE  received'[i] < received'[j]
        BY DEF Rising
      <3>1. i \in DOMAIN received /\ received'[i] = received[i]
        BY <2>3
      <3> QED
        BY <2>4, <2>6, <3>1 DEF SocketFollows, Rising, Below
    <2>8. Rising(stream')
      <3> SUFFICES ASSUME NEW i \in DOMAIN stream', NEW j \in DOMAIN stream', i < j
                   PROVE  stream'[i] < stream'[j]
        BY DEF Rising
      <3>1. i + 1 < j + 1
        BY <2>2
      <3> QED
        BY <2>5, <3>1 DEF SocketFollows, Rising
    <2>9. Below(received', stream')
      <3> SUFFICES ASSUME NEW i \in DOMAIN received', NEW j \in DOMAIN stream'
                   PROVE  received'[i] < stream'[j]
        BY DEF Below
      <3> QED
        BY <2>4, <2>5, <2>6 DEF SocketFollows, Rising, Below
    <2>10. From(received', Fresh') /\ From(stream', Fresh')
      BY <2>1, <2>4, <2>5, <2>6 DEF SocketFollows, From
    <2>11. SocketFollows'
      BY <2>7, <2>8, <2>9, <2>10 DEF SocketFollows
    <2> QED
      BY <1>t, <2>1, <2>2, <2>3, <2>11
      DEF LogInv, LogTypes, LogRises, WatchFollows, OnlyTailsGoBack, Ahead, Rising, Below
  <1> QED
    BY <1>1, <1>2, <1>3, <1>4, <1>5, <1>6, <1>7, <1>8, <1>9, <1>10, <1>11, <1>12
    DEF LogNext, Prepare, Exit, logVars

\* No watcher is shown a record twice or out of order, whatever is appended and
\* truncated meanwhile, unless it is a tail that could not take the size of the
\* file: from then on it is shown each record once.  No socket ever is.
THEOREM RecordsShownOnce == LogSpec => []ShownOnce
  <1>1. LogInit => LogInv
    <2> SUFFICES ASSUME LogInit PROVE LogInv
      OBVIOUS
    <2>1. <<>> \in Seq(Nat) /\ DOMAIN <<>> = {}
      OBVIOUS
    <2>2. watch \in Watches /\ watch.stage = "off" /\ watch.since = 0
      <3>1. PICK k \in {"tail", "web"} :
              watch = [kind |-> k, stage |-> "off", offset |-> 0, size |-> 0, text |-> <<>>,
                       since |-> 0]
        BY DEF LogInit
      <3> QED
        BY <2>1, <3>1 DEF Watches, Stages
    <2>3. LogTypes /\ watch.since = 0
      BY <2>1, <2>2 DEF LogInit, LogTypes
    <2>4. Fresh = <<>>
      BY <2>3, FreshIs DEF LogInit
    <2> QED
      BY <2>1, <2>2, <2>3, <2>4
      DEF LogInit, LogInv, LogRises, WatchFollows, SocketFollows, OnlyTailsGoBack, Rising, Below,
          From
  <1>2. LogInv => ShownOnce
    <2>1. ASSUME NEW q \in Seq(Nat), Rising(q) PROVE Increasing(q)
      BY <2>1 DEF Rising, Increasing
    <2>2. ASSUME LogInv, NEW i \in watch.since + 1 .. Len(shown) - 1
          PROVE  shown[i] < shown[i + 1]
      <3>1. LogTypes /\ Rising(Fresh) /\ watch.since \in Nat /\ Len(shown) \in Nat
        BY <2>2 DEF LogInv, LogTypes, LogRises, Watches
      <3>2. i \in watch.since + 1 .. Len(shown) /\ i + 1 \in watch.since + 1 .. Len(shown)
        BY <3>1
      <3>3. /\ i - watch.since \in DOMAIN Fresh /\ Fresh[i - watch.since] = shown[i]
            /\ (i + 1) - watch.since \in DOMAIN Fresh /\ Fresh[(i + 1) - watch.since] = shown[i + 1]
        BY <3>1, <3>2, FreshIs
      <3>4. i - watch.since < (i + 1) - watch.since
        BY <3>1
      <3> QED
        BY <3>1, <3>3, <3>4 DEF Rising
    <2> QED
      BY <2>1, <2>2 DEF LogInv, LogTypes, SocketFollows, OnlyTailsGoBack, ShownOnce
  <1> QED
    BY <1>1, <1>2, WatchStep, PTL DEF LogSpec

-----------------------------------------------------------------------------
(* Sums over a finite set *)

\* What a finite set inherits from its subsets of one element less, all its subsets have.
LEMMA Finitely ==
  ASSUME NEW S, IsFiniteSet(S), NEW G,
         \A T \in SUBSET S : (\A x \in T : T \ {x} \in G) => T \in G
  PROVE  SUBSET S \subseteq G
  <1> DEFINE Bad == (SUBSET S) \ G
             R == StrictSubsetOrdering(S)
  <1>1. SUFFICES ASSUME Bad # {} PROVE FALSE
    OBVIOUS
  <1>2. IsWellFoundedOn(R, SUBSET S)
    BY FS_StrictSubsetOrderingWellFounded, FS_FiniteSubsetsOfFinite
  <1>3. PICK T \in Bad : \A U \in Bad : <<U, T>> \notin R
    <2>1. Bad \subseteq SUBSET S
      OBVIOUS
    <2> HIDE DEF Bad, R
    <2> QED
      BY <1>1, <1>2, <2>1, WFMin
  <1>4. PICK x \in T : T \ {x} \notin G
    OBVIOUS
  <1>5. T \ {x} \in Bad /\ <<T \ {x}, T>> \in R
    BY <1>4 DEF StrictSubsetOrdering
  <1> QED
    BY <1>3, <1>5

\* The units that a function of numbers counts.
Units(f, S) == UNION {{x} \X (1 .. f[x]) : x \in S}

\* Disjoint finite sets count together.
LEMMA DisjointCounts ==
  ASSUME NEW A, IsFiniteSet(A), NEW B, IsFiniteSet(B), A \cap B = {}
  PROVE  /\ IsFiniteSet(A \cup B)
         /\ Cardinality(A \cup B) = Cardinality(A) + Cardinality(B)
  <1>1. Cardinality(A \cap B) = 0 /\ Cardinality(A) \in Nat /\ Cardinality(B) \in Nat
    BY FS_EmptySet, FS_CardinalityType
  <1>2. /\ IsFiniteSet(A \cup B)
        /\ Cardinality(A \cup B) = Cardinality(A) + Cardinality(B) - Cardinality(A \cap B)
    BY FS_Union
  <1> QED
    BY <1>1, <1>2

\* One place more adds as many units as its number.
LEMMA UnitsMore ==
  ASSUME NEW S, IsFiniteSet(S), NEW f \in [S -> Nat], NEW T \in SUBSET S, IsFiniteSet(Units(f, T)),
         NEW x \in S \ T
  PROVE  /\ IsFiniteSet(Units(f, T \cup {x}))
         /\ Cardinality(Units(f, T \cup {x})) = Cardinality(Units(f, T)) + f[x]
  <1>1. f[x] \in Nat /\ IsFiniteSet(1 .. f[x]) /\ Cardinality(1 .. f[x]) = f[x]
    BY FS_Interval
  <1>2. IsFiniteSet({x}) /\ Cardinality({x}) = 1
    BY FS_Singleton
  <1>3. IsFiniteSet({x} \X (1 .. f[x])) /\ Cardinality({x} \X (1 .. f[x])) = f[x]
    <2>1. /\ IsFiniteSet({x} \X (1 .. f[x]))
          /\ Cardinality({x} \X (1 .. f[x])) = Cardinality({x}) * Cardinality(1 .. f[x])
      BY <1>1, <1>2, FS_Product
    <2>2. 1 * f[x] = f[x]
      BY <1>1
    <2> QED
      BY <1>1, <1>2, <2>1, <2>2
  <1>4. /\ Units(f, T \cup {x}) = Units(f, T) \cup ({x} \X (1 .. f[x]))
        /\ Units(f, T) \cap ({x} \X (1 .. f[x])) = {}
    BY DEF Units
  <1>5. /\ IsFiniteSet(Units(f, T) \cup ({x} \X (1 .. f[x])))
        /\ Cardinality(Units(f, T) \cup ({x} \X (1 .. f[x])))
             = Cardinality(Units(f, T)) + Cardinality({x} \X (1 .. f[x]))
    BY <1>3, <1>4, DisjointCounts
  <1> QED
    BY <1>1, <1>3, <1>4, <1>5

\* The units of a finite set are finitely many.
LEMMA UnitsFinite ==
  ASSUME NEW S, IsFiniteSet(S), NEW f \in [S -> Nat]
  PROVE  \A T \in SUBSET S : IsFiniteSet(Units(f, T))
  <1> DEFINE G == {T \in SUBSET S : IsFiniteSet(Units(f, T))}
  <1>1. ASSUME NEW T \in SUBSET S, \A x \in T : T \ {x} \in G PROVE T \in G
    <2>1. CASE T = {}
      BY <2>1, FS_EmptySet DEF Units
    <2>2. CASE T # {}
      <3>1. PICK x \in T : T \ {x} \in G
        BY <1>1, <2>2
      <3>2. (T \ {x}) \cup {x} = T /\ x \in S \ (T \ {x}) /\ T \ {x} \in SUBSET S
        OBVIOUS
      <3>3. IsFiniteSet(Units(f, T \ {x}))
        BY <3>1
      <3> QED
        BY <3>2, <3>3, UnitsMore
    <2> QED
      BY <2>1, <2>2
  <1> HIDE DEF G
  <1>3. SUBSET S \subseteq G
    BY <1>1, Finitely
  <1> QED
    BY <1>3 DEF G

\* Total, which folds the numbers of a function, counts their units.
LEMMA TotalIsUnits ==
  ASSUME NEW S, IsFiniteSet(S), NEW f \in [S -> Nat]
  PROVE  Total(f) = Cardinality(Units(f, S))
  <1> DEFINE Step(g) == [s \in SUBSET S |-> IF s = {} THEN 0
                           ELSE f[CHOOSE x \in s : TRUE] + g[s \ {CHOOSE x \in s : TRUE}]]
             h == [s \in SUBSET S |-> Cardinality(Units(f, s))]
             it == CHOOSE g : g = Step(g)
  <1>1. Total(f) = it[S]
    BY DEF Total, MapThenSumSet, MapThenFoldSet
  <1>2. h = Step(h)
    <2> SUFFICES ASSUME NEW s \in SUBSET S PROVE h[s] = Step(h)[s]
      OBVIOUS
    <2>1. CASE s = {}
      BY <2>1, FS_EmptySet DEF Units
    <2>2. CASE s # {}
      <3> DEFINE x == CHOOSE y \in s : TRUE
      <3>1. x \in s
        BY <2>2
      <3>2. (s \ {x}) \cup {x} = s /\ s \ {x} \in SUBSET S
        BY <3>1
      <3>3. Cardinality(Units(f, s)) = Cardinality(Units(f, s \ {x})) + f[x]
        <4>1. IsFiniteSet(Units(f, s \ {x})) /\ x \in S \ (s \ {x})
          BY <3>1, <3>2, UnitsFinite
        <4> HIDE DEF x
        <4> QED
          BY <3>2, <4>1, UnitsMore
      <3>4. f[x] \in Nat /\ Cardinality(Units(f, s \ {x})) \in Nat
        BY <3>1, <3>2, UnitsFinite, FS_CardinalityType
      <3> QED
        BY <2>2, <3>2, <3>3, <3>4
    <2> QED
      BY <2>1, <2>2
  <1> HIDE DEF h
  <1>3. it = Step(it)
    BY <1>2
  <1> DEFINE G == {s \in SUBSET S : it[s] = h[s]}
  <1> HIDE DEF it
  <1>4. ASSUME NEW T \in SUBSET S, \A x \in T : T \ {x} \in G PROVE T \in G
    <2>1. it[T] = Step(it)[T] /\ h[T] = Step(h)[T]
      BY <1>2, <1>3
    <2>2. CASE T = {}
      BY <2>1, <2>2
    <2>3. CASE T # {}
      <3> DEFINE x == CHOOSE z \in T : TRUE
      <3>1. x \in T
        BY <2>3
      <3>2. it[T \ {x}] = h[T \ {x}]
        BY <1>4, <3>1
      <3> QED
        BY <2>1, <2>3, <3>2
    <2> QED
      BY <2>2, <2>3
  <1> HIDE DEF G
  <1>5. SUBSET S \subseteq G
    BY <1>4, Finitely
  <1>6. it[S] = h[S]
    BY <1>5 DEF G
  <1> QED
    BY <1>1, <1>6 DEF h

\* A sum of nothing, and one unit more.
LEMMA TotalOfZero ==
  ASSUME NEW S, IsFiniteSet(S)
  PROVE  Zero(S) \in [S -> Nat] /\ Total(Zero(S)) = 0
  <1>1. Zero(S) \in [S -> Nat] /\ Units(Zero(S), S) = {}
    BY DEF Zero, Units
  <1> QED
    BY <1>1, TotalIsUnits, FS_EmptySet

LEMMA TotalTyped ==
  ASSUME NEW S, IsFiniteSet(S), NEW f \in [S -> Nat]
  PROVE  Total(f) \in Nat
  BY TotalIsUnits, UnitsFinite, FS_CardinalityType

\* ... and one unit more in any of the numbers is one more in all.
LEMMA TotalMore ==
  ASSUME NEW S, IsFiniteSet(S), NEW f \in [S -> Nat], NEW x \in S
  PROVE  /\ [f EXCEPT ![x] = @ + 1] \in [S -> Nat]
         /\ Total([f EXCEPT ![x] = @ + 1]) = Total(f) + 1
  <1> DEFINE g == [f EXCEPT ![x] = @ + 1]
  <1>1. g \in [S -> Nat] /\ f[x] \in Nat /\ g[x] = f[x] + 1 /\ \A y \in S \ {x} : g[y] = f[y]
    OBVIOUS
  <1>2. <<x, f[x] + 1>> \notin Units(f, S)
    BY <1>1 DEF Units
  <1>3. 1 .. g[x] = (1 .. f[x]) \cup {f[x] + 1}
    BY <1>1
  <1>4. Units(g, S) = Units(f, S) \cup {<<x, f[x] + 1>>}
    <2> HIDE DEF g
    <2>1. \A p \in Units(g, S) : p \in Units(f, S) \cup {<<x, f[x] + 1>>}
      BY <1>1, <1>3 DEF Units
    <2>2. \A p \in Units(f, S) \cup {<<x, f[x] + 1>>} : p \in Units(g, S)
      BY <1>1, <1>3 DEF Units
    <2> QED
      BY <2>1, <2>2
  <1>5. IsFiniteSet(Units(f, S))
    BY UnitsFinite
  <1>6. Cardinality(Units(f, S) \cup {<<x, f[x] + 1>>}) = Cardinality(Units(f, S)) + 1
    BY <1>2, <1>5, FS_AddElement
  <1>7. Total(g) = Cardinality(Units(g, S)) /\ Total(f) = Cardinality(Units(f, S))
    <2> HIDE DEF g
    <2> QED
      BY <1>1, TotalIsUnits
  <1> QED
    BY <1>1, <1>4, <1>6, <1>7

-----------------------------------------------------------------------------
(* AdminMetrics: the counters *)

\* The points that a request goes through.
Places == {"new", "handler", "update", "read", "total", "refusal", "route", "status", "sent", "left"}

\* What a snapshot has still to read.
Todos == {SnapshotOrder, <<"statuses", "requests", "refused">>, <<"requests", "refused">>,
          <<"refused">>, <<>>}

\* Only counters and requests on their way.
AdminTypeOK ==
  /\ loopbackOnly \in BOOLEAN /\ tokenSet \in BOOLEAN
  /\ visit \in [Visits -> [at : Places, route : Routes, status : Statuses]]
  /\ atomics \in [Atomics -> Nat]
  /\ routeRequests \in [Routes -> Nat] /\ statusCounts \in [Statuses -> Nat]
  /\ snapshot \in [Visits -> [todo : Todos, atomics : [Atomics -> Nat],
                             routes : [Routes -> Nat], statuses : [Statuses -> Nat]]]

\* The requests that are at one of these points of record_request, with one of these answers.
Recording(places, statuses) ==
  {r \in Visits : visit[r].at \in places /\ visit[r].status \in statuses}

\* Who has been counted in a total and not yet in a map keeps the map below the total.
CountsInv ==
  /\ IsFiniteSet({r \in Visits : visit[r].at # "new"})
  /\ \A r \in Visits : visit[r].at = "refusal" => visit[r].status \in {401, 403}
  /\ Total(routeRequests) + Cardinality(Recording({"refusal", "route"}, Statuses))
       <= atomics["requests"]
  /\ Total(statusCounts) + Cardinality(Recording({"refusal", "route", "status"}, Statuses))
       <= atomics["requests"]
  /\ statusCounts[401] + Cardinality(Recording({"route", "status"}, {401}))
       <= atomics["unauthorized"]
  /\ statusCounts[403] + Cardinality(Recording({"route", "status"}, {403}))
       <= atomics["forbidden"]

\* What a snapshot has read is below a total it has read later, or has still to read.
ReadOf(s) ==
  /\ s.todo = Tail(SnapshotOrder) => Total(s.routes) <= atomics["requests"]
  /\ s.todo = <<"requests", "refused">> =>
       Total(s.routes) <= atomics["requests"] /\ Total(s.statuses) <= atomics["requests"]
  /\ s.todo \in {<<"refused">>, <<>>} =>
       /\ Total(s.routes) <= s.atomics["requests"]
       /\ Total(s.statuses) <= s.atomics["requests"]
  /\ s.todo \in {<<"requests", "refused">>, <<"refused">>} =>
       s.statuses[401] <= atomics["unauthorized"] /\ s.statuses[403] <= atomics["forbidden"]
  /\ s.todo = <<>> =>
       /\ s.statuses[401] <= s.atomics["unauthorized"]
       /\ s.statuses[403] <= s.atomics["forbidden"]

ReadInv == \A r \in Visits : ReadOf(snapshot[r])

AdminInv == AdminTypeOK /\ CountsInv /\ ReadInv

LEMMA MapsAreFinite == IsFiniteSet(Routes) /\ IsFiniteSet(Statuses)
  <1>1. \A a, b : IsFiniteSet({a} \cup {b})
    BY FS_Singleton, FS_AddElement
  <1>2. \A a, b, c, d : IsFiniteSet((({a} \cup {b}) \cup {c}) \cup {d})
    BY <1>1, FS_AddElement
  <1>3. Routes = (({"defaults"} \cup {"search"}) \cup {"sessions"}) \cup {"metrics"}
    BY DEF Routes
  <1>4. IsFiniteSet((({"defaults"} \cup {"search"}) \cup {"sessions"}) \cup {"metrics"})
    BY <1>2, Zenon
  <1>5. IsFiniteSet(200 .. 403)
    <2>1. \A a, b \in Int : IsFiniteSet(a .. b)
      BY FS_Interval
    <2>2. 200 \in Int /\ 403 \in Int
      OBVIOUS
    <2> QED
      BY <2>1, <2>2, Zenon
  <1>6. Statuses \subseteq 200 .. 403
    BY DEF Statuses
  <1> QED
    BY <1>3, <1>4, <1>5, <1>6, FS_Subset

\* The values that what is left to read goes through.
LEMMA TodosAre ==
  /\ SnapshotOrder \in Todos /\ SnapshotOrder # <<>>
  /\ \A t \in Todos : t = SnapshotOrder \/ t = Tail(SnapshotOrder)
                      \/ t = <<"requests", "refused">> \/ t = <<"refused">> \/ t = <<>>
  /\ Head(SnapshotOrder) = "routes"
  /\ Head(Tail(SnapshotOrder)) = "statuses"
  /\ Tail(Tail(SnapshotOrder)) = <<"requests", "refused">>
  /\ Head(<<"requests", "refused">>) = "requests" /\ Tail(<<"requests", "refused">>) = <<"refused">>
  /\ Head(<<"refused">>) = "refused" /\ Tail(<<"refused">>) = <<>>
  <1>1. Tail(SnapshotOrder) = <<"statuses", "requests", "refused">>
    BY DEF SnapshotOrder
  <1>2. Tail(<<"statuses", "requests", "refused">>) = <<"requests", "refused">>
    OBVIOUS
  <1> QED
    BY <1>1, <1>2 DEF Todos, SnapshotOrder

\* What is left to read tells how far a snapshot is.
LEMMA TodosDiffer ==
  /\ SnapshotOrder \notin {Tail(SnapshotOrder), <<"requests", "refused">>, <<"refused">>, <<>>}
  /\ Tail(SnapshotOrder) \notin {<<"requests", "refused">>, <<"refused">>, <<>>}
  /\ <<"requests", "refused">> \notin {<<"refused">>, <<>>}
  /\ <<"refused">> # <<>>
  <1>1. Tail(SnapshotOrder) = <<"statuses", "requests", "refused">>
    BY DEF SnapshotOrder
  <1> QED
    BY <1>1 DEF SnapshotOrder

LEMMA TodoShifted ==
  ASSUME NEW t \in Todos, t # <<>>
  PROVE  Tail(t) \in Todos
  <1>1. Tail(SnapshotOrder) \in Todos /\ Tail(Tail(SnapshotOrder)) \in Todos
        /\ <<"refused">> \in Todos /\ <<>> \in Todos
    BY TodosAre DEF Todos, SnapshotOrder
  <1> QED
    BY <1>1, TodosAre

\* A counter more.
LEMMA Counted ==
  ASSUME atomics \in [Atomics -> Nat], NEW a \in Atomics, Count(a)
  PROVE  /\ atomics' \in [Atomics -> Nat]
         /\ atomics'[a] = atomics[a] + 1 /\ \A b \in Atomics \ {a} : atomics'[b] = atomics[b]
  BY DEF Count

\* A request elsewhere, and one that has its answer.
LEMMA Moved ==
  ASSUME AdminTypeOK, NEW r \in Visits, NEW to \in Places, Move(r, to)
  PROVE  /\ visit' \in [Visits -> [at : Places, route : Routes, status : Statuses]]
         /\ visit'[r].at = to /\ visit'[r].route = visit[r].route /\ visit'[r].status = visit[r].status
         /\ \A q \in Visits \ {r} : visit'[q] = visit[q]
  BY DEF AdminTypeOK, Move

\* A request that has its answer is about to be counted.
LEMMA AnsweredWith ==
  ASSUME AdminTypeOK, NEW r \in Visits, NEW status \in Statuses, Answered(r, status)
  PROVE  /\ visit' \in [Visits -> [at : Places, route : Routes, status : Statuses]]
         /\ visit'[r].at = "total"
         /\ \A q \in Visits \ {r} : visit'[q] = visit[q]
  <1>1. /\ visit'[r] = [visit[r] EXCEPT !.at = "total", !.status = status]
        /\ \A q \in Visits \ {r} : visit'[q] = visit[q]
        /\ visit' = [visit EXCEPT ![r] = visit'[r]]
    BY DEF AdminTypeOK, Answered
  <1>2. visit'[r] \in [at : Places, route : Routes, status : Statuses]
    <2>1. visit[r] \in [at : Places, route : Routes, status : Statuses] /\ "total" \in Places
      BY DEF AdminTypeOK, Places
    <2> QED
      BY <1>1, <2>1
  <1> QED
    BY <1>1, <1>2 DEF AdminTypeOK

\* What a snapshot may be.
Snapshots == [todo : Todos, atomics : [Atomics -> Nat], routes : [Routes -> Nat],
            statuses : [Statuses -> Nat]]

\* What a snapshot reads next.
LEMMA ReadMore ==
  ASSUME AdminTypeOK, NEW r \in Visits, ReadNext(r)
  PROVE  LET s == snapshot[r]
             t == snapshot'[r]
         IN /\ s.todo # <<>> /\ t \in Snapshots /\ snapshot' = [snapshot EXCEPT ![r] = t]
            /\ t.todo = Tail(s.todo)
            /\ t.routes = IF Head(s.todo) = "routes" THEN routeRequests ELSE s.routes
            /\ t.statuses = IF Head(s.todo) = "statuses" THEN statusCounts ELSE s.statuses
            /\ t.atomics["requests"] = IF Head(s.todo) = "requests" THEN atomics["requests"]
                                       ELSE s.atomics["requests"]
            /\ \A a \in Atomics \ {"requests"} :
                 t.atomics[a] = IF Head(s.todo) = "refused" THEN atomics[a] ELSE s.atomics[a]
  <1> DEFINE s == snapshot[r]
             t == snapshot'[r]
             what == Head(s.todo)
             read(S) == [a \in Atomics |-> IF a \in S THEN atomics[a] ELSE s.atomics[a]]
  <1>1. /\ s \in Snapshots /\ s.todo # <<>>
        /\ t = [s EXCEPT !.todo = Tail(@),
                         !.routes = IF what = "routes" THEN routeRequests ELSE @,
                         !.statuses = IF what = "statuses" THEN statusCounts ELSE @,
                         !.atomics = IF what = "requests" THEN read({"requests"})
                                     ELSE IF what = "refused" THEN read(Atomics \ {"requests"}) ELSE @]
        /\ snapshot' = [snapshot EXCEPT ![r] = t]
    BY DEF AdminTypeOK, Snapshots, ReadNext
  <1>2. Tail(s.todo) \in Todos
    BY <1>1, TodoShifted DEF Snapshots
  <1>3. /\ t.todo = Tail(s.todo)
        /\ t.routes = IF what = "routes" THEN routeRequests ELSE s.routes
        /\ t.statuses = IF what = "statuses" THEN statusCounts ELSE s.statuses
        /\ t.atomics = IF what = "requests" THEN read({"requests"})
                       ELSE IF what = "refused" THEN read(Atomics \ {"requests"}) ELSE s.atomics
        /\ t = [todo |-> t.todo, atomics |-> t.atomics, routes |-> t.routes, statuses |-> t.statuses]
    BY <1>1 DEF Snapshots
  <1>4. /\ t.atomics \in [Atomics -> Nat]
        /\ t.atomics["requests"] = IF what = "requests" THEN atomics["requests"]
                                   ELSE s.atomics["requests"]
        /\ \A a \in Atomics \ {"requests"} :
             t.atomics[a] = IF what = "refused" THEN atomics[a] ELSE s.atomics[a]
    <2>1. /\ s.atomics \in [Atomics -> Nat] /\ atomics \in [Atomics -> Nat]
          /\ "requests" \in Atomics /\ "refused" # "requests"
      BY <1>1 DEF AdminTypeOK, Atomics, Snapshots
    <2>2. \A S : /\ read(S) \in [Atomics -> Nat]
                 /\ \A a \in Atomics : read(S)[a] = IF a \in S THEN atomics[a] ELSE s.atomics[a]
      <3> HIDE DEF s
      <3> QED
        BY <2>1
    <2> HIDE DEF s, t, what, read
    <2>3. CASE what = "requests"
      BY <1>3, <2>1, <2>2, <2>3
    <2>4. CASE what = "refused"
      BY <1>3, <2>1, <2>2, <2>4
    <2>5. CASE what \notin {"requests", "refused"}
      BY <1>3, <2>1, <2>5
    <2> QED
      BY <2>3, <2>4, <2>5
  <1>5. t.routes \in [Routes -> Nat] /\ t.statuses \in [Statuses -> Nat]
    BY <1>1, <1>3 DEF AdminTypeOK, Snapshots
  <1>6. t \in Snapshots
    <2> HIDE DEF t
    <2> QED
      BY <1>2, <1>3, <1>4, <1>5 DEF Snapshots
  <1> QED
    BY <1>1, <1>3, <1>4, <1>6

\* Every step keeps the types.
LEMMA AdminTypedStep == AdminTypeOK /\ [AdminNext]_adminVars => AdminTypeOK'
  <1> SUFFICES ASSUME AdminTypeOK, [AdminNext]_adminVars PROVE AdminTypeOK'
    OBVIOUS
  <1>t. {200, 400} \subseteq Statuses /\ {"left", "update", "read", "refusal", "route", "status", "sent"} \subseteq Places
    BY DEF Statuses, Places
  <1>a. {"requests", "unauthorized", "forbidden", "updates", "searches"} \subseteq Atomics
    BY DEF Atomics
  <1>1. ASSUME NEW r \in Visits, Enter(r) PROVE AdminTypeOK'
    BY <1>1 DEF AdminTypeOK, Enter, Places, Statuses
  <1>2. ASSUME NEW r \in Visits, Reject(r) \/ Updated(r) \/ ShowMetrics(r) PROVE AdminTypeOK'
    <2>1. visit' \in [Visits -> [at : Places, route : Routes, status : Statuses]]
      BY <1>t, <1>2, AnsweredWith DEF Reject, Updated, ShowMetrics
    <2>2. UNCHANGED <<loopbackOnly, tokenSet, atomics, routeRequests, statusCounts, snapshot>>
      BY <1>2 DEF Reject, Updated, ShowMetrics
    <2> QED
      BY <2>1, <2>2 DEF AdminTypeOK
  <1>l. ASSUME NEW r \in Visits, Leave(r) PROVE AdminTypeOK'
    BY <1>t, <1>l, Moved DEF AdminTypeOK, Leave
  <1>3. ASSUME NEW r \in Visits, Serve(r) PROVE AdminTypeOK'
    <2>1. atomics' \in [Atomics -> Nat]
      BY <1>a, <1>3, Counted DEF AdminTypeOK, Serve
    <2>2. visit' \in [Visits -> [at : Places, route : Routes, status : Statuses]]
      BY <1>t, <1>3, Moved, AnsweredWith DEF Serve
    <2> QED
      BY <1>3, <2>1, <2>2 DEF AdminTypeOK, Serve
  <1>4. ASSUME NEW r \in Visits, Snapshot(r) PROVE AdminTypeOK'
    <2>1. visit' \in [Visits -> [at : Places, route : Routes, status : Statuses]]
      BY <1>t, <1>4, Moved DEF Snapshot
    <2>2. snapshot' \in [Visits -> Snapshots]
      BY <1>4, TodosAre DEF AdminTypeOK, Snapshots, Snapshot
    <2> QED
      BY <1>4, <2>1, <2>2 DEF AdminTypeOK, Snapshots, Snapshot
  <1>5. ASSUME NEW r \in Visits, ReadNext(r) PROVE AdminTypeOK'
    BY <1>5, ReadMore DEF AdminTypeOK, Snapshots, ReadNext
  <1>6. ASSUME NEW r \in Visits, RecordTotal(r) \/ RecordRefusal(r) PROVE AdminTypeOK'
    <2>1. atomics' \in [Atomics -> Nat]
      BY <1>a, <1>6, Counted DEF AdminTypeOK, RecordTotal, RecordRefusal
    <2>2. visit' \in [Visits -> [at : Places, route : Routes, status : Statuses]]
      BY <1>t, <1>6, Moved DEF RecordTotal, RecordRefusal
    <2> QED
      BY <1>6, <2>1, <2>2 DEF AdminTypeOK, RecordTotal, RecordRefusal
  <1>7. ASSUME NEW r \in Visits, RecordRoute(r) \/ RecordStatus(r) PROVE AdminTypeOK'
    <2>1. visit' \in [Visits -> [at : Places, route : Routes, status : Statuses]]
      BY <1>t, <1>7, Moved DEF RecordRoute, RecordStatus
    <2>2. \A f \in [Routes -> Nat] : \A x \in Routes : [f EXCEPT ![x] = @ + 1] \in [Routes -> Nat]
      OBVIOUS
    <2>3. \A f \in [Statuses -> Nat] : \A x \in Statuses : [f EXCEPT ![x] = @ + 1] \in [Statuses -> Nat]
      OBVIOUS
    <2>4. visit[r].route \in Routes /\ visit[r].status \in Statuses
      BY DEF AdminTypeOK
    <2>5. routeRequests' \in [Routes -> Nat]
      BY <1>7, <2>2, <2>4 DEF AdminTypeOK, RecordRoute, RecordStatus
    <2>6. statusCounts' \in [Statuses -> Nat]
      BY <1>7, <2>3, <2>4 DEF AdminTypeOK, RecordRoute, RecordStatus
    <2> QED
      BY <1>7, <2>1, <2>5, <2>6 DEF AdminTypeOK, RecordRoute, RecordStatus
  <1>8. CASE UNCHANGED adminVars
    BY <1>8 DEF AdminTypeOK, adminVars
  <1> QED
    BY <1>1, <1>2, <1>3, <1>4, <1>5, <1>6, <1>7, <1>8, <1>l DEF AdminNext

\* A snapshot reads one counter more, and nobody else does.
LEMMA CountersGrow ==
  ASSUME AdminTypeOK, [AdminNext]_adminVars
  PROVE  \A a \in Atomics : atomics[a] <= atomics'[a]
  <1>1. ASSUME NEW c \in Atomics, Count(c) PROVE \A a \in Atomics : atomics[a] <= atomics'[a]
    <2>1. atomics[c] \in Nat /\ atomics'[c] = atomics[c] + 1
      BY <1>1, Counted DEF AdminTypeOK
    <2>2. \A a \in Atomics \ {c} : atomics'[a] = atomics[a] /\ atomics[a] \in Nat
      BY <1>1, Counted DEF AdminTypeOK
    <2> QED
      BY <2>1, <2>2
  <1>2. atomics' = atomics => \A a \in Atomics : atomics[a] <= atomics'[a]
    BY DEF AdminTypeOK
  <1>3. atomics' = atomics \/ \E c \in Atomics : Count(c)
    <2>1. {"requests", "unauthorized", "forbidden", "updates", "searches"} \subseteq Atomics
      BY DEF Atomics
    <2> QED
      BY <2>1, ZenonT(40) DEF AdminNext, adminVars, Enter, Reject, Serve, Updated, Snapshot, ReadNext, ShowMetrics,
                  RecordTotal, RecordRefusal, RecordRoute, RecordStatus, Leave
  <1> QED
    BY <1>1, <1>2, <1>3

\* What a snapshot has read stays below what it has still to read.
LEMMA ReadStep ==
  ASSUME AdminTypeOK, CountsInv, ReadInv, [AdminNext]_adminVars
  PROVE  ReadInv'
  <1> SUFFICES ASSUME NEW r \in Visits PROVE ReadOf(snapshot[r])'
    BY DEF ReadInv
  <1> DEFINE s == snapshot[r]
  <1>1. \A a \in Atomics : atomics[a] <= atomics'[a] /\ atomics[a] \in Nat /\ atomics'[a] \in Nat
    BY CountersGrow, AdminTypedStep DEF AdminTypeOK
  <1>2. s \in Snapshots /\ {"requests", "unauthorized", "forbidden"} \subseteq Atomics
        /\ {401, 403} \subseteq Statuses
    BY DEF AdminTypeOK, Snapshots, Atomics, Statuses
  <1>3. /\ Total(s.routes) \in Nat /\ Total(s.statuses) \in Nat
        /\ Total(routeRequests) \in Nat /\ Total(statusCounts) \in Nat
    BY <1>2, MapsAreFinite, TotalTyped DEF AdminTypeOK, Snapshots
  <1>4. /\ s.statuses[401] \in Nat /\ s.statuses[403] \in Nat
        /\ statusCounts[401] \in Nat /\ statusCounts[403] \in Nat
        /\ \A a \in Atomics : s.atomics[a] \in Nat
    BY <1>2 DEF AdminTypeOK, Snapshots
  <1>c. /\ Total(routeRequests) <= atomics["requests"] /\ Total(statusCounts) <= atomics["requests"]
        /\ statusCounts[401] <= atomics["unauthorized"] /\ statusCounts[403] <= atomics["forbidden"]
    <2>1. \A P, Q : Cardinality(Recording(P, Q)) \in Nat
                    \/ ~ IsFiniteSet(Recording(P, Q))
      BY FS_CardinalityType
    <2>2. \A P, Q : "new" \notin P => IsFiniteSet(Recording(P, Q))
      <3>1. \A P, Q : "new" \notin P => Recording(P, Q) \subseteq {q \in Visits : visit[q].at # "new"}
        BY DEF Recording
      <3> QED
        BY <3>1, FS_Subset DEF CountsInv
    <2>3. /\ Cardinality(Recording({"refusal", "route"}, Statuses)) \in Nat
          /\ Cardinality(Recording({"refusal", "route", "status"}, Statuses)) \in Nat
          /\ Cardinality(Recording({"route", "status"}, {401})) \in Nat
          /\ Cardinality(Recording({"route", "status"}, {403})) \in Nat
      BY <2>1, <2>2
    <2> QED
      BY <1>1, <1>2, <1>3, <1>4, <2>3 DEF CountsInv
  <1> HIDE DEF s
  <1>r. ReadOf(s)
    BY DEF ReadInv, s
  <1>5. CASE snapshot'[r] = s
    <2>1. atomics["requests"] <= atomics'["requests"] /\ atomics["unauthorized"] <= atomics'["unauthorized"]
          /\ atomics["forbidden"] <= atomics'["forbidden"]
      BY <1>1, <1>2
    <2> QED
      <3>1. s.todo = Tail(SnapshotOrder) => Total(s.routes) <= atomics'["requests"]
        BY <1>1, <1>2, <1>3, <1>r, <2>1 DEF ReadOf
      <3>2. s.todo = <<"requests", "refused">> =>
              Total(s.routes) <= atomics'["requests"] /\ Total(s.statuses) <= atomics'["requests"]
        BY <1>1, <1>2, <1>3, <1>r, <2>1 DEF ReadOf
      <3>3. s.todo \in {<<"requests", "refused">>, <<"refused">>} =>
              s.statuses[401] <= atomics'["unauthorized"] /\ s.statuses[403] <= atomics'["forbidden"]
        <4> SUFFICES ASSUME s.todo \in {<<"requests", "refused">>, <<"refused">>}
                     PROVE  s.statuses[401] <= atomics'["unauthorized"]
                            /\ s.statuses[403] <= atomics'["forbidden"]
          OBVIOUS
        <4>1. s.statuses[401] <= atomics["unauthorized"] /\ s.statuses[403] <= atomics["forbidden"]
          BY <1>r DEF ReadOf
        <4>2. /\ atomics["unauthorized"] \in Nat /\ atomics'["unauthorized"] \in Nat
              /\ atomics["forbidden"] \in Nat /\ atomics'["forbidden"] \in Nat
              /\ s.statuses[401] \in Nat /\ s.statuses[403] \in Nat
          BY <1>1, <1>2, <1>4
        <4> QED
          BY <2>1, <4>1, <4>2
      <3> QED
        BY <1>5, <1>r, <3>1, <3>2, <3>3 DEF ReadOf
  <1>6. CASE snapshot'[r].todo = SnapshotOrder
    BY <1>6, TodosDiffer DEF ReadOf
  <1>7. CASE ReadNext(r)
    <2> DEFINE t == snapshot'[r]
    <2>1. /\ s.todo # <<>> /\ t.todo = Tail(s.todo) /\ s.todo \in Todos
          /\ t.routes = IF Head(s.todo) = "routes" THEN routeRequests ELSE s.routes
          /\ t.statuses = IF Head(s.todo) = "statuses" THEN statusCounts ELSE s.statuses
          /\ t.atomics["requests"] = IF Head(s.todo) = "requests" THEN atomics["requests"]
                                     ELSE s.atomics["requests"]
          /\ \A a \in Atomics \ {"requests"} :
               t.atomics[a] = IF Head(s.todo) = "refused" THEN atomics[a] ELSE s.atomics[a]
      BY <1>2, <1>7, ReadMore DEF s, Snapshots
    <2>2. atomics' = atomics
      BY <1>7 DEF ReadNext
    <2>3. ReadOf(s)
      BY <1>r
    <2> HIDE DEF t
    <2>4. CASE s.todo = SnapshotOrder
      <3>1. t.todo = Tail(SnapshotOrder) /\ t.routes = routeRequests
        BY <2>1, <2>4, TodosAre
      <3> QED
        BY <1>c, <2>2, <3>1, TodosDiffer DEF ReadOf, t
    <2>5. CASE s.todo = Tail(SnapshotOrder)
      <3>1. t.todo = <<"requests", "refused">> /\ t.routes = s.routes /\ t.statuses = statusCounts
        BY <2>1, <2>5, TodosAre
      <3> QED
        BY <1>c, <2>2, <2>3, <2>5, <3>1, TodosDiffer DEF ReadOf, t
    <2>6. CASE s.todo = <<"requests", "refused">>
      <3>1. /\ t.todo = <<"refused">> /\ t.routes = s.routes /\ t.statuses = s.statuses
            /\ t.atomics["requests"] = atomics["requests"]
        BY <2>1, <2>6, TodosAre
      <3> QED
        BY <1>c, <2>2, <2>3, <2>6, <3>1, TodosDiffer DEF ReadOf, t
    <2>7. CASE s.todo = <<"refused">>
      <3>1. /\ t.todo = <<>> /\ t.routes = s.routes /\ t.statuses = s.statuses
            /\ t.atomics["requests"] = s.atomics["requests"]
            /\ t.atomics["unauthorized"] = atomics["unauthorized"]
            /\ t.atomics["forbidden"] = atomics["forbidden"]
        BY <1>2, <2>1, <2>7, TodosAre
      <3> QED
        BY <1>c, <2>2, <2>3, <2>7, <3>1, TodosDiffer DEF ReadOf, t
    <2> QED
      BY <2>1, <2>4, <2>5, <2>6, <2>7, TodosAre
  <1>8. snapshot'[r] = s \/ snapshot'[r].todo = SnapshotOrder \/ ReadNext(r)
    <2>1. ASSUME NEW q \in Visits, Snapshot(q) PROVE snapshot'[r] = s \/ snapshot'[r].todo = SnapshotOrder
      BY <2>1 DEF Snapshot, AdminTypeOK, s
    <2>2. ASSUME NEW q \in Visits, ReadNext(q) PROVE snapshot'[r] = s \/ ReadNext(r)
      BY <2>2, ReadMore DEF AdminTypeOK, s
    <2>3. (\E q \in Visits : Snapshot(q) \/ ReadNext(q)) \/ snapshot' = snapshot
      BY DEF AdminNext, adminVars, Enter, Reject, Serve, Updated, ShowMetrics,
             RecordTotal, RecordRefusal, RecordRoute, RecordStatus, Leave
    <2> QED
      BY <2>1, <2>2, <2>3 DEF s
  <1> QED
    BY <1>5, <1>6, <1>7, <1>8

\* Who is recording, when a request moves.
LEMMA RecordingMoves ==
  ASSUME NEW r \in Visits, NEW P, NEW Q,
         visit'[r].status = visit[r].status, \A q \in Visits \ {r} : visit'[q] = visit[q]
  PROVE  Recording(P, Q)' = IF visit'[r].at \in P /\ visit[r].status \in Q
                            THEN Recording(P, Q) \cup {r} ELSE Recording(P, Q) \ {r}
  BY DEF Recording

\* ... and when it is not at a point of record_request, before and after.
LEMMA RecordingStays ==
  ASSUME NEW r \in Visits, NEW P, NEW Q, visit[r].at \notin P, visit'[r].at \notin P,
         \A q \in Visits \ {r} : visit'[q] = visit[q]
  PROVE  Recording(P, Q)' = Recording(P, Q)
  BY DEF Recording

\* They are finitely many while finitely many requests have come in.
LEMMA RecordingFinite ==
  ASSUME CountsInv, NEW P, NEW Q, "new" \notin P
  PROVE  IsFiniteSet(Recording(P, Q)) /\ Cardinality(Recording(P, Q)) \in Nat
  <1>1. Recording(P, Q) \subseteq {q \in Visits : visit[q].at # "new"}
    BY DEF Recording
  <1>2. IsFiniteSet(Recording(P, Q))
    BY <1>1, FS_Subset DEF CountsInv
  <1> QED
    BY <1>2, FS_CardinalityType

\* One recorder joins the first group and all the others stay; or it leaves one.
LEMMA RecordingCounts ==
  ASSUME CountsInv, NEW r \in Visits, NEW P, NEW Q, "new" \notin P,
         visit'[r].status = visit[r].status, \A q \in Visits \ {r} : visit'[q] = visit[q]
  PROVE  LET before == visit[r].at \in P /\ visit[r].status \in Q
             after == visit'[r].at \in P /\ visit[r].status \in Q
             n == Cardinality(Recording(P, Q))
             m == Cardinality(Recording(P, Q)')
         IN /\ n \in Nat /\ m \in Nat
            /\ before /\ ~after => m = n - 1
            /\ ~before /\ after => m = n + 1
            /\ (before <=> after) => m = n
  <1> DEFINE A == Recording(P, Q)
             B == Recording(P, Q)'
  <1>1. IsFiniteSet(A) /\ Cardinality(A) \in Nat
    BY RecordingFinite
  <1>2. B = IF visit'[r].at \in P /\ visit[r].status \in Q THEN A \cup {r} ELSE A \ {r}
    BY RecordingMoves
  <1>3. r \in A <=> visit[r].at \in P /\ visit[r].status \in Q
    BY DEF Recording
  <1> HIDE DEF A, B
  <1>4. CASE r \in A
    <2>1. Cardinality(A \ {r}) = Cardinality(A) - 1 /\ Cardinality(A \ {r}) \in Nat
      BY <1>1, <1>4, FS_RemoveElement, FS_CardinalityType
    <2>2. A \cup {r} = A
      BY <1>4
    <2> QED
      BY <1>1, <1>2, <1>3, <1>4, <2>1, <2>2 DEF A, B
  <1>5. CASE r \notin A
    <2>1. Cardinality(A \cup {r}) = Cardinality(A) + 1
      BY <1>1, <1>5, FS_AddElement
    <2>2. A \ {r} = A
      BY <1>5
    <2>3. CASE visit'[r].at \in P /\ visit[r].status \in Q
      <3>1. Cardinality(B) = Cardinality(A) + 1
        BY <1>2, <2>1, <2>3
      <3> QED
        BY <1>1, <1>3, <1>5, <2>3, <3>1 DEF A, B
    <2>4. CASE ~(visit'[r].at \in P /\ visit[r].status \in Q)
      <3>1. Cardinality(B) = Cardinality(A)
        BY <1>2, <2>2, <2>4
      <3> QED
        BY <1>1, <1>3, <1>5, <2>4, <3>1 DEF A, B
    <2> QED
      BY <2>3, <2>4
  <1> QED
    BY <1>4, <1>5

\* The totals stay ahead of the maps by those who are still recording.
LEMMA CountsStep ==
  ASSUME AdminTypeOK, CountsInv, [AdminNext]_adminVars
  PROVE  CountsInv'
  <1> DEFINE R1 == Recording({"refusal", "route"}, Statuses)
             R2 == Recording({"refusal", "route", "status"}, Statuses)
             R3 == Recording({"route", "status"}, {401})
             R4 == Recording({"route", "status"}, {403})
  <1>t. /\ AdminTypeOK'
        /\ Total(routeRequests) \in Nat /\ Total(statusCounts) \in Nat
        /\ \A a \in Atomics : atomics[a] \in Nat
        /\ {"requests", "unauthorized", "forbidden"} \subseteq Atomics
        /\ statusCounts[401] \in Nat /\ statusCounts[403] \in Nat
    <2>1. AdminTypeOK'
      BY AdminTypedStep
    <2>2. Total(routeRequests) \in Nat /\ Total(statusCounts) \in Nat
      BY MapsAreFinite, TotalTyped DEF AdminTypeOK
    <2>3. /\ \A a \in Atomics : atomics[a] \in Nat
          /\ statusCounts[401] \in Nat /\ statusCounts[403] \in Nat
      BY DEF AdminTypeOK, Statuses
    <2> QED
      BY <2>1, <2>2, <2>3 DEF Atomics
  <1>i. /\ Total(routeRequests) + Cardinality(R1) <= atomics["requests"]
        /\ Total(statusCounts) + Cardinality(R2) <= atomics["requests"]
        /\ statusCounts[401] + Cardinality(R3) <= atomics["unauthorized"]
        /\ statusCounts[403] + Cardinality(R4) <= atomics["forbidden"]
        /\ \A q \in Visits : visit[q].at = "refusal" => visit[q].status \in {401, 403}
    BY DEF CountsInv
  <1>n. /\ Cardinality(R1) \in Nat /\ Cardinality(R2) \in Nat
        /\ Cardinality(R3) \in Nat /\ Cardinality(R4) \in Nat
    BY RecordingFinite
  \* Requests come in one by one.
  <1>f. ASSUME NEW r \in Visits, \A q \in Visits \ {r} : visit'[q] = visit[q]
        PROVE  IsFiniteSet({q \in Visits : visit[q].at # "new"})'
    <2>1. IsFiniteSet({q \in Visits : visit[q].at # "new"} \cup {r})
      BY FS_AddElement DEF CountsInv
    <2>2. {q \in Visits : visit[q].at # "new"}' \subseteq {q \in Visits : visit[q].at # "new"} \cup {r}
      BY <1>f
    <2> QED
      BY <2>1, <2>2, FS_Subset
  \* Nothing is recorded.
  <1>s. ASSUME NEW r \in Visits, \A q \in Visits \ {r} : visit'[q] = visit[q],
               visit[r].at \notin {"refusal", "route", "status"},
               visit'[r].at \notin {"refusal", "route", "status"},
               UNCHANGED <<routeRequests, statusCounts>>,
               \A a \in {"requests", "unauthorized", "forbidden"} : atomics'[a] = atomics[a]
        PROVE  CountsInv'
    <2>1. R1' = R1 /\ R2' = R2 /\ R3' = R3 /\ R4' = R4
      BY <1>s, RecordingStays
    <2>2. \A q \in Visits : visit'[q].at = "refusal" => visit'[q].status \in {401, 403}
      BY <1>i, <1>s
    <2>3. IsFiniteSet({q \in Visits : visit[q].at # "new"})'
      BY <1>f, <1>s
    <2> HIDE DEF R1, R2, R3, R4
    <2>4. /\ Total(routeRequests)' + Cardinality(R1') <= atomics'["requests"]
          /\ Total(statusCounts)' + Cardinality(R2') <= atomics'["requests"]
          /\ statusCounts'[401] + Cardinality(R3') <= atomics'["unauthorized"]
          /\ statusCounts'[403] + Cardinality(R4') <= atomics'["forbidden"]
      BY <1>i, <1>s, <2>1
    <2> QED
      BY <2>2, <2>3, <2>4 DEF CountsInv, R1, R2, R3, R4
  <1>1. ASSUME NEW r \in Visits, Enter(r) PROVE CountsInv'
    <2>1. /\ visit[r].at = "new" /\ visit'[r].at \in {"total", "handler"}
          /\ \A q \in Visits \ {r} : visit'[q] = visit[q]
      BY <1>1 DEF Enter, At, AdminTypeOK
    <2> QED
      BY <1>1, <1>s, <2>1 DEF Enter
  <1>2. ASSUME NEW r \in Visits, Reject(r) \/ Updated(r) \/ ShowMetrics(r) PROVE CountsInv'
    <2>1. {200, 400} \subseteq Statuses
      BY DEF Statuses
    <2>2. /\ visit[r].at \in {"handler", "update", "read"} /\ visit'[r].at = "total"
          /\ \A q \in Visits \ {r} : visit'[q] = visit[q]
      BY <1>2, <2>1, AnsweredWith DEF Reject, Updated, ShowMetrics, At
    <2> QED
      BY <1>2, <1>s, <2>2 DEF Reject, Updated, ShowMetrics
  <1>3. ASSUME NEW r \in Visits, Serve(r) PROVE CountsInv'
    <2>1. {200, 400} \subseteq Statuses /\ "update" \in Places /\ {"updates", "searches"} \subseteq Atomics
      BY DEF Statuses, Places, Atomics
    <2>2. /\ visit[r].at = "handler" /\ visit'[r].at \in {"total", "update"}
          /\ \A q \in Visits \ {r} : visit'[q] = visit[q]
      BY <1>3, <2>1, AnsweredWith, Moved DEF Serve, At
    <2>3. atomics \in [Atomics -> Nat]
      BY DEF AdminTypeOK
    <2>4. \A a \in {"requests", "unauthorized", "forbidden"} : atomics'[a] = atomics[a]
      BY <1>3, <1>t, <2>1, <2>3, Counted DEF Serve
    <2> QED
      BY <1>3, <1>s, <2>2, <2>4 DEF Serve
  <1>4. ASSUME NEW r \in Visits, Snapshot(r) PROVE CountsInv'
    <2>1. /\ visit[r].at = "handler" /\ visit'[r].at = "read"
          /\ \A q \in Visits \ {r} : visit'[q] = visit[q]
      BY <1>4, Moved DEF Snapshot, At, Places
    <2> QED
      BY <1>4, <1>s, <2>1 DEF Snapshot
  <1>5. CASE UNCHANGED <<visit, atomics, routeRequests, statusCounts>>
    BY <1>5 DEF CountsInv, Recording
  <1> DEFINE Others(r) == /\ visit'[r].status = visit[r].status /\ visit[r].status \in Statuses
                          /\ \A q \in Visits \ {r} : visit'[q] = visit[q]
  \* The inequalities are all there is to show.
  <1>q. ASSUME NEW r \in Visits, Others(r),
               visit'[r].at = "refusal" => visit[r].status \in {401, 403},
               Total(routeRequests)' + Cardinality(R1') <= atomics'["requests"],
               Total(statusCounts)' + Cardinality(R2') <= atomics'["requests"],
               statusCounts'[401] + Cardinality(R3') <= atomics'["unauthorized"],
               statusCounts'[403] + Cardinality(R4') <= atomics'["forbidden"]
        PROVE  CountsInv'
    <2>1. \A q \in Visits : visit'[q].at = "refusal" => visit'[q].status \in {401, 403}
      BY <1>i, <1>q
    <2>2. IsFiniteSet({q \in Visits : visit[q].at # "new"})'
      BY <1>f, <1>q
    <2> QED
      BY <1>q, <2>1, <2>2 DEF CountsInv
  <1>6. ASSUME NEW r \in Visits, RecordTotal(r) PROVE CountsInv'
    <2> DEFINE to == IF visit[r].status \in {401, 403} THEN "refusal" ELSE "route"
    <2>1. visit[r].at = "total" /\ visit'[r].at = to /\ Others(r)
      BY <1>6, Moved DEF RecordTotal, At, Places, AdminTypeOK
    <2>2. /\ atomics'["requests"] = atomics["requests"] + 1
          /\ atomics'["unauthorized"] = atomics["unauthorized"]
          /\ atomics'["forbidden"] = atomics["forbidden"]
      BY <1>6, <1>t, Counted DEF RecordTotal, AdminTypeOK
    <2>3. /\ Cardinality(R1') = Cardinality(R1) + 1 /\ Cardinality(R2') = Cardinality(R2) + 1
          /\ Cardinality(R3') = Cardinality(R3) /\ Cardinality(R4') = Cardinality(R4)
      BY <2>1, RecordingCounts
    <2> HIDE DEF R1, R2, R3, R4
    <2>4. /\ Total(routeRequests)' + Cardinality(R1') <= atomics'["requests"]
          /\ Total(statusCounts)' + Cardinality(R2') <= atomics'["requests"]
          /\ statusCounts'[401] + Cardinality(R3') <= atomics'["unauthorized"]
          /\ statusCounts'[403] + Cardinality(R4') <= atomics'["forbidden"]
      BY <1>6, <1>i, <1>n, <1>t, <2>2, <2>3 DEF RecordTotal
    <2> QED
      BY <1>q, <2>1, <2>4
  <1>7. ASSUME NEW r \in Visits, RecordRefusal(r) PROVE CountsInv'
    <2>1. /\ visit[r].at = "refusal" /\ visit'[r].at = "route" /\ Others(r)
          /\ visit[r].status \in {401, 403}
      BY <1>7, <1>i, Moved DEF RecordRefusal, At, Places, AdminTypeOK
    <2>2. /\ Cardinality(R1') = Cardinality(R1) /\ Cardinality(R2') = Cardinality(R2)
          /\ Cardinality(R3') = Cardinality(R3) + (IF visit[r].status = 401 THEN 1 ELSE 0)
          /\ Cardinality(R4') = Cardinality(R4) + (IF visit[r].status = 403 THEN 1 ELSE 0)
      BY <2>1, RecordingCounts
    <2>3. /\ atomics'["requests"] = atomics["requests"]
          /\ atomics'["unauthorized"] = atomics["unauthorized"] + (IF visit[r].status = 401 THEN 1 ELSE 0)
          /\ atomics'["forbidden"] = atomics["forbidden"] + (IF visit[r].status = 403 THEN 1 ELSE 0)
      BY <1>7, <1>t, <2>1, Counted DEF RecordRefusal, AdminTypeOK
    <2> HIDE DEF R1, R2, R3, R4
    <2>4. /\ Total(routeRequests)' + Cardinality(R1') <= atomics'["requests"]
          /\ Total(statusCounts)' + Cardinality(R2') <= atomics'["requests"]
          /\ statusCounts'[401] + Cardinality(R3') <= atomics'["unauthorized"]
          /\ statusCounts'[403] + Cardinality(R4') <= atomics'["forbidden"]
      BY <1>7, <1>i, <1>n, <1>t, <2>2, <2>3 DEF RecordRefusal
    <2> QED
      BY <1>q, <2>1, <2>4
  <1>8. ASSUME NEW r \in Visits, RecordRoute(r) PROVE CountsInv'
    <2>1. visit[r].at = "route" /\ visit'[r].at = "status" /\ Others(r)
      BY <1>8, Moved DEF RecordRoute, At, Places, AdminTypeOK
    <2>2. /\ Cardinality(R1') = Cardinality(R1) - 1 /\ Cardinality(R2') = Cardinality(R2)
          /\ Cardinality(R3') = Cardinality(R3) /\ Cardinality(R4') = Cardinality(R4)
      BY <2>1, RecordingCounts
    <2>3. Total(routeRequests)' = Total(routeRequests) + 1
      <3>1. routeRequests \in [Routes -> Nat] /\ visit[r].route \in Routes
        BY DEF AdminTypeOK
      <3>2. Total([routeRequests EXCEPT ![visit[r].route] = @ + 1]) = Total(routeRequests) + 1
        BY <3>1, MapsAreFinite, TotalMore
      <3>3. routeRequests' = [routeRequests EXCEPT ![visit[r].route] = @ + 1]
        BY <1>8 DEF RecordRoute
      <3> QED
        BY <3>2, <3>3
    <2> HIDE DEF R1, R2, R3, R4
    <2>4. /\ Total(routeRequests)' + Cardinality(R1') <= atomics'["requests"]
          /\ Total(statusCounts)' + Cardinality(R2') <= atomics'["requests"]
          /\ statusCounts'[401] + Cardinality(R3') <= atomics'["unauthorized"]
          /\ statusCounts'[403] + Cardinality(R4') <= atomics'["forbidden"]
      BY <1>8, <1>i, <1>n, <1>t, <2>2, <2>3 DEF RecordRoute
    <2> QED
      BY <1>q, <2>1, <2>4
  <1>9. ASSUME NEW r \in Visits, RecordStatus(r) PROVE CountsInv'
    <2>1. visit[r].at = "status" /\ visit'[r].at = "sent" /\ Others(r)
      BY <1>9, Moved DEF RecordStatus, At, Places, AdminTypeOK
    <2>2. /\ Cardinality(R1') = Cardinality(R1) /\ Cardinality(R2') = Cardinality(R2) - 1
          /\ Cardinality(R3') = Cardinality(R3) - (IF visit[r].status = 401 THEN 1 ELSE 0)
          /\ Cardinality(R4') = Cardinality(R4) - (IF visit[r].status = 403 THEN 1 ELSE 0)
      BY <1>n, <2>1, RecordingCounts
    <2>3. Total(statusCounts)' = Total(statusCounts) + 1
      <3>1. statusCounts \in [Statuses -> Nat] /\ visit[r].status \in Statuses
        BY DEF AdminTypeOK
      <3>2. Total([statusCounts EXCEPT ![visit[r].status] = @ + 1]) = Total(statusCounts) + 1
        BY <3>1, MapsAreFinite, TotalMore
      <3>3. statusCounts' = [statusCounts EXCEPT ![visit[r].status] = @ + 1]
        BY <1>9 DEF RecordStatus
      <3> QED
        BY <3>2, <3>3
    <2>4. /\ statusCounts'[401] = statusCounts[401] + (IF visit[r].status = 401 THEN 1 ELSE 0)
          /\ statusCounts'[403] = statusCounts[403] + (IF visit[r].status = 403 THEN 1 ELSE 0)
      BY <1>9, <1>t DEF RecordStatus, AdminTypeOK, Statuses
    <2> HIDE DEF R1, R2, R3, R4
    <2>5. /\ Total(routeRequests)' + Cardinality(R1') <= atomics'["requests"]
          /\ Total(statusCounts)' + Cardinality(R2') <= atomics'["requests"]
          /\ statusCounts'[401] + Cardinality(R3') <= atomics'["unauthorized"]
          /\ statusCounts'[403] + Cardinality(R4') <= atomics'["forbidden"]
      BY <1>9, <1>i, <1>n, <1>t, <2>2, <2>3, <2>4 DEF RecordStatus
    <2> QED
      BY <1>q, <2>1, <2>5
  <1>l. ASSUME NEW r \in Visits, Leave(r) PROVE CountsInv'
    <2>1. /\ visit[r].at \in {"update", "read", "route", "status"} /\ visit'[r].at = "left" /\ Others(r)
      BY <1>l, Moved DEF Leave, At, Places, AdminTypeOK
    <2>2. /\ Cardinality(R1') \in Nat /\ Cardinality(R1') <= Cardinality(R1)
          /\ Cardinality(R2') \in Nat /\ Cardinality(R2') <= Cardinality(R2)
      BY <1>n, <2>1, RecordingCounts
    <2>3. /\ Cardinality(R3') \in Nat /\ Cardinality(R3') <= Cardinality(R3)
          /\ Cardinality(R4') \in Nat /\ Cardinality(R4') <= Cardinality(R4)
      BY <1>n, <2>1, RecordingCounts
    <2> HIDE DEF R1, R2, R3, R4
    <2>4. /\ Total(routeRequests)' + Cardinality(R1') <= atomics'["requests"]
          /\ Total(statusCounts)' + Cardinality(R2') <= atomics'["requests"]
          /\ statusCounts'[401] + Cardinality(R3') <= atomics'["unauthorized"]
          /\ statusCounts'[403] + Cardinality(R4') <= atomics'["forbidden"]
      BY <1>l, <1>i, <1>n, <1>t, <2>2, <2>3 DEF Leave
    <2> QED
      BY <1>q, <2>1, <2>4
  <1>u. (\E r \in Visits : ReadNext(r)) \/ UNCHANGED adminVars => CountsInv'
    BY <1>5 DEF ReadNext, adminVars
  <1> QED
    BY <1>1, <1>2, <1>3, <1>4, <1>6, <1>7, <1>8, <1>9, <1>l, <1>u DEF AdminNext

\* The three parts hold together.
LEMMA AdminInvHolds == AdminSpec => []AdminInv
  <1>1. AdminInit => AdminInv
    <2> SUFFICES ASSUME AdminInit PROVE AdminInv
      OBVIOUS
    <2>1. AdminTypeOK
      BY TodosAre DEF AdminInit, AdminTypeOK, Zero, Unread, Places, Routes, Statuses, Todos
    <2>2. \A P, Q : "new" \notin P => Recording(P, Q) = {}
      BY DEF AdminInit, Recording
    <2>3. {r \in Visits : visit[r].at # "new"} = {}
      BY DEF AdminInit
    <2>4. Total(routeRequests) = 0 /\ Total(statusCounts) = 0
      BY MapsAreFinite, TotalOfZero DEF AdminInit
    <2>5. CountsInv
      <3>1. /\ atomics["requests"] = 0 /\ atomics["unauthorized"] = 0 /\ atomics["forbidden"] = 0
            /\ statusCounts[401] = 0 /\ statusCounts[403] = 0
            /\ \A r \in Visits : visit[r].at # "refusal"
        BY DEF AdminInit, Zero, Statuses, Atomics
      <3>2. /\ Recording({"refusal", "route"}, Statuses) = {}
            /\ Recording({"refusal", "route", "status"}, Statuses) = {}
            /\ Recording({"route", "status"}, {401}) = {}
            /\ Recording({"route", "status"}, {403}) = {}
        BY <2>2
      <3> QED
        BY <2>3, <2>4, <3>1, <3>2, FS_EmptySet, SMTT(30) DEF CountsInv
    <2>6. ReadInv
      <3> SUFFICES ASSUME NEW r \in Visits PROVE ReadOf(snapshot[r])
        BY DEF ReadInv
      <3>1. /\ snapshot[r].todo = <<>> /\ snapshot[r].routes = Zero(Routes)
            /\ snapshot[r].statuses = Zero(Statuses) /\ snapshot[r].atomics = Zero(Atomics)
        BY DEF AdminInit, Unread
      <3>2. Total(Zero(Routes)) = 0 /\ Total(Zero(Statuses)) = 0
        BY MapsAreFinite, TotalOfZero
      <3> QED
        BY <3>1, <3>2, TodosDiffer DEF ReadOf, Zero, Atomics, Statuses
    <2> QED
      BY <2>1, <2>5, <2>6 DEF AdminInv
  <1>2. AdminInv /\ [AdminNext]_adminVars => AdminInv'
    BY AdminTypedStep, CountsStep, ReadStep DEF AdminInv
  <1> QED
    BY <1>1, <1>2, PTL DEF AdminSpec

(***************************************************************************)
(* The metrics that any request shows add up, for any number of requests   *)
(* that are counted, refused or abandoned while they are read.             *)
(***************************************************************************)
THEOREM ShownMetricsAddUp == AdminSpec => []MetricsAddUp
  <1>1. AdminInv => MetricsAddUp
    <2> SUFFICES ASSUME AdminInv, NEW r \in Visits, snapshot[r].todo = <<>>
                 PROVE  LET s == snapshot[r]
                        IN /\ s.atomics["requests"] >= Total(s.routes)
                           /\ s.atomics["requests"] >= Total(s.statuses)
                           /\ s.atomics["unauthorized"] >= s.statuses[401]
                           /\ s.atomics["forbidden"] >= s.statuses[403]
      BY DEF MetricsAddUp
    <2>1. ReadOf(snapshot[r])
      BY DEF AdminInv, ReadInv
    <2> QED
      BY <2>1 DEF ReadOf
  <1> QED
    BY <1>1, AdminInvHolds, PTL

(***************************************************************************)
(* The counters, the answers and the snapshots are what the code's types   *)
(* make of them: a snapshot is never of something it has not read.         *)
(***************************************************************************)
THEOREM AdminTypesHold == AdminSpec => []AdminTypeOK
  <1>1. AdminInv => AdminTypeOK
    BY DEF AdminInv
  <1> QED
    BY <1>1, AdminInvHolds, PTL
=============================================================================
