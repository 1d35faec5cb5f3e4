------------------------------ MODULE Artifacts ------------------------------
(***************************************************************************)
(* The directory of a generated artifact (generator/): `generate`,         *)
(* `regenerate` and `connect --save-profile` write a launcher script, an   *)
(* example of the environment, on demand a bundled binary and a compiled   *)
(* wrapper, and at the end the metadata that names them.  Every file is    *)
(* written in place.  Commands may overlap, fail and be killed, and the    *)
(* user may edit the definition meanwhile.                                 *)
(*                                                                         *)
(* Contents are the version of the definition they were made from.         *)
(***************************************************************************)
EXTENDS Integers, Sequences

CONSTANTS
  Jobs,          \* runs of the commands
  MaxVersion     \* bound on the edits of the definition

ASSUME VersionsBounded == MaxVersion \in Nat

VARIABLES
  definition,    \* the version of the definition file; 0 is no valid definition
  job,           \* job[j]: how far j is, its options, and what it read
  output,        \* output[f]: the file f of the directory
  metadata,      \* the metadata file
  made           \* history: made[j]: the files j has finished

artifactVars == <<definition, job, output, metadata, made>>

Outputs == {"script", "env", "mcpway", "wrapper"}
Versions == 0 .. MaxVersion
BuildOptions == [mode : {"generate", "connect"}, bundle : BOOLEAN, compile : BOOLEAN]
Progress == [stage : {"start", "load", "next", "close", "stamp", "ended"},
             options : BuildOptions, version : Versions, todo : Seq(Outputs)]
PlainOptions == [mode |-> "generate", bundle |-> FALSE, compile |-> FALSE]
NoMetadata == [state |-> "absent", by |-> "none", options |-> PlainOptions, sha |-> 0]

ArtifactTypeOK ==
  /\ definition \in Versions
  /\ job \in [Jobs -> Progress]
  /\ output \in [Outputs -> [state : {"absent", "torn", "whole"}, version : Versions]]
  /\ metadata \in [state : {"absent", "torn", "whole"}, by : Jobs \cup {"none"},
                   options : BuildOptions, sha : Versions]
  /\ made \in [Jobs -> SUBSET Outputs]

ArtifactInit ==
  /\ definition = 0
  /\ job = [j \in Jobs |-> [stage |-> "start", options |-> PlainOptions, version |-> 0,
                            todo |-> <<>>]]
  /\ output = [f \in Outputs |-> [state |-> "absent", version |-> 0]]
  /\ metadata = NoMetadata
  /\ made = [j \in Jobs |-> {}]

\* The user writes a definition, or another one.
EditDefinition ==
  /\ definition < MaxVersion
  /\ definition' = definition + 1
  /\ UNCHANGED <<job, output, metadata, made>>

\* j begins its work with options o.
Begins(j, o) == job' = [job EXCEPT ![j] = [@ EXCEPT !.stage = "load", !.options = o]]

Generate(j) ==
  /\ job[j].stage = "start"
  /\ \E b, w \in BOOLEAN : Begins(j, [mode |-> "generate", bundle |-> b, compile |-> w])
  /\ UNCHANGED <<definition, output, metadata, made>>

\* connect --save-profile: there is no definition to load.
SaveProfile(j) ==
  /\ job[j].stage = "start"
  /\ Begins(j, [PlainOptions EXCEPT !.mode = "connect"])
  /\ UNCHANGED <<definition, output, metadata, made>>

\* What regenerate makes of the options in metadata m: it may override them,
\* unless m is of a connect profile.
Overrides(m) ==
  {o \in BuildOptions : /\ o.mode = m.options.mode
                        /\ o.mode = "connect" => o = m.options}

\* run_regenerate reads the metadata; a torn one is refused, which ends j.
Regenerate(j) ==
  /\ job[j].stage = "start"
  /\ metadata.state = "whole"
  /\ \E o \in Overrides(metadata) : Begins(j, o)
  /\ UNCHANGED <<definition, output, metadata, made>>

\* Mutant: the metadata is written before the wrapper is compiled.
OutlineUncompiled(o) == <<"script", "env">> \o (IF o.bundle THEN <<"mcpway">> ELSE <<>>)

\* The files of build_artifacts and of write_connect_profile, in their order.
Outline(o) ==
  <<"script", "env">> \o (IF o.bundle THEN <<"mcpway">> ELSE <<>>)
                      \o (IF o.compile THEN <<"wrapper">> ELSE <<>>)

\* load_definition and normalize_definition; a connect profile has its
\* contents from the command line or from the metadata.
LoadDefinition(j) ==
  /\ job[j].stage = "load"
  /\ job[j].options.mode = "generate" => definition # 0
  /\ job' = [job EXCEPT ![j] = [@ EXCEPT !.stage = "next", !.version = definition,
                                         !.todo = Outline(job[j].options)]]
  /\ UNCHANGED <<definition, output, metadata, made>>

\* The next file is opened for writing or copying, which truncates it.
OpenOutput(j) ==
  /\ job[j].stage = "next" /\ job[j].todo # <<>>
  /\ output' = [output EXCEPT ![Head(job[j].todo)] = [state |-> "torn", version |-> 0]]
  /\ job' = [job EXCEPT ![j].stage = "close"]
  /\ UNCHANGED <<definition, metadata, made>>

\* It is complete, and executable where it should be.
CloseOutput(j) ==
  /\ job[j].stage = "close"
  /\ LET f == Head(job[j].todo)
     IN /\ output' = [output EXCEPT ![f] = [state |-> "whole", version |-> job[j].version]]
        /\ made' = [made EXCEPT ![j] = @ \cup {f}]
  /\ job' = [job EXCEPT ![j] = [@ EXCEPT !.stage = "next", !.todo = Tail(job[j].todo)]]
  /\ UNCHANGED <<definition, metadata>>

\* write_metadata opens the file; run_generate has read the definition again
\* for its checksum, which fails when it is gone.
OpenMetadata(j) ==
  /\ job[j].stage = "next" /\ job[j].todo = <<>>
  /\ metadata' = [NoMetadata EXCEPT !.state = "torn"]
  /\ job' = [job EXCEPT ![j] =
                 [@ EXCEPT !.stage = "stamp",
                           !.version = IF job[j].options.mode = "connect" THEN 0
                                       ELSE definition]]
  /\ UNCHANGED <<definition, output, made>>

CloseMetadata(j) ==
  /\ job[j].stage = "stamp"
  /\ metadata' = [state |-> "whole", by |-> j, options |-> job[j].options,
                  sha |-> job[j].version]
  /\ job' = [job EXCEPT ![j].stage = "ended"]
  /\ UNCHANGED <<definition, output, made>>

\* Any step of j fails, or j is killed: what it wrote stays.
Abort(j) ==
  /\ job[j].stage \notin {"start", "ended"}
  /\ job' = [job EXCEPT ![j].stage = "ended"]
  /\ UNCHANGED <<definition, output, metadata, made>>

ArtifactNext ==
  \/ EditDefinition
  \/ \E j \in Jobs :
       \/ Generate(j) \/ SaveProfile(j) \/ Regenerate(j) \/ LoadDefinition(j)
       \/ OpenOutput(j) \/ CloseOutput(j) \/ OpenMetadata(j) \/ CloseMetadata(j)
       \/ Abort(j)

ArtifactSpec == ArtifactInit /\ [][ArtifactNext]_artifactVars

-----------------------------------------------------------------------------
(* Properties *)

\* The files that metadata names which records options o.
Named(o) ==
  {"script", "env"} \cup (IF o.bundle THEN {"mcpway"} ELSE {})
                    \cup (IF o.compile THEN {"wrapper"} ELSE {})

\* Whole metadata names only files that are there and that the command which
\* wrote it had finished, however many commands ran, failed or overlapped.
\* (They may since have been written again, or have been truncated for that.)
MetadataIsLast ==
  metadata.state = "whole" =>
    /\ Named(metadata.options) \subseteq made[metadata.by]
    /\ \A f \in Named(metadata.options) : output[f].state # "absent"
=============================================================================
