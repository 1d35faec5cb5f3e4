---------------------------- MODULE ServerImport ----------------------------
(***************************************************************************)
(* Discovery of MCP servers in the configuration files of seven programs   *)
(* (discovery/), `discover` and `import` (main.rs), and the registry that  *)
(* import writes, from which ConnectCommand launches.  The user edits      *)
(* files at any time; the import reads them one by one and writes the      *)
(* registry in place, where a connect may meet it half written.            *)
(*                                                                         *)
(* An entry of a file is what decides its fate: its shape and whether it   *)
(* is enabled.  Commands, arguments, URLs and values are left out.         *)
(***************************************************************************)
EXTENDS Integers, FiniteSets, Sequences, SequencesExt

CONSTANTS
  Searched,    \* the programs that have files here; those of the others are absent
  Names,       \* server names: numbers, in the order of the names
  MaxInputs    \* bound on the edits and the commands of the user

VARIABLES
  config,      \* config[f]: the contents of file f
  inputs,      \* the edits and commands so far
  scan,        \* the import: its options, what is left to read, what it found
  registry,    \* the registry file
  profiles,    \* profiles[n]: the saved profile of n
  page         \* what a discover printed

importVars == <<config, inputs, scan, registry, profiles, page>>

-----------------------------------------------------------------------------
(* The sources: which scopes their files have, in the order they are read,  *)
(* whether "enabled": false hides an entry, and whether a file without a    *)
(* table of servers is reported.                                            *)

Cursor == [files |-> <<"project", "global">>, hides |-> TRUE, reports |-> TRUE]
Claude == [files |-> <<"project", "global">>, hides |-> TRUE, reports |-> TRUE]
Codex == [files |-> <<"project", "global">>, hides |-> TRUE, reports |-> FALSE]
Windsurf == [files |-> <<"global">>, hides |-> FALSE, reports |-> TRUE]
OpenCode == [files |-> <<"project", "project", "global", "global">>, hides |-> TRUE,
             reports |-> FALSE]
Nodecode == [files |-> <<"project", "global">>, hides |-> TRUE, reports |-> TRUE]
VsCode == [files |-> <<"project", "global", "global", "global">>, hides |-> FALSE,
           reports |-> TRUE]

About == [cursor |-> Cursor, claude |-> Claude, codex |-> Codex, windsurf |-> Windsurf,
          opencode |-> OpenCode, nodecode |-> Nodecode, vscode |-> VsCode]

SourcePriority ==
  <<"cursor", "claude", "codex", "windsurf", "opencode", "nodecode", "vscode">>

ASSUME SearchedKnown == Searched \subseteq ToSet(SourcePriority)

Rank(s) == CHOOSE i \in 1 .. Len(SourcePriority) : SourcePriority[i] = s

Files == UNION {{[source |-> s, at |-> i] : i \in 1 .. Len(About[s].files)} : s \in Searched}
Scope(f) == About[f.source].files[f.at]

\* scope_priority
ScopeRank(f) == IF Scope(f) = "project" THEN 0 ELSE 1

\* An entry is unclear (no object, or no transport to be inferred), a stdio or
\* a remote server, or a disabled stdio server.
Entries == {"none", "unclear", "stdio", "sse", "disabled"}
Broken == {"absent", "unparsable", "tableless"}
Blank == [state |-> "absent", entry |-> [n \in Names |-> "none"]]

Launchable == {"stdio", "sse"}
Servers == [name : Names, file : Files, kind : Launchable]
NoServer == [name |-> 0]
NoScan == [stage |-> "idle", command |-> "none", strict |-> FALSE, todo |-> {},
           found |-> {}, issues |-> 0]
Over(outcome) == [NoScan EXCEPT !.stage = outcome]
NoRegistry == [state |-> "absent", servers |-> {}, found |-> {}, strict |-> FALSE]

ImportInit ==
  /\ config = [f \in Files |-> Blank]
  /\ inputs = 0
  /\ scan = NoScan
  /\ registry = NoRegistry
  /\ profiles = [n \in Names |-> NoServer]
  /\ page = <<>>

\* The user changes an entry, or damages or removes the file.
Edit(f) ==
  /\ inputs < MaxInputs
  /\ inputs' = inputs + 1
  /\ \/ \E n \in Names, e \in Entries :
          config' = [config EXCEPT ![f].state = "good", ![f].entry[n] = e]
     \/ \E b \in Broken : config' = [config EXCEPT ![f] = [Blank EXCEPT !.state = b]]
  /\ UNCHANGED <<scan, registry, profiles, page>>

-----------------------------------------------------------------------------
(* Discovery *)

\* The files of the selected sources are read in the order of SOURCE_PRIORITY,
\* and those of a source in its own.
ReadBefore(f, g) ==
  Rank(f.source) < Rank(g.source) \/ (f.source = g.source /\ f.at < g.at)

\* discover and import begin: one source, or all of them.
BeginScan(com, strict) ==
  /\ scan.stage \in {"idle", "done", "failed"}
  /\ \E from \in {{s} : s \in Searched} \cup {Searched} :
       scan' = [NoScan EXCEPT !.stage = "scan", !.command = com, !.strict = strict,
                              !.todo = {f \in Files : f.source \in from}]
  /\ inputs < MaxInputs
  /\ inputs' = inputs + 1
  /\ page' = <<>>
  /\ UNCHANGED <<config, registry, profiles>>

\* infer_transport: the kind of an entry that collect_from_path accepts.
Kind(f, e) == IF e = "disabled" /\ ~About[f.source].hides THEN "stdio" ELSE e

\* collect_from_path: the servers of a file.
Accepted(f) ==
  {[name |-> n, file |-> f, kind |-> Kind(f, config[f].entry[n])] :
     n \in {m \in Names : config[f].state = "good"
                          /\ Kind(f, config[f].entry[m]) \in Launchable}}

\* ... and the warnings it gives.
Issues(f) ==
  CASE config[f].state = "unparsable" -> 1
    [] config[f].state = "tableless" -> IF About[f.source].reports THEN 1 ELSE 0
    [] OTHER -> Cardinality({n \in Names : config[f].entry[n] = "unclear"})

ScanFile ==
  /\ scan.stage = "scan"
  /\ \E f \in scan.todo :
       /\ \A g \in scan.todo \ {f} : ReadBefore(f, g)
       /\ scan' = [scan EXCEPT !.todo = @ \ {f}, !.found = @ \cup Accepted(f),
                               !.issues = @ + Issues(f)]
  /\ UNCHANGED <<config, inputs, registry, profiles, page>>

\* Mutant: an insert that overwrites, so that the last one stays.
PrecedesLast(a, b) ==
  \/ ScopeRank(a.file) > ScopeRank(b.file)
  \/ ScopeRank(a.file) = ScopeRank(b.file) /\ a.file.at > b.file.at

\* In the order of the sort in collapse_source_scope_precedence, a comes before b.
Precedes(a, b) ==
  \/ ScopeRank(a.file) < ScopeRank(b.file)
  \/ ScopeRank(a.file) = ScopeRank(b.file) /\ a.file.at < b.file.at

\* collapse_source_scope_precedence: one server for each name of a source.
Collapsed(found) ==
  {a \in found : \A b \in found :
     b.name = a.name /\ b.file.source = a.file.source /\ b # a => Precedes(a, b)}

\* The servers of the report: the first source that has the name.
Kept(found) ==
  {a \in Collapsed(found) : \A b \in Collapsed(found) :
     b.name = a.name => Rank(a.file.source) <= Rank(b.file.source)}

\* The conflicts of the report.
Conflicts(found) == Collapsed(found) \ Kept(found)

Scanned == scan.stage = "scan" /\ scan.todo = {}

Refused == scan.strict /\ Conflicts(scan.found) # {}

-----------------------------------------------------------------------------
(* discover *)

\* The sources in the order of their names, which is not that of their priority.
Alphabet == <<"claude", "codex", "cursor", "nodecode", "opencode", "vscode", "windsurf">>
Place(s) == CHOOSE i \in 1 .. Len(Alphabet) : Alphabet[i] = s

\* compare_servers with --sort-by source, and by name where that ties.
Before(a, b) ==
  \/ Place(a.file.source) < Place(b.file.source)
  \/ a.file.source = b.file.source /\ a.name < b.name

\* apply_search: a filter, here by transport; the sort; and a page.
Search(servers, kinds, offset, limit) ==
  LET all == SetToSortSeq({a \in servers : a.kind \in kinds}, Before)
  IN SubSeq(all, offset + 1, IF offset + limit < Len(all) THEN offset + limit ELSE Len(all))

\* run_discover: strict mode refuses conflicts before it filters.
Discover ==
  /\ Scanned /\ scan.command = "discover"
  /\ IF Refused
     THEN scan' = Over("failed") /\ UNCHANGED page
     ELSE /\ scan' = Over("done")
          /\ \E kinds \in {{"stdio"}, Launchable} :
               page' = Search(Kept(scan.found), kinds, 1, 1)
  /\ UNCHANGED <<config, inputs, registry, profiles>>

-----------------------------------------------------------------------------
(* import *)

\* The registry is opened, unless strict mode finds a conflict; that truncates it.
OpenRegistry ==
  /\ Scanned /\ scan.command = "import"
  /\ \/ /\ scan' = Over("failed")
        /\ UNCHANGED registry
     \/ /\ ~Refused
        /\ scan' = [scan EXCEPT !.stage = "write"]
        /\ registry' = [NoRegistry EXCEPT !.state = "torn"]
  /\ UNCHANGED <<config, inputs, profiles, page>>

\* write_registry ends, or fails half-way.
WriteRegistry ==
  /\ scan.stage = "write"
  /\ \/ /\ scan' = Over("failed")
        /\ UNCHANGED registry
     \/ /\ scan' = [scan EXCEPT !.stage = "profiles"]
        /\ registry' = [state |-> "whole", servers |-> Kept(scan.found),
                        found |-> scan.found, strict |-> scan.strict]
  /\ UNCHANGED <<config, inputs, profiles, page>>

\* The directory of a profile: sanitize_name may give two names the same one.
DirOf(n) == (n + 1) \div 2

\* save_import_profiles, all of it or up to the first that fails; that the
\* registry is written by then is not undone.  Among servers that share a
\* directory the last stays.
SaveProfiles ==
  /\ scan.stage = "profiles"
  /\ \E upTo \in Names \cup {0} :
       LET saved(d) == {a \in Kept(scan.found) : DirOf(a.name) = d /\ a.name <= upTo}
       IN /\ profiles' = [d \in Names |->
                            IF saved(d) = {} THEN profiles[d]
                            ELSE CHOOSE a \in saved(d) :
                                   \A b \in saved(d) : b.name <= a.name]
          /\ scan' = Over(IF \A n \in Names : n <= upTo THEN "done" ELSE "failed")
  /\ UNCHANGED <<config, inputs, registry, page>>

ImportNext ==
  \/ \E f \in Files : Edit(f)
  \/ \E com \in {"discover", "import"}, strict \in BOOLEAN : BeginScan(com, strict)
  \/ ScanFile \/ Discover \/ OpenRegistry \/ WriteRegistry \/ SaveProfiles

ImportSpec == ImportInit /\ [][ImportNext]_importVars

-----------------------------------------------------------------------------
(* Properties *)

\* a is a better candidate for its name than b: its source comes first, then
\* the project's file before the global one, then the file read first.
Better(a, b) ==
  \/ Rank(a.file.source) < Rank(b.file.source)
  \/ /\ a.file.source = b.file.source
     /\ \/ Scope(a.file) = "project" /\ Scope(b.file) = "global"
        \/ Scope(a.file) = Scope(b.file) /\ a.file.at < b.file.at

\* A whole registry holds, for every name found in any file, exactly one
\* server, and there was no better candidate in what the import read; what a
\* strict import writes was found in one program only, name by name.
RegistryIsBest ==
  registry.state = "whole" =>
    /\ \A a \in registry.found :
         \E b \in registry.servers :
           /\ b.name = a.name
           /\ \A c \in registry.servers : c.name = a.name => c = b
           /\ b = a \/ Better(b, a)
    /\ registry.strict =>
         \A a, b \in registry.found : a.name = b.name => a.file.source = b.file.source

=============================================================================
