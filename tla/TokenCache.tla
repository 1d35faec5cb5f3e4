----------------------------- MODULE TokenCache -----------------------------
(***************************************************************************)
(* Resolving an OAuth access token (oauth/mod.rs).  Processes share one    *)
(* cache file without a lock: each loads all of it, may talk to the        *)
(* provider for minutes, and writes all of it back under a temporary name  *)
(* of its own, which it then renames.  A process may die at any step.      *)
(*                                                                         *)
(* A token is its number of issue; that the clock passes its expiry, less  *)
(* the margin of 60 seconds, is an action.  The provider is external.      *)
(***************************************************************************)
EXTENDS Integers

CONSTANTS
  Logins,     \* processes that resolve a token, or log out
  Profiles,   \* what profile_fingerprint tells apart
  MaxPolls,   \* polls that fit before the deadline of a device code
  MaxTokens   \* bound on the tokens the provider issues

ASSUME BoundsAreNumbers == MaxPolls \in Nat /\ MaxTokens \in Nat
ASSUME ProfilesExist == Profiles # {} /\ "none" \notin Profiles
ASSUME CacheIsNoLogin == "cache" \notin Logins

VARIABLES
  at,         \* at[p]: where p is
  aim,        \* aim[p]: [mode, profile], chosen at the start
  files,      \* the cache file and the temporary file of each process
  snap,       \* snap[p]: the records p loaded, and then changed
  polls,      \* polls[p]: the time left, in polls
  served,     \* served[p]: the token p returned
  issued,     \* history: issued[t]: the profile token t was granted for
  since,      \* history: since[p]: the tokens issued before p began
  expired     \* tokens that are not valid any more

tokenVars == <<at, aim, files, snap, polls, served, issued, since, expired>>

Tokens == 1 .. MaxTokens
NoToken == 0
Records == [token : Tokens, refresh : BOOLEAN]
NoRecord == [token |-> NoToken, refresh |-> FALSE]
Stores == [Profiles -> Records \cup {NoRecord}]
EmptyStore == [f \in Profiles |-> NoRecord]
Aims == [mode : {"cached", "login", "logout"}, profile : Profiles]
Flows == {"device", "code"}
Working == {"load", "rotate", "discover", "refresh", "device", "poll", "code", "redeem",
            "open", "fill", "rename"}

\* A file is absent, unparsable, or holds a store.
Absent == [kind |-> "absent", store |-> EmptyStore]
Torn == [kind |-> "torn", store |-> EmptyStore]
Whole(s) == [kind |-> "whole", store |-> s]

TokenTypeOK ==
  /\ at \in [Logins -> Working \cup {"start", "done", "failed"}]
  /\ aim \in [Logins -> Aims]
  /\ files \in [Logins \cup {"cache"} -> [kind : {"absent", "torn", "whole"}, store : Stores]]
  /\ snap \in [Logins -> Stores]
  /\ polls \in [Logins -> 0 .. MaxPolls]
  /\ served \in [Logins -> Tokens \cup {NoToken}]
  /\ issued \in [Tokens -> Profiles \cup {"none"}]
  /\ since \in [Logins -> SUBSET Tokens]
  /\ expired \subseteq Tokens

TokenInit ==
  /\ at = [p \in Logins |-> "start"]
  /\ aim = [p \in Logins |-> [mode |-> "cached", profile |-> CHOOSE f \in Profiles : TRUE]]
  /\ files \in {[q \in Logins \cup {"cache"} |-> IF q = "cache" THEN f ELSE Absent] :
                  f \in {Absent, Torn}}
  /\ snap = [p \in Logins |-> EmptyStore]
  /\ polls = [p \in Logins |-> 0]
  /\ served = [p \in Logins |-> NoToken]
  /\ issued = [t \in Tokens |-> "none"]
  /\ since = [p \in Logins |-> {}]
  /\ expired = {}

Go(p, to) == at' = [at EXCEPT ![p] = to]

\* p goes to one of some places, and changes nothing else.
Branch(p, places) ==
  /\ \E to \in places : Go(p, to)
  /\ UNCHANGED <<aim, files, snap, polls, served, issued, since, expired>>

Start(p) ==
  /\ at[p] = "start"
  /\ \E a \in Aims : aim' = [aim EXCEPT ![p] = a]
  /\ since' = [since EXCEPT ![p] = {t \in Tokens : issued[t] # "none"}]
  /\ Go(p, "load")
  /\ UNCHANGED <<files, snap, polls, served, issued, expired>>

-----------------------------------------------------------------------------
(* Loading *)

\* Mutant: the fingerprint leaves out what tells the profiles apart.
KeyShared(p) == CHOOSE f \in Profiles : TRUE

\* profile_fingerprint
Key(p) == aim[p].profile

\* token_is_valid
Valid(r) == r.token # NoToken /\ r.token \notin expired

\* What is done with the loaded store s: logout, the cached token, or a grant.
Use(p, s) ==
  LET r == s[Key(p)]
  IN IF aim[p].mode = "logout"
     THEN /\ snap' = [snap EXCEPT ![p] = [s EXCEPT ![Key(p)] = NoRecord]]
          /\ Go(p, "open")
          /\ UNCHANGED served
     ELSE IF aim[p].mode = "cached" /\ Valid(r)
     THEN served' = [served EXCEPT ![p] = r.token] /\ Go(p, "done") /\ UNCHANGED snap
     ELSE snap' = [snap EXCEPT ![p] = s] /\ Go(p, "discover") /\ UNCHANGED served

\* load_store reads the file; one that does not parse is moved away in a step of its own.
Load(p) ==
  /\ at[p] = "load"
  /\ IF files["cache"].kind = "torn"
     THEN Go(p, "rotate") /\ UNCHANGED <<snap, served>>
     ELSE Use(p, files["cache"].store)
  /\ UNCHANGED <<aim, files, polls, issued, since, expired>>

\* ... whatever the path holds by then; a failure to rename is ignored.
Rotate(p) ==
  /\ at[p] = "rotate"
  /\ \E f \in {Absent, files["cache"]} : files' = [files EXCEPT !["cache"] = f]
  /\ Use(p, EmptyStore)
  /\ UNCHANGED <<aim, polls, issued, since, expired>>

-----------------------------------------------------------------------------
(* Grants *)

\* discover_provider, and the choice of the grant; the flow is configured.
FindProvider(p) ==
  /\ at[p] = "discover"
  /\ Branch(p, IF aim[p].mode = "cached" /\ snap[p][Key(p)].refresh
               THEN {"refresh"} ELSE Flows)

\* parse_token_response and build_record: the new record replaces that of the profile.
Grant(p) ==
  \E t \in Tokens, keeps \in BOOLEAN :
    /\ \A u \in Tokens : issued[u] = "none" <=> u >= t
    /\ issued' = [issued EXCEPT ![t] = Key(p)]
    /\ snap' = [snap EXCEPT ![p][Key(p)] = [token |-> t, refresh |-> keeps]]
    /\ polls' = [polls EXCEPT ![p] = 0]
    /\ Go(p, "open")
    /\ UNCHANGED <<aim, files, served, since, expired>>

\* refresh_access_token: any failure falls through to the configured flow.
Refresh(p) ==
  /\ at[p] = "refresh"
  /\ Grant(p) \/ Branch(p, Flows)

\* The device code is asked for; its deadline is set.
Device(p) ==
  /\ at[p] = "device"
  /\ polls' = [polls EXCEPT ![p] = MaxPolls]
  /\ Go(p, "poll")
  /\ UNCHANGED <<aim, files, snap, served, issued, since, expired>>

\* The sleep between polls; slow_down makes it longer.
WaitPoll(p) ==
  \E n \in 1 .. MaxPolls :
    polls' = [polls EXCEPT ![p] = IF n > @ THEN 0 ELSE @ - n]

\* Before the deadline, sleep and ask: granted, or pending or slow_down.
Poll(p) ==
  /\ at[p] = "poll" /\ polls[p] > 0
  /\ \/ Grant(p)
     \/ WaitPoll(p) /\ UNCHANGED <<at, aim, files, snap, served, issued, since, expired>>

\* run_auth_code_flow up to the code: the first connection to the listener
\* decides, and none may come in 300 seconds; an error, a missing or foreign
\* state or a missing code ends the flow.
Authorize(p) == at[p] = "code" /\ Branch(p, {"redeem"})

\* The code is exchanged for a token.
Redeem(p) ==
  /\ at[p] = "redeem"
  /\ Grant(p)

-----------------------------------------------------------------------------
(* Saving *)

\* Mutant: the cache file is written in place.
TargetInPlace(p) == "cache"

\* The path save_store writes to.
Target(p) == p

\* The temporary file is created.
OpenTemp(p) ==
  /\ at[p] = "open"
  /\ files' = [files EXCEPT ![Target(p)] = Torn]
  /\ Go(p, "fill")
  /\ UNCHANGED <<aim, snap, polls, served, issued, since, expired>>

FillTemp(p) ==
  /\ at[p] = "fill"
  /\ files' = [files EXCEPT ![Target(p)] = Whole(snap[p])]
  /\ Go(p, "rename")
  /\ UNCHANGED <<aim, snap, polls, served, issued, since, expired>>

\* The rename, and the result.
Rename(p) ==
  /\ at[p] = "rename"
  /\ files' = [files EXCEPT !["cache"] = files[Target(p)], ![Target(p)] = Absent]
  /\ served' = [served EXCEPT ![p] = snap[p][Key(p)].token]
  /\ snap' = [snap EXCEPT ![p] = EmptyStore]
  /\ Go(p, "done")
  /\ UNCHANGED <<aim, polls, issued, since, expired>>

\* Every step may fail instead: a file operation, an answer of the provider,
\* the callback, the deadline of the device code.  Or the process is killed.
\* What it held is lost; a temporary file it leaves is never read.
LoginFails(p) ==
  /\ at[p] \in Working
  /\ snap' = [snap EXCEPT ![p] = EmptyStore]
  /\ files' = [q \in DOMAIN files |-> IF q = p THEN Absent ELSE files[q]]
  /\ polls' = [polls EXCEPT ![p] = 0]
  /\ Go(p, "failed")
  /\ UNCHANGED <<aim, served, issued, since, expired>>

Expire(t) ==
  /\ issued[t] # "none" /\ t \notin expired
  /\ expired' = expired \cup {t}
  /\ UNCHANGED <<at, aim, files, snap, polls, served, issued, since>>

Step(p) ==
  \/ Start(p) \/ Load(p) \/ Rotate(p) \/ FindProvider(p) \/ Refresh(p) \/ Device(p) \/ Poll(p)
  \/ Authorize(p) \/ Redeem(p)
  \/ OpenTemp(p) \/ FillTemp(p) \/ Rename(p)

TokenNext == \E p \in Logins : Step(p) \/ LoginFails(p) \/ \E t \in Tokens : Expire(t)

TokenSpec == TokenInit /\ [][TokenNext]_tokenVars

-----------------------------------------------------------------------------
(* Properties *)

\* Whenever a process is killed or a write fails, the cache file that others
\* load is never half written: it is damaged only if it was from the start.
CacheStaysWhole == [][files["cache"].kind # "torn" => files'["cache"].kind # "torn"]_tokenVars

\* A process only returns a token that was granted for its own profile, though
\* others rewrite the whole file in between; and with --oauth-login one that
\* was granted after it began, never one that was in the cache.
TokenIsOwn ==
  \A p \in Logins :
    served[p] # NoToken =>
      /\ issued[served[p]] = aim[p].profile
      /\ aim[p].mode = "login" => served[p] \notin since[p]
=============================================================================
