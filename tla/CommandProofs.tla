---------------------------- MODULE CommandProofs ----------------------------
(***************************************************************************)
(* Proofs about the commands that start, save and find what the gateways   *)
(* run: the shared token cache belongs to its profiles, whichever process  *)
(* fails or is killed; an import keeps the best server of every name; what *)
(* a connect saves, and what generate makes of a definition, run like      *)
(* their originals.                                                        *)
(***************************************************************************)
EXTENDS TokenCache, ServerImport, ConnectCommand, GatewayCommand, FiniteSetTheorems,
        WellFoundedInduction, TLAPS

-----------------------------------------------------------------------------
(* TokenCache *)

Granted == {t \in Tokens : issued[t] # "none"}

(***************************************************************************)
(* A store holds each token under the profile it was granted for, be it a  *)
(* file or what a process holds of one.                                    *)
(***************************************************************************)
StoreOwn(s) == \A f \in Profiles : s[f].token # NoToken => issued[s[f].token] = f

StoresOwn ==
  /\ \A q \in Logins \cup {"cache"} : StoreOwn(files[q].store)
  /\ \A p \in Logins : StoreOwn(snap[p])

(***************************************************************************)
(* A process that logs in saves a token granted after it began.            *)
(***************************************************************************)
LoginFresh ==
  /\ \A p \in Logins : since[p] \subseteq Granted
  /\ \A p \in Logins :
       at[p] \in {"open", "fill", "rename"} /\ aim[p].mode = "login" =>
         snap[p][aim[p].profile].token \notin since[p]

(***************************************************************************)
(* A process has returned nothing before it begins.                        *)
(***************************************************************************)
ServedLater == \A p \in Logins : at[p] = "start" => served[p] = NoToken

(***************************************************************************)
(* A temporary file is renamed when it is whole.                           *)
(***************************************************************************)
RenamesWhole == \A p \in Logins : at[p] = "rename" => files[p].kind = "whole"

IInv == TokenTypeOK /\ StoresOwn /\ LoginFresh /\ ServedLater /\ RenamesWhole /\ TokenIsOwn

-----------------------------------------------------------------------------
(* Types *)

\* What is done with a loaded store, one case at a time.
LEMMA Used ==
  ASSUME TokenTypeOK, NEW p \in Logins, NEW s \in Stores, Use(p, s)
  PROVE  /\ aim[p] \in Aims /\ aim[p].profile \in Profiles
         /\ \/ /\ aim[p].mode = "logout"
               /\ snap' = [snap EXCEPT ![p] = [s EXCEPT ![aim[p].profile] = NoRecord]]
               /\ at' = [at EXCEPT ![p] = "open"] /\ served' = served
            \/ /\ aim[p].mode = "cached" /\ s[aim[p].profile].token \in Tokens
               /\ served' = [served EXCEPT ![p] = s[aim[p].profile].token]
               /\ at' = [at EXCEPT ![p] = "done"] /\ snap' = snap
            \/ /\ snap' = [snap EXCEPT ![p] = s]
               /\ at' = [at EXCEPT ![p] = "discover"] /\ served' = served
  <1>1. aim[p] \in Aims /\ aim[p].profile \in Profiles
    BY DEF TokenTypeOK, Aims
  <1>2. s[aim[p].profile] \in Records \cup {NoRecord}
    BY <1>1 DEF Stores
  <1>3. s[aim[p].profile].token # NoToken => s[aim[p].profile].token \in Tokens
    BY <1>2 DEF Records, NoRecord
  <1> QED
    BY <1>1, <1>3 DEF Use, Key, Go, Valid

\* A grant issues a token that nobody has, and records it under its profile.
LEMMA GrantIs ==
  ASSUME TokenTypeOK, NEW p \in Logins, Grant(p)
  PROVE  \E t \in Tokens, r \in Records :
           /\ r.token = t /\ issued[t] = "none"
           /\ aim[p].profile \in Profiles
           /\ issued' = [issued EXCEPT ![t] = aim[p].profile]
           /\ snap' = [snap EXCEPT ![p] = [snap[p] EXCEPT ![aim[p].profile] = r]]
           /\ polls' = [polls EXCEPT ![p] = 0]
           /\ at' = [at EXCEPT ![p] = "open"]
           /\ UNCHANGED <<aim, files, served, since, expired>>
  <1>1. PICK t \in Tokens, keeps \in BOOLEAN :
          /\ \A u \in Tokens : issued[u] = "none" <=> u >= t
          /\ issued' = [issued EXCEPT ![t] = Key(p)]
          /\ snap' = [snap EXCEPT ![p][Key(p)] = [token |-> t, refresh |-> keeps]]
          /\ polls' = [polls EXCEPT ![p] = 0]
          /\ Go(p, "open")
          /\ UNCHANGED <<aim, files, served, since, expired>>
    BY DEF Grant
  <1>2. t \in Nat /\ t >= t
    BY BoundsAreNumbers DEF Tokens
  <1>3. issued[t] = "none"
    BY <1>1, <1>2
  <1>4. aim[p].profile \in Profiles
    BY DEF TokenTypeOK, Aims
  <1>5. [token |-> t, refresh |-> keeps] \in Records
    BY DEF Records
  <1> QED
    BY <1>1, <1>3, <1>4, <1>5 DEF Key, Go

\* A store with a record replaced is a store.
LEMMA StoreUpdated ==
  ASSUME NEW s \in Stores, NEW f \in Profiles, NEW r \in Records \cup {NoRecord}
  PROVE  [s EXCEPT ![f] = r] \in Stores
  BY DEF Stores

LEMMA EmptyIsStore == EmptyStore \in Stores
  BY DEF Stores, EmptyStore

\* The use of a loaded store keeps the types.
LEMMA UseTyped ==
  ASSUME TokenTypeOK, NEW p \in Logins, NEW s \in Stores, Use(p, s)
  PROVE  /\ snap' \in [Logins -> Stores] /\ served' \in [Logins -> Tokens \cup {NoToken}]
         /\ at' \in [Logins -> Working \cup {"start", "done", "failed"}]
  <1>1. NoRecord \in Records \cup {NoRecord}
    OBVIOUS
  <1>2. [s EXCEPT ![aim[p].profile] = NoRecord] \in Stores
    BY <1>1, Used, StoreUpdated
  <1>3. /\ snap \in [Logins -> Stores] /\ served \in [Logins -> Tokens \cup {NoToken}]
        /\ at \in [Logins -> Working \cup {"start", "done", "failed"}]
    BY DEF TokenTypeOK
  <1>4. /\ snap' \in {snap, [snap EXCEPT ![p] = s],
                      [snap EXCEPT ![p] = [s EXCEPT ![aim[p].profile] = NoRecord]]}
        /\ \E w \in {"open", "done", "discover"} : at' = [at EXCEPT ![p] = w]
        /\ \/ served' = served
           \/ \E u \in Tokens : served' = [served EXCEPT ![p] = u]
    BY Used
  <1>5. snap' \in [Logins -> Stores]
    BY <1>2, <1>3, <1>4
  <1>6. at' \in [Logins -> Working \cup {"start", "done", "failed"}]
    BY <1>3, <1>4 DEF Working
  <1>7. served' \in [Logins -> Tokens \cup {NoToken}]
    BY <1>3, <1>4
  <1> QED
    BY <1>5, <1>6, <1>7

\* Every step keeps the types.
LEMMA TypedStep ==
  ASSUME TokenTypeOK, [TokenNext]_tokenVars
  PROVE  TokenTypeOK'
  <1>0. 0 \in 0 .. MaxPolls
    BY BoundsAreNumbers
  <1>1. ASSUME NEW p \in Logins, Start(p) PROVE TokenTypeOK'
    BY <1>1 DEF TokenTypeOK, Start, Go, Working, Aims
  <1>2. ASSUME NEW p \in Logins, Load(p) PROVE TokenTypeOK'
    <2>1. CASE Go(p, "rotate") /\ UNCHANGED <<snap, served>>
      BY <1>2, <2>1 DEF TokenTypeOK, Load, Go, Working
    <2>2. CASE Use(p, files["cache"].store)
      <3>1. files["cache"].store \in Stores
        BY DEF TokenTypeOK
      <3>2. /\ snap' \in [Logins -> Stores] /\ served' \in [Logins -> Tokens \cup {NoToken}]
            /\ at' \in [Logins -> Working \cup {"start", "done", "failed"}]
        BY <2>2, <3>1, UseTyped
      <3> QED
        BY <1>2, <3>2 DEF TokenTypeOK, Load
    <2> QED
      BY <1>2, <2>1, <2>2 DEF Load
  <1>3. ASSUME NEW p \in Logins, Rotate(p) PROVE TokenTypeOK'
    <2>1. Use(p, EmptyStore)
      BY <1>3 DEF Rotate
    <2>2. /\ snap' \in [Logins -> Stores] /\ served' \in [Logins -> Tokens \cup {NoToken}]
          /\ at' \in [Logins -> Working \cup {"start", "done", "failed"}]
      BY <2>1, EmptyIsStore, UseTyped
    <2>3. files' \in [Logins \cup {"cache"} ->
                        [kind : {"absent", "torn", "whole"}, store : Stores]]
      BY <1>3, EmptyIsStore DEF TokenTypeOK, Rotate, Absent
    <2> QED
      BY <1>3, <2>2, <2>3 DEF TokenTypeOK, Rotate
  <1>4. ASSUME NEW p \in Logins, FindProvider(p) \/ Authorize(p) PROVE TokenTypeOK'
    BY <1>4 DEF TokenTypeOK, FindProvider, Authorize, Branch, Go, Working, Flows
  <1>5. ASSUME NEW p \in Logins, Grant(p) PROVE TokenTypeOK'
    <2>1. PICK t \in Tokens, r \in Records :
           /\ aim[p].profile \in Profiles
           /\ issued' = [issued EXCEPT ![t] = aim[p].profile]
           /\ snap' = [snap EXCEPT ![p] = [snap[p] EXCEPT ![aim[p].profile] = r]]
           /\ polls' = [polls EXCEPT ![p] = 0]
           /\ at' = [at EXCEPT ![p] = "open"]
           /\ UNCHANGED <<aim, files, served, since, expired>>
      BY <1>5, GrantIs
    <2>2. [snap[p] EXCEPT ![aim[p].profile] = r] \in Stores
      BY <2>1, StoreUpdated DEF TokenTypeOK
    <2> QED
      BY <1>0, <2>1, <2>2 DEF TokenTypeOK, Working
  <1>6. ASSUME NEW p \in Logins, Branch(p, Flows) PROVE TokenTypeOK'
    BY <1>6 DEF TokenTypeOK, Branch, Go, Working, Flows
  <1>7. ASSUME NEW p \in Logins, Device(p) PROVE TokenTypeOK'
    BY <1>7, BoundsAreNumbers DEF TokenTypeOK, Device, Go, Working
  <1>8. ASSUME NEW p \in Logins, WaitPoll(p),
               UNCHANGED <<at, aim, files, snap, served, issued, since, expired>>
        PROVE  TokenTypeOK'
    <2>1. PICK n \in 1 .. MaxPolls :
            polls' = [polls EXCEPT ![p] = IF n > polls[p] THEN 0 ELSE polls[p] - n]
      BY <1>8 DEF WaitPoll
    <2>2. polls[p] \in 0 .. MaxPolls
      BY DEF TokenTypeOK
    <2>3. (IF n > polls[p] THEN 0 ELSE polls[p] - n) \in 0 .. MaxPolls
      BY <2>2, BoundsAreNumbers
    <2> QED
      BY <1>8, <2>1, <2>3 DEF TokenTypeOK
  <1>9. ASSUME NEW p \in Logins, OpenTemp(p) \/ FillTemp(p) PROVE TokenTypeOK'
    <2> DEFINE Contents == [kind : {"absent", "torn", "whole"}, store : Stores]
    <2>1. Torn \in Contents
      BY EmptyIsStore DEF Torn
    <2>2. Whole(snap[p]) \in Contents
      BY DEF TokenTypeOK, Whole
    <2>3. \E c \in {Torn, Whole(snap[p])} : files' = [files EXCEPT ![Target(p)] = c]
      BY <1>9 DEF OpenTemp, FillTemp
    <2>4. files' \in [Logins \cup {"cache"} -> Contents]
      <3>1. files \in [Logins \cup {"cache"} -> Contents]
        BY DEF TokenTypeOK
      <3> HIDE DEF Contents
      <3> QED
        BY <2>1, <2>2, <2>3, <3>1
    <2>5. at' \in [Logins -> Working \cup {"start", "done", "failed"}]
      BY <1>9 DEF TokenTypeOK, OpenTemp, FillTemp, Go, Working
    <2> QED
      BY <1>9, <2>4, <2>5 DEF TokenTypeOK, OpenTemp, FillTemp, Go
  <1>10. ASSUME NEW p \in Logins, Rename(p) PROVE TokenTypeOK'
    <2>1. aim[p].profile \in Profiles /\ snap[p] \in Stores
      BY DEF TokenTypeOK, Aims
    <2>2. snap[p][aim[p].profile].token \in Tokens \cup {NoToken}
      BY <2>1 DEF Stores, Records, NoRecord
    <2>3. Absent \in [kind : {"absent", "torn", "whole"}, store : Stores]
      BY EmptyIsStore DEF Absent
    <2> QED
      BY <1>10, <2>2, <2>3, EmptyIsStore DEF TokenTypeOK, Rename, Target, Key, Go
  <1>11. ASSUME NEW p \in Logins, LoginFails(p) PROVE TokenTypeOK'
    <2>1. Absent \in [kind : {"absent", "torn", "whole"}, store : Stores]
      BY EmptyIsStore DEF Absent
    <2> QED
      BY <1>0, <1>11, <2>1, EmptyIsStore DEF TokenTypeOK, LoginFails, Go
  <1>12. ASSUME NEW t \in Tokens, Expire(t) PROVE TokenTypeOK'
    BY <1>12 DEF TokenTypeOK, Expire
  <1>13. CASE UNCHANGED tokenVars
    BY <1>13 DEF TokenTypeOK, tokenVars
  <1> QED
    BY <1>1, <1>2, <1>3, <1>4, <1>5, <1>6, <1>7, <1>8, <1>9, <1>10, <1>11, <1>12, <1>13
    DEF TokenNext, Step, Refresh, Poll, Redeem

-----------------------------------------------------------------------------
(* Files *)

\* Only a whole temporary file is renamed.
LEMMA WholeStep ==
  ASSUME TokenTypeOK, RenamesWhole, [TokenNext]_tokenVars
  PROVE  RenamesWhole'
  <1> USE DEF RenamesWhole, Go
  <1>0. /\ at \in [Logins -> Working \cup {"start", "done", "failed"}]
        /\ files \in [Logins \cup {"cache"} ->
                        [kind : {"absent", "torn", "whole"}, store : Stores]]
    BY DEF TokenTypeOK
  <1>1. ASSUME NEW p \in Logins, UNCHANGED files,
               \E w \in Working \cup {"done"} :
                 w # "rename" /\ at' = [at EXCEPT ![p] = w]
        PROVE  RenamesWhole'
    BY <1>0, <1>1
  <1>2. ASSUME NEW p \in Logins,
               \/ Start(p) \/ FindProvider(p) \/ Authorize(p) \/ Branch(p, Flows) \/ Device(p)
        PROVE  RenamesWhole'
    BY <1>0, <1>2
    DEF Start, FindProvider, Authorize, Branch, Device, Flows, Working
  <1>3. ASSUME NEW p \in Logins, Grant(p) PROVE RenamesWhole'
    BY <1>1, <1>3, GrantIs DEF Working
  <1>4. ASSUME NEW p \in Logins, Load(p) PROVE RenamesWhole'
    <2>1. files["cache"].store \in Stores
      BY <1>0
    <2>2. \E w \in {"rotate", "open", "done", "discover"} : at' = [at EXCEPT ![p] = w]
      BY <1>4, <2>1, Used DEF Load
    <2> QED
      BY <1>1, <1>4, <2>2 DEF Load, Working
  <1>5. ASSUME NEW p \in Logins, Rotate(p) PROVE RenamesWhole'
    <2>1. \E w \in {"open", "done", "discover"} : at' = [at EXCEPT ![p] = w]
      BY <1>5, EmptyIsStore, Used DEF Rotate
    <2>2. \A q \in Logins : files'[q] = files[q]
      BY <1>0, <1>5, CacheIsNoLogin DEF Rotate
    <2> QED
      BY <1>0, <2>1, <2>2
  <1>6. ASSUME NEW p \in Logins, OpenTemp(p) \/ FillTemp(p) PROVE RenamesWhole'
    BY <1>0, <1>6 DEF OpenTemp, FillTemp, Target, Whole
  <1>7. ASSUME NEW p \in Logins, Rename(p) \/ LoginFails(p) PROVE RenamesWhole'
    BY <1>0, <1>7, CacheIsNoLogin DEF Rename, LoginFails, Target
  <1>8. CASE UNCHANGED <<at, files>>
    BY <1>8
  <1> QED
    BY <1>2, <1>3, <1>4, <1>5, <1>6, <1>7, <1>8
    DEF TokenNext, Step, Refresh, Poll, Redeem, Expire, tokenVars

\* Only a rename touches the cache file, or its removal when it was damaged.
LEMMA CacheStep ==
  ASSUME TokenTypeOK, RenamesWhole, [TokenNext]_tokenVars,
         files["cache"].kind # "torn"
  PROVE  files'["cache"].kind # "torn"
  <1>0. files \in [Logins \cup {"cache"} ->
                     [kind : {"absent", "torn", "whole"}, store : Stores]]
    BY DEF TokenTypeOK
  <1>1. CASE UNCHANGED files
    BY <1>1
  <1>2. ASSUME NEW p \in Logins, Grant(p) PROVE UNCHANGED files
    BY <1>2, GrantIs
  <1>3. ASSUME NEW p \in Logins, Rotate(p) PROVE files'["cache"].kind # "torn"
    BY <1>0, <1>3 DEF Rotate, Absent
  <1>4. ASSUME NEW p \in Logins, OpenTemp(p) \/ FillTemp(p) \/ LoginFails(p)
        PROVE  files'["cache"].kind # "torn"
    BY <1>0, <1>4, CacheIsNoLogin DEF OpenTemp, FillTemp, LoginFails, Target
  <1>5. ASSUME NEW p \in Logins, Rename(p) PROVE files'["cache"].kind # "torn"
    <2>1. at[p] = "rename" /\ files'["cache"] = files[p]
      BY <1>0, <1>5, CacheIsNoLogin DEF Rename, Target
    <2> QED
      BY <2>1 DEF RenamesWhole
  <1> QED
    BY <1>1, <1>2, <1>3, <1>4, <1>5
    DEF TokenNext, Step, Start, Load, FindProvider, Refresh, Device, Poll, Authorize, Redeem,
        Branch, Expire, tokenVars

-----------------------------------------------------------------------------
(* Tokens *)

LEMMA EmptyIsOwn == StoreOwn(EmptyStore) /\ StoreOwn(Absent.store) /\ StoreOwn(Torn.store)
  BY DEF StoreOwn, EmptyStore, NoRecord, Absent, Torn

\* A store stays right when a token is issued that nobody had.
LEMMA OwnAfterIssue ==
  ASSUME TokenTypeOK, NEW s \in Stores, StoreOwn(s), NEW t \in Tokens, issued[t] = "none",
         NEW f \in Profiles, issued' = [issued EXCEPT ![t] = f]
  PROVE  StoreOwn(s)'
  <1>1. \A g \in Profiles : s[g].token # NoToken => s[g].token # t /\ s[g].token \in Tokens
    BY ProfilesExist DEF StoreOwn, Stores, Records, NoRecord
  <1> QED
    BY <1>1 DEF StoreOwn, TokenTypeOK

\* ... and when that token is put under its profile, or a record is taken out.
LEMMA OwnAfterUpdate ==
  ASSUME NEW s \in Stores, StoreOwn(s), NEW f \in Profiles,
         NEW r \in Records \cup {NoRecord}, r.token # NoToken => issued[r.token] = f
  PROVE  StoreOwn([s EXCEPT ![f] = r])
  BY DEF StoreOwn, Stores

\* Every step keeps tokens under their profiles, and returns only such a token.
LEMMA OwnStep ==
  ASSUME TokenTypeOK, StoresOwn, LoginFresh, ServedLater, TokenIsOwn, [TokenNext]_tokenVars
  PROVE  StoresOwn' /\ LoginFresh' /\ ServedLater' /\ TokenIsOwn'
  <1> DEFINE Own == StoresOwn /\ LoginFresh /\ ServedLater /\ TokenIsOwn
  <1>0. /\ at \in [Logins -> Working \cup {"start", "done", "failed"}]
        /\ aim \in [Logins -> Aims]
        /\ files \in [Logins \cup {"cache"} ->
                        [kind : {"absent", "torn", "whole"}, store : Stores]]
        /\ snap \in [Logins -> Stores]
        /\ served \in [Logins -> Tokens \cup {NoToken}]
        /\ since \in [Logins -> SUBSET Tokens]
    BY DEF TokenTypeOK
  <1>1. ASSUME NEW p \in Logins, Start(p) PROVE Own'
    <2>1. StoresOwn'
      BY <1>1 DEF Start, StoresOwn, StoreOwn
    <2>2. LoginFresh'
      BY <1>0, <1>1 DEF Start, LoginFresh, Granted, Go
    <2>3. ServedLater' /\ TokenIsOwn'
      BY <1>0, <1>1 DEF Start, Go, ServedLater, TokenIsOwn
    <2> QED
      BY <2>1, <2>2, <2>3
  <1>2. ASSUME NEW p \in Logins, NEW s \in Stores, StoreOwn(s), Use(p, s), at[p] # "start",
               UNCHANGED <<aim, issued, since>>,
               \A q \in Logins \cup {"cache"} : StoreOwn(files'[q].store)
        PROVE  Own'
    <2>1. aim[p].profile \in Profiles
      BY <1>2, Used
    <2>2. StoreOwn([s EXCEPT ![aim[p].profile] = NoRecord])
      BY <1>2, <2>1, OwnAfterUpdate DEF NoRecord
    <2>3. \A q \in Logins : StoreOwn(snap'[q])
      <3>1. snap' \in {snap, [snap EXCEPT ![p] = s],
                       [snap EXCEPT ![p] = [s EXCEPT ![aim[p].profile] = NoRecord]]}
        BY <1>2, Used
      <3> QED
        BY <1>0, <1>2, <2>2, <3>1 DEF StoresOwn
    <2>4. StoresOwn'
      BY <1>2, <2>3 DEF StoresOwn, StoreOwn
    <2>5. LoginFresh'
      <3>1. CASE aim[p].mode = "logout" /\ snap' = [snap EXCEPT ![p] = [s EXCEPT ![aim[p].profile] = NoRecord]]
                 /\ at' = [at EXCEPT ![p] = "open"]
        BY <1>0, <1>2, <3>1 DEF LoginFresh, Granted
      <3>2. CASE at' \in {[at EXCEPT ![p] = "done"], [at EXCEPT ![p] = "discover"]}
                 /\ \A q \in Logins \ {p} : snap'[q] = snap[q]
        BY <1>0, <1>2, <3>2 DEF LoginFresh, Granted
      <3> QED
        BY <1>0, <1>2, <3>1, <3>2, Used
    <2>6. ServedLater'
      <3>1. \E w \in {"open", "done", "discover"} : at' = [at EXCEPT ![p] = w]
        BY <1>2, Used
      <3>2. \A q \in Logins \ {p} : served'[q] = served[q]
        BY <1>0, <1>2, Used
      <3> QED
        BY <1>0, <3>1, <3>2 DEF ServedLater
    <2>7. TokenIsOwn'
      <3>1. CASE served' = served
        BY <1>2, <3>1 DEF TokenIsOwn
      <3>2. CASE /\ aim[p].mode = "cached" /\ s[aim[p].profile].token \in Tokens
                 /\ served' = [served EXCEPT ![p] = s[aim[p].profile].token]
        <4>1. issued[s[aim[p].profile].token] = aim[p].profile
          BY <1>2, <2>1, <3>2, BoundsAreNumbers DEF StoreOwn, Tokens, NoToken
        <4> QED
          BY <1>0, <1>2, <3>2, <4>1 DEF TokenIsOwn
      <3> QED
        BY <1>2, <3>1, <3>2, Used
    <2> QED
      BY <2>4, <2>5, <2>6, <2>7
  <1>3. ASSUME NEW p \in Logins, Load(p) PROVE Own'
    <2>1. CASE Use(p, files["cache"].store)
      <3>1. /\ files["cache"].store \in Stores /\ StoreOwn(files["cache"].store)
            /\ \A q \in Logins \cup {"cache"} : StoreOwn(files'[q].store)
        BY <1>0, <1>3 DEF StoresOwn, Load
      <3> QED
        BY <1>2, <1>3, <2>1, <3>1 DEF Load
    <2>2. CASE Go(p, "rotate") /\ UNCHANGED <<snap, served>>
      BY <1>0, <1>3, <2>2
      DEF Load, Go, StoresOwn, StoreOwn, LoginFresh, Granted, ServedLater, TokenIsOwn
    <2> QED
      BY <1>3, <2>1, <2>2 DEF Load
  <1>4. ASSUME NEW p \in Logins, Rotate(p) PROVE Own'
    <2>1. \A q \in Logins \cup {"cache"} : StoreOwn(files'[q].store)
      BY <1>0, <1>4, EmptyIsOwn DEF Rotate, StoresOwn
    <2> QED
      BY <1>2, <1>4, <2>1, EmptyIsOwn, EmptyIsStore DEF Rotate
  <1>5. ASSUME NEW p \in Logins, Grant(p), at[p] # "start" PROVE Own'
    <2>1. PICK t \in Tokens, r \in Records :
           /\ r.token = t /\ issued[t] = "none"
           /\ aim[p].profile \in Profiles
           /\ issued' = [issued EXCEPT ![t] = aim[p].profile]
           /\ snap' = [snap EXCEPT ![p] = [snap[p] EXCEPT ![aim[p].profile] = r]]
           /\ at' = [at EXCEPT ![p] = "open"]
           /\ UNCHANGED <<aim, files, served, since>>
      BY <1>5, GrantIs
    <2>2. issued \in [Tokens -> Profiles \cup {"none"}] /\ issued'[t] = aim[p].profile
          /\ \A u \in Tokens \ {t} : issued'[u] = issued[u]
      BY <2>1 DEF TokenTypeOK
    <2>3. \A s \in Stores : StoreOwn(s) => StoreOwn(s)'
      BY <2>1, OwnAfterIssue
    <2>4. \A q \in Logins \cup {"cache"} : StoreOwn(files[q].store)'
      BY <1>0, <2>3, <2>1 DEF StoresOwn, StoreOwn
    <2>5. \A q \in Logins \ {p} : StoreOwn(snap[q])'
      BY <1>0, <2>1, <2>3 DEF StoresOwn, StoreOwn
    <2>6. snap'[p] = [snap[p] EXCEPT ![aim[p].profile] = r]
      BY <1>0, <2>1
    <2>7. StoreOwn(snap[p])'
      <3>1. \A g \in Profiles \ {aim[p].profile} : snap'[p][g] = snap[p][g]
        BY <1>0, <2>6 DEF Stores
      <3>2. snap'[p][aim[p].profile] = r
        BY <1>0, <2>1, <2>6 DEF Stores
      <3>3. \A g \in Profiles : snap[p][g].token # NoToken => issued'[snap[p][g].token] = g
        BY <1>0, <2>3 DEF StoresOwn, StoreOwn
      <3> QED
        BY <2>1, <2>2, <3>1, <3>2, <3>3 DEF StoreOwn
    <2>8. StoresOwn'
      BY <2>4, <2>5, <2>7 DEF StoresOwn
    <2>9. LoginFresh'
      <3>1. t \notin since[p] /\ \A q \in Logins : since[q] \subseteq Granted'
        BY <2>1, <2>2, ProfilesExist DEF LoginFresh, Granted
      <3>2. snap'[p][aim[p].profile].token = t
        BY <1>0, <2>1, <2>6 DEF Stores
      <3> QED
        BY <1>0, <2>1, <3>1, <3>2 DEF LoginFresh
    <2>10. ServedLater'
      BY <1>0, <1>5, <2>1 DEF ServedLater
    <2>11. TokenIsOwn'
      <3>1. \A q \in Logins : served[q] # NoToken => served[q] # t
        BY <1>0, <2>1, ProfilesExist DEF TokenIsOwn, Aims
      <3> QED
        BY <1>0, <2>1, <2>2, <3>1 DEF TokenIsOwn
    <2> QED
      BY <2>8, <2>9, <2>10, <2>11
  <1>6. ASSUME NEW p \in Logins,
               FindProvider(p) \/ Authorize(p) \/ (at[p] = "refresh" /\ Branch(p, Flows)) \/ Device(p)
        PROVE  Own'
    BY <1>0, <1>6, SMTT(30)
    DEF FindProvider, Authorize, Branch, Device, Flows, Go, StoresOwn, StoreOwn, LoginFresh,
        Granted, ServedLater, TokenIsOwn
  <1>7. ASSUME NEW p \in Logins, OpenTemp(p) \/ FillTemp(p) PROVE Own'
    <2>1. \A q \in Logins \cup {"cache"} : StoreOwn(files'[q].store)
      BY <1>0, <1>7, EmptyIsOwn DEF OpenTemp, FillTemp, Target, Whole, StoresOwn
    <2>2. StoresOwn'
      BY <1>7, <2>1 DEF OpenTemp, FillTemp, StoresOwn, StoreOwn
    <2> QED
      BY <1>0, <1>7, <2>2
      DEF OpenTemp, FillTemp, Go, LoginFresh, Granted, ServedLater, TokenIsOwn
  <1>8. ASSUME NEW p \in Logins, Rename(p) PROVE Own'
    <2>1. \A q \in Logins \cup {"cache"} : StoreOwn(files'[q].store)
      BY <1>0, <1>8, EmptyIsOwn DEF Rename, Target, StoresOwn
    <2>2. StoresOwn'
      BY <1>0, <1>8, <2>1, EmptyIsOwn DEF Rename, StoresOwn, StoreOwn
    <2>3. aim[p].profile \in Profiles
      BY <1>0 DEF Aims
    <2>4. TokenIsOwn'
      BY <1>0, <1>8, <2>3 DEF Rename, Key, TokenIsOwn, StoresOwn, StoreOwn, LoginFresh
    <2> QED
      BY <1>0, <1>8, <2>2, <2>4 DEF Rename, Go, LoginFresh, Granted, ServedLater
  <1>9. ASSUME NEW p \in Logins, LoginFails(p) PROVE Own'
    <2>1. \A q \in Logins \cup {"cache"} : StoreOwn(files'[q].store)
      BY <1>0, <1>9, EmptyIsOwn DEF LoginFails, StoresOwn
    <2>2. StoresOwn'
      BY <1>0, <1>9, <2>1, EmptyIsOwn DEF LoginFails, StoresOwn, StoreOwn
    <2> QED
      BY <1>0, <1>9, <2>2 DEF LoginFails, Go, LoginFresh, Granted, ServedLater, TokenIsOwn
  <1>10. CASE UNCHANGED <<at, aim, files, snap, served, issued, since>>
    BY <1>10 DEF StoresOwn, StoreOwn, LoginFresh, Granted, ServedLater, TokenIsOwn
  <1>11. Own'
    BY <1>1, <1>3, <1>4, <1>5, <1>6, <1>7, <1>8, <1>9, <1>10
    DEF TokenNext, Step, Refresh, Poll, Redeem, Expire, tokenVars
  <1> QED
    BY <1>11

-----------------------------------------------------------------------------
\* IInv holds in every behaviour.
LEMMA IInvHolds == TokenSpec => []IInv
  <1>1. TokenInit => IInv
    <2> SUFFICES ASSUME TokenInit PROVE IInv
      OBVIOUS
    <2>1. \A q \in Logins \cup {"cache"} : files[q] \in {Absent, Torn}
      BY DEF TokenInit
    <2>2. TokenTypeOK
      <3>1. {Absent, Torn} \subseteq [kind : {"absent", "torn", "whole"}, store : Stores]
        BY EmptyIsStore DEF Absent, Torn
      <3>2. files \in [Logins \cup {"cache"} ->
                         [kind : {"absent", "torn", "whole"}, store : Stores]]
        BY <3>1 DEF TokenInit
      <3>3. aim \in [Logins -> Aims]
        BY ProfilesExist DEF TokenInit, Aims
      <3> QED
        BY <3>2, <3>3, EmptyIsStore, BoundsAreNumbers DEF TokenInit, TokenTypeOK
    <2>3. StoresOwn
      BY <2>1, EmptyIsOwn DEF TokenInit, StoresOwn
    <2> QED
      BY <2>2, <2>3
      DEF TokenInit, IInv, LoginFresh, ServedLater, RenamesWhole, TokenIsOwn
  <1>2. IInv /\ [TokenNext]_tokenVars => IInv'
    BY TypedStep, OwnStep, WholeStep DEF IInv
  <1> QED
    BY <1>1, <1>2, PTL DEF TokenSpec

\* Every variable keeps its type.
THEOREM TokenTypeCorrect == TokenSpec => []TokenTypeOK
  <1>1. IInv => TokenTypeOK
    BY DEF IInv
  <1> QED
    BY <1>1, IInvHolds, PTL

\* No process is given a token of another profile, nor at a login an older one.
THEOREM TokensAreOwn == TokenSpec => []TokenIsOwn
  <1>1. IInv => TokenIsOwn
    BY DEF IInv
  <1> QED
    BY <1>1, IInvHolds, PTL

\* The cache file is never half written, whoever is killed when.
THEOREM CacheIsNeverTorn == TokenSpec => CacheStaysWhole
  <1>1. IInv /\ [TokenNext]_tokenVars =>
          [files["cache"].kind # "torn" => files'["cache"].kind # "torn"]_tokenVars
    BY CacheStep DEF IInv
  <1> QED
    BY <1>1, IInvHolds, PTL DEF TokenSpec, CacheStaysWhole

-----------------------------------------------------------------------------
(* What has a least *)

\* What has numbers has a least.
LEMMA LeastOf ==
  ASSUME NEW T, T # {}, NEW k \in [T -> Nat]
  PROVE  \E x \in T : \A y \in T : k[x] <= k[y]
  <1> DEFINE Values == {k[x] : x \in T}
             R == OpToRel(<, Nat)
  <1>1. Values \subseteq Nat /\ Values # {}
    OBVIOUS
  <1>2. PICK v \in Values : \A w \in Values : <<w, v>> \notin R
    <2> HIDE DEF Values, R
    <2>1. IsWellFoundedOn(R, Nat)
      BY NatLessThanWellFounded DEF R
    <2> QED
      BY <1>1, <2>1, WFMin
  <1>3. \A w \in Values : ~(w < v)
    BY <1>1, <1>2 DEF OpToRel
  <1> QED
    BY <1>1, <1>3

\* What is true of 0 and goes on to be is true of every number up to n.
LEMMA Counting ==
  ASSUME NEW n \in Nat, NEW T \in SUBSET (0 .. n), 0 \in T,
         \A m \in 1 .. n : m - 1 \in T => m \in T
  PROVE  n \in T
  <1> SUFFICES ASSUME n \notin T PROVE FALSE
    OBVIOUS
  <1> DEFINE bad == (0 .. n) \ T
             id == [m \in bad |-> m]
  <1>1. bad # {} /\ id \in [bad -> Nat]
    OBVIOUS
  <1>2. \E x \in bad : \A y \in bad : id[x] <= id[y]
    <2> HIDE DEF bad, id
    <2> QED
      BY <1>1, LeastOf
  <1>3. PICK m \in bad : \A y \in bad : m <= y
    BY <1>2
  <1>4. m \in 1 .. n /\ m - 1 \in 0 .. n /\ m - 1 \notin bad
    BY <1>3
  <1> QED
    BY <1>4

-----------------------------------------------------------------------------
(* ServerImport *)

Sources == ToSet(SourcePriority)

\* The order of the sources tells them apart.
LEMMA RankIs ==
  /\ \A s \in Sources : Rank(s) \in Nat
  /\ \A s, t \in Sources : Rank(s) = Rank(t) => s = t
  <1>1. ASSUME NEW s \in Sources PROVE Rank(s) \in 1 .. Len(SourcePriority) /\ SourcePriority[Rank(s)] = s
    <2>1. \E i \in 1 .. Len(SourcePriority) : SourcePriority[i] = s
      BY DEF Sources, ToSet, SourcePriority
    <2> QED
      BY <2>1 DEF Rank
  <1>2. Len(SourcePriority) \in Nat
    BY DEF SourcePriority
  <1> QED
    BY <1>1, <1>2

\* The files of a source are those of its table.
LEMMA FileIs ==
  ASSUME NEW f \in Files
  PROVE  /\ f.source \in Sources /\ f.at \in Nat
         /\ f = [source |-> f.source, at |-> f.at]
         /\ Scope(f) \in {"project", "global"}
  <1>1. PICK s \in Searched : \E i \in 1 .. Len(About[s].files) : f = [source |-> s, at |-> i]
    BY DEF Files
  <1>2. PICK i \in 1 .. Len(About[s].files) : f = [source |-> s, at |-> i]
    BY <1>1
  <1>3. s \in {"cursor", "claude", "codex", "windsurf", "opencode", "nodecode", "vscode"}
    BY SearchedKnown DEF ToSet, SourcePriority
  <1>4. About[s].files \in Seq({"project", "global"})
    <2>1. s = "cursor" => About[s].files = <<"project", "global">>
      BY DEF About, Cursor
    <2>2. s = "claude" => About[s].files = <<"project", "global">>
      BY DEF About, Claude
    <2>3. s = "codex" => About[s].files = <<"project", "global">>
      BY DEF About, Codex
    <2>4. s = "windsurf" => About[s].files = <<"global">>
      BY DEF About, Windsurf
    <2>5. s = "opencode" => About[s].files = <<"project", "project", "global", "global">>
      BY DEF About, OpenCode
    <2>6. s = "nodecode" => About[s].files = <<"project", "global">>
      BY DEF About, Nodecode
    <2>7. s = "vscode" => About[s].files = <<"project", "global", "global", "global">>
      BY DEF About, VsCode
    <2> DEFINE Two == <<"project", "global">>
               One == <<"global">>
               Open == <<"project", "project", "global", "global">>
               Code == <<"project", "global", "global", "global">>
    <2>8. Two \in Seq({"project", "global"})
      OBVIOUS
    <2>9. One \in Seq({"project", "global"})
      OBVIOUS
    <2>10. Open \in Seq({"project", "global"})
      OBVIOUS
    <2>11. Code \in Seq({"project", "global"})
      OBVIOUS
    <2> HIDE DEF Two, One, Open, Code
    <2>12. About[s].files \in {Two, One, Open, Code}
      BY <1>3, <2>1, <2>2, <2>3, <2>4, <2>5, <2>6, <2>7 DEF Two, One, Open, Code
    <2> QED
      BY <2>8, <2>9, <2>10, <2>11, <2>12
  <1> QED
    BY <1>2, <1>4, SearchedKnown DEF Scope, Sources

\* A file has one entry for a name.
OneEach(found) == \A a, b \in found : a.name = b.name /\ a.file = b.file => a = b

\* A server is of a file, which has a source and a scope.
LEMMA ServerIs ==
  ASSUME NEW a \in Servers
  PROVE  /\ a.file \in Files /\ a.file.source \in Sources /\ a.file.at \in Nat
         /\ Rank(a.file.source) \in Nat
         /\ Scope(a.file) \in {"project", "global"}
         /\ ScopeRank(a.file) \in Nat
         /\ \A b \in Servers : a.file.source = b.file.source /\ a.file.at = b.file.at
                             => a.file = b.file
  <1>1. a.file \in Files /\ \A b \in Servers : b.file \in Files
    BY DEF Servers
  <1> QED
    BY <1>1, FileIs, RankIs DEF ScopeRank

\* Collapsing keeps, for every server found, the best of its name and source ...
LEMMA CollapsedExists ==
  ASSUME NEW found \in SUBSET Servers, OneEach(found), NEW a \in found
  PROVE  \E y \in Collapsed(found) :
           /\ y.name = a.name /\ y.file.source = a.file.source
           /\ y = a \/ Better(y, a)
  <1> DEFINE T == {b \in found : b.name = a.name /\ b.file.source = a.file.source}
             scope == [b \in T |-> ScopeRank(b.file)]
  <1>1. T # {} /\ scope \in [T -> Nat]
    BY ServerIs
  <1>2. PICK x \in T : \A b \in T : ScopeRank(x.file) <= ScopeRank(b.file)
    <2>1. \E x \in T : \A b \in T : scope[x] <= scope[b]
      <3> HIDE DEF T, scope
      <3> QED
        BY <1>1, LeastOf
    <2> QED
      BY <2>1
  <1> DEFINE U == {b \in T : ScopeRank(b.file) = ScopeRank(x.file)}
             place == [b \in U |-> b.file.at]
  <1>3. U # {} /\ place \in [U -> Nat]
    BY ServerIs
  <1>4. PICK y \in U : \A b \in U : y.file.at <= b.file.at
    <2>1. \E y \in U : \A b \in U : place[y] <= place[b]
      <3> HIDE DEF U, place
      <3> QED
        BY <1>3, LeastOf
    <2> QED
      BY <2>1
  <1>5. ASSUME NEW b \in T, b # y PROVE Precedes(y, b)
    <2>1. y.file.source = b.file.source /\ y.name = b.name /\ y \in Servers /\ b \in Servers
      OBVIOUS
    <2>2. y.file.at # b.file.at
      BY <2>1, <1>5, ServerIs DEF OneEach
    <2>3. ScopeRank(y.file) <= ScopeRank(b.file)
      BY <1>2
    <2>4. CASE ScopeRank(y.file) = ScopeRank(b.file)
      <3>1. b \in U
        BY <2>4
      <3>2. y.file.at <= b.file.at
        BY <3>1, <1>4
      <3> QED
        BY <3>2, <2>1, <2>2, <2>4, ServerIs DEF Precedes
    <2> QED
      BY <2>1, <2>3, <2>4, ServerIs DEF Precedes
  <1>6. y \in Collapsed(found)
    BY <1>5 DEF Collapsed
  <1>7. y = a \/ Precedes(y, a)
    BY <1>5
  <1>8. Precedes(y, a) => Better(y, a)
    BY ServerIs DEF Precedes, Better, ScopeRank
  <1> QED
    BY <1>6, <1>7, <1>8

\* ... and one of them only.
LEMMA CollapsedAlone ==
  ASSUME NEW found \in SUBSET Servers, NEW x \in Collapsed(found), NEW y \in Collapsed(found),
         x.name = y.name, x.file.source = y.file.source
  PROVE  x = y
  <1>1. x # y => Precedes(x, y) /\ Precedes(y, x)
    BY DEF Collapsed
  <1>2. x \in Servers /\ y \in Servers
    BY DEF Collapsed
  <1> QED
    BY <1>1, <1>2, ServerIs DEF Precedes

\* Of the servers of a name, the report keeps the one of the first source.
LEMMA KeptExists ==
  ASSUME NEW found \in SUBSET Servers, NEW a \in Collapsed(found)
  PROVE  \E b \in Kept(found) :
           b.name = a.name /\ Rank(b.file.source) <= Rank(a.file.source)
  <1> DEFINE T == {b \in Collapsed(found) : b.name = a.name}
             rank == [b \in T |-> Rank(b.file.source)]
  <1>1. T # {} /\ rank \in [T -> Nat]
    BY ServerIs DEF Collapsed
  <1>2. PICK b \in T : \A c \in T : Rank(b.file.source) <= Rank(c.file.source)
    <2>1. \E b \in T : \A c \in T : rank[b] <= rank[c]
      <3> HIDE DEF T, rank
      <3> QED
        BY <1>1, LeastOf
    <2> QED
      BY <2>1
  <1>3. b \in Kept(found)
    BY <1>2 DEF Kept
  <1> QED
    BY <1>2, <1>3

\* ... and that one alone.
LEMMA KeptAlone ==
  ASSUME NEW found \in SUBSET Servers, NEW x \in Kept(found), NEW y \in Kept(found),
         x.name = y.name
  PROVE  x = y
  <1>1. x \in Collapsed(found) /\ y \in Collapsed(found)
    BY DEF Kept
  <1>2. x \in Servers /\ y \in Servers
    BY <1>1 DEF Collapsed
  <1>3. Rank(x.file.source) = Rank(y.file.source)
    BY <1>1, <1>2, ServerIs DEF Kept
  <1>4. x.file.source = y.file.source
    BY <1>2, <1>3, ServerIs, RankIs
  <1> QED
    BY <1>1, <1>4, CollapsedAlone

\* The best of every name found is kept, alone of its name.
LEMMA KeptIsBest ==
  ASSUME NEW found \in SUBSET Servers, OneEach(found), NEW a \in found
  PROVE  \E b \in Kept(found) :
           /\ b.name = a.name
           /\ \A c \in Kept(found) : c.name = a.name => c = b
           /\ b = a \/ Better(b, a)
  <1>1. PICK y \in Collapsed(found) :
          /\ y.name = a.name /\ y.file.source = a.file.source
          /\ y = a \/ Better(y, a)
    BY CollapsedExists
  <1>2. PICK b \in Kept(found) : b.name = y.name /\ Rank(b.file.source) <= Rank(y.file.source)
    BY KeptExists
  <1>3. b \in Collapsed(found)
    BY DEF Kept
  <1>4. y \in Servers /\ b \in Servers /\ a \in Servers
    BY <1>3 DEF Collapsed
  <1>5. b = a \/ Better(b, a)
    <2>1. CASE Rank(b.file.source) = Rank(y.file.source)
      <3>1. b.file.source = y.file.source
        BY <2>1, <1>4, ServerIs, RankIs
      <3> QED
        BY <3>1, <1>1, <1>2, <1>3, CollapsedAlone
    <2>2. CASE Rank(b.file.source) < Rank(y.file.source)
      BY <2>2, <1>1 DEF Better
    <2> QED
      BY <2>1, <2>2, <1>2, <1>4, ServerIs
  <1>6. \A c \in Kept(found) : c.name = a.name => c = b
    BY <1>1, <1>2, KeptAlone
  <1> QED
    BY <1>1, <1>2, <1>5, <1>6

\* Where nothing conflicts, a name has one source.
LEMMA OneSource ==
  ASSUME NEW found \in SUBSET Servers, OneEach(found), Conflicts(found) = {},
         NEW a \in found, NEW b \in found, a.name = b.name
  PROVE  a.file.source = b.file.source
  <1>1. PICK x \in Collapsed(found) : x.name = a.name /\ x.file.source = a.file.source
    BY CollapsedExists
  <1>2. PICK y \in Collapsed(found) : y.name = b.name /\ y.file.source = b.file.source
    BY CollapsedExists
  <1>3. x \in Kept(found) /\ y \in Kept(found)
    BY DEF Conflicts
  <1> QED
    BY <1>1, <1>2, <1>3, KeptAlone

\* The parts of a scan.
ScanIs == scan = [stage |-> scan.stage, command |-> scan.command, strict |-> scan.strict,
                  todo |-> scan.todo, found |-> scan.found, issues |-> scan.issues]

\* What an import has read: the servers of files that it is past.
ReadSoFar ==
  /\ ScanIs
  /\ scan.found \subseteq Servers /\ OneEach(scan.found)
  /\ scan.todo \subseteq Files
  /\ \A a \in scan.found : a.file \notin scan.todo
  /\ scan.stage = "write" => ~Refused

\* What it has written: all that is best of what it had read.
WrittenWhole ==
  registry.state = "whole" =>
    /\ registry.found \subseteq Servers /\ OneEach(registry.found)
    /\ registry.servers = Kept(registry.found)
    /\ registry.strict => Conflicts(registry.found) = {}

\* Together they are inductive.
ImportInv == ReadSoFar /\ WrittenWhole

\* A file is read once, and gives one server for a name.
LEMMA AcceptedOnce ==
  ASSUME NEW f \in Files
  PROVE  /\ Accepted(f) \subseteq Servers /\ OneEach(Accepted(f))
         /\ \A a \in Accepted(f) : a.file = f
  BY DEF Accepted, Servers, OneEach

\* A scan that is over has read nothing.
LEMMA OverReads ==
  ASSUME NEW o \in {"done", "failed"}, scan' = Over(o)
  PROVE  ReadSoFar'
  BY DEF Over, NoScan, ReadSoFar, ScanIs, OneEach, Refused

\* A file that is read is none that has been read before.
LEMMA ReadStep ==
  ASSUME ReadSoFar, [ImportNext]_importVars
  PROVE  ReadSoFar'
  <1> USE DEF ReadSoFar
  <1>1. ASSUME UNCHANGED scan PROVE ReadSoFar'
    BY <1>1 DEF ScanIs, Refused
  <1>2. ASSUME NEW com \in {"discover", "import"}, NEW strict \in BOOLEAN, BeginScan(com, strict)
        PROVE  ReadSoFar'
    BY <1>2 DEF BeginScan, NoScan, ScanIs, OneEach
  <1>3. ASSUME ScanFile PROVE ReadSoFar'
    <2>1. PICK f \in scan.todo :
            scan' = [scan EXCEPT !.todo = @ \ {f}, !.found = @ \cup Accepted(f),
                                 !.issues = @ + Issues(f)]
      BY <1>3 DEF ScanFile
    <2>2. /\ ScanIs' /\ scan'.todo = scan.todo \ {f} /\ scan'.found = scan.found \cup Accepted(f)
          /\ scan'.stage = scan.stage
      BY <2>1 DEF ScanIs
    <2>3. scan.stage # "write"
      BY <1>3 DEF ScanFile
    <2> QED
      BY <2>2, <2>3, AcceptedOnce DEF OneEach
  <1>4. ASSUME Discover PROVE ReadSoFar'
    BY <1>4, OverReads DEF Discover
  <1>5. ASSUME OpenRegistry PROVE ReadSoFar'
    <2>1. CASE scan' = Over("failed")
      BY <2>1, OverReads
    <2>2. CASE ~Refused /\ scan' = [scan EXCEPT !.stage = "write"]
      <3>1. /\ ScanIs' /\ scan'.strict = scan.strict /\ scan'.todo = scan.todo
            /\ scan'.found = scan.found
        BY <2>2 DEF ScanIs
      <3> QED
        BY <2>2, <3>1 DEF Refused
    <2> QED
      BY <1>5, <2>1, <2>2 DEF OpenRegistry
  <1>6. ASSUME WriteRegistry PROVE ReadSoFar'
    <2>1. CASE scan' = Over("failed")
      BY <2>1, OverReads
    <2>2. CASE scan' = [scan EXCEPT !.stage = "profiles"]
      <3>1. /\ ScanIs' /\ scan'.stage = "profiles" /\ scan'.todo = scan.todo
            /\ scan'.found = scan.found
        BY <2>2 DEF ScanIs
      <3> QED
        BY <3>1
    <2> QED
      BY <1>6, <2>1, <2>2 DEF WriteRegistry
  <1>7. ASSUME SaveProfiles PROVE ReadSoFar'
    BY <1>7, OverReads DEF SaveProfiles
  <1> QED
    BY <1>1, <1>2, <1>3, <1>4, <1>5, <1>6, <1>7 DEF ImportNext, Edit, importVars

\* The registry is whole only with what was kept of all that was read.
LEMMA WrittenStep ==
  ASSUME ImportInv, [ImportNext]_importVars
  PROVE  WrittenWhole'
  <1>1. ASSUME UNCHANGED registry PROVE WrittenWhole'
    BY <1>1 DEF ImportInv, WrittenWhole
  <1>2. ASSUME OpenRegistry PROVE WrittenWhole'
    BY <1>1, <1>2 DEF OpenRegistry, NoRegistry, WrittenWhole
  <1>3. ASSUME WriteRegistry PROVE WrittenWhole'
    BY <1>1, <1>3 DEF WriteRegistry, ImportInv, ReadSoFar, WrittenWhole, Refused
  <1> QED
    BY <1>1, <1>2, <1>3 DEF ImportNext, Edit, BeginScan, ScanFile, Discover, SaveProfiles, importVars

(***************************************************************************)
(* A whole registry holds the best server of every name that the import    *)
(* found, alone of its name, and a strict import has written no name that  *)
(* two programs have: for any programs, any names and any number of edits  *)
(* and of entries.                                                         *)
(***************************************************************************)
THEOREM RegistryHoldsBest == ImportSpec => []RegistryIsBest
  <1>1. ImportInit => ImportInv
    BY DEF ImportInit, ImportInv, ReadSoFar, ScanIs, OneEach, WrittenWhole, NoScan, NoRegistry,
           Refused
  <1>2. ImportInv /\ [ImportNext]_importVars => ImportInv'
    BY ReadStep, WrittenStep DEF ImportInv
  <1>3. ImportInv => RegistryIsBest
    <2> SUFFICES ASSUME WrittenWhole, registry.state = "whole" PROVE RegistryIsBest
      BY DEF ImportInv, RegistryIsBest
    <2>1. \A a \in registry.found :
            \E b \in registry.servers :
              /\ b.name = a.name
              /\ \A c \in registry.servers : c.name = a.name => c = b
              /\ b = a \/ Better(b, a)
      BY KeptIsBest DEF WrittenWhole
    <2>2. registry.strict =>
            \A a, b \in registry.found : a.name = b.name => a.file.source = b.file.source
      BY OneSource DEF WrittenWhole
    <2> QED
      BY <2>1, <2>2 DEF RegistryIsBest
  <1> QED
    BY <1>1, <1>2, <1>3, PTL DEF ImportSpec

-----------------------------------------------------------------------------
(* ConnectCommand *)

\* What a command starts is a record of these.
StartIs(s) == s = [what |-> s.what, at |-> s.at, protocol |-> s.protocol,
                   headers |-> s.headers, args |-> s.args, env |-> s.env]

\* A bridge and a child are named when they are begun.
CommandIs ==
  /\ command = [by |-> command.by, stage |-> command.stage, options |-> command.options,
                start |-> command.start]
  /\ command.by \in {"none", "user", "launcher", "wrapper"}
  /\ command.by = "none" => Idle
  /\ StartIs(command.start)
  /\ command.stage \in {"token", "save"} =>
       /\ command.start.what = "bridge"
       /\ command.start.at # "none" /\ command.start.protocol # "none"
  /\ command.stage = "wrap" => command.start.what = "spawn"

\* Only the first command, which is the user's, saves anything, and what is
\* saved is of what it started.
SavedOnce ==
  /\ origin = Started => profile = NoProfile /\ wrapper = NoWrapper
  /\ command.by = "user" /\ ~Idle => origin = Started
  /\ command.by \in {"launcher", "wrapper"} => Options.save = {}
  /\ profile # NoProfile =>
       /\ profile.endpoint # "none" /\ profile.endpoint = origin.at
       /\ profile.protocol # "none" /\ profile.protocol = origin.protocol
       /\ profile.headers = Present(origin.headers)
  /\ wrapper # NoWrapper =>
       wrapper = [at |-> origin.at, args |-> origin.args, env |-> origin.env]

\* The command line of a launcher, and what it is to start.
LauncherOptions ==
  [Plain EXCEPT !.endpoint = profile.endpoint, !.protocol = profile.protocol,
                !.headers = [h \in Headers |-> IF h \in profile.headers
                                               THEN VarOf(h) ELSE "none"]]
LauncherStart ==
  [Started EXCEPT !.what = "bridge", !.at = profile.endpoint, !.protocol = profile.protocol,
                  !.headers = LauncherOptions.headers]

\* The launcher of a profile goes the way of a bridge ...
LauncherGoes ==
  command.by = "launcher" =>
    /\ profile # NoProfile
    /\ command.stage \in {"run", "token", "save", "ended"}
    /\ Options = LauncherOptions
    /\ command.start \in {Started, LauncherStart}

\* Those of a run of a wrapper.
WrapperOptions(a) == [Plain EXCEPT !.wrapper = TRUE, !.args = a]
WrapperStart(a) ==
  [Started EXCEPT !.what = "spawn", !.at = wrapper.at, !.args = wrapper.args \o a,
                  !.env = Resolved(wrapper.env)]

\* ... and a run of a wrapper that of a child.
WrapperGoes ==
  command.by = "wrapper" =>
    /\ wrapper # NoWrapper
    /\ command.stage \in {"run", "wrap", "ended"}
    /\ \E a \in ArgLists : Options = WrapperOptions(a)
    /\ command.start \in {Started, WrapperStart(Options.args)}

\* Together they are inductive.
ConnectInv == CommandIs /\ SavedOnce /\ LauncherGoes /\ WrapperGoes

\* Nothing, as a start.
LEMMA StartedIs == StartIs(Started)
  BY DEF StartIs, Started

\* A command line that names one thing to start, and no OAuth, is accepted.
LEMMA AcceptsOne ==
  ASSUME NEW o, o.oauth = {}, o.cmd \in BOOLEAN, o.wrapper \in BOOLEAN,
         \/ o.endpoint # "none" /\ o.server = "none" /\ ~o.cmd /\ ~o.wrapper
         \/ /\ o.endpoint = "none" /\ o.server = "none" /\ ~o.cmd /\ o.wrapper
            /\ o.protocol = "none"
  PROVE  Accepts(o)
  <1> DEFINE modes == {m \in {1, 2, 3} : \/ m = 1 /\ o.endpoint # "none"
                                         \/ m = 2 /\ o.server # "none"
                                         \/ m = 3 /\ StdioMode(o)}
  <1>1. modes = {1} \/ modes = {3}
    <2>1. CASE o.endpoint # "none"
      <3>1. o.server = "none" /\ ~StdioMode(o)
        BY <2>1 DEF StdioMode
      <3>2. 1 \in modes /\ 2 \notin modes /\ 3 \notin modes /\ modes \subseteq {1, 2, 3}
        BY <2>1, <3>1
      <3> HIDE DEF modes
      <3>3. modes = {1}
        BY <3>2
      <3> QED
        BY <3>3
    <2>2. CASE o.endpoint = "none"
      <3>1. o.server = "none" /\ StdioMode(o)
        BY <2>2 DEF StdioMode
      <3>2. 3 \in modes /\ 1 \notin modes /\ 2 \notin modes /\ modes \subseteq {1, 2, 3}
        BY <2>2, <3>1
      <3> HIDE DEF modes
      <3>3. modes = {3}
        BY <3>2
      <3> QED
        BY <3>3
    <2> QED
      BY <2>1, <2>2
  <1> HIDE DEF modes
  <1>2. Cardinality(modes) = 1
    BY <1>1, FS_Singleton
  <1>3. /\ ~(o.cmd /\ o.wrapper) /\ (StdioMode(o) => o.protocol = "none")
        /\ (o.oauth # {} => {"issuer", "client"} \subseteq o.oauth)
    BY DEF StdioMode
  <1> QED
    <2>1. Cardinality({m \in {1, 2, 3} : \/ m = 1 /\ o.endpoint # "none"
                                         \/ m = 2 /\ o.server # "none"
                                         \/ m = 3 /\ StdioMode(o)}) = 1
      BY <1>2 DEF modes
    <2> QED
      BY <1>3, <2>1 DEF Accepts

\* What begins a bridge, and what begins a child.
LEMMA StartMade ==
  ASSUME NEW w, NEW a, NEW p, NEW h, NEW args, NEW env, NEW s,
         s = [what |-> w, at |-> a, protocol |-> p, headers |-> h, args |-> args, env |-> env]
  PROVE  /\ StartIs(s) /\ s.what = w /\ s.at = a /\ s.protocol = p
         /\ s.args = args /\ s.env = env
  BY DEF StartIs

\* The options that a launcher and a run of a wrapper give.
LEMMA LauncherOptionsAre ==
  ASSUME profile # NoProfile, SavedOnce
  PROVE  LET o == LauncherOptions
         IN /\ Accepts(o) /\ Parsed(o) = o
            /\ o.endpoint = profile.endpoint /\ o.protocol = profile.protocol
            /\ o.endpoint # "none" /\ o.protocol # "none"
            /\ o.server = "none" /\ ~o.cmd /\ ~o.wrapper /\ o.oauth = {} /\ o.save = {}
  <1> DEFINE o == LauncherOptions
  <1>1. /\ o.endpoint = profile.endpoint /\ o.protocol = profile.protocol
        /\ o.endpoint # "none" /\ o.protocol # "none"
        /\ o.server = "none" /\ o.cmd = FALSE /\ o.wrapper = FALSE /\ o.oauth = {} /\ o.save = {}
        /\ o.bearer = FALSE
    BY DEF SavedOnce, LauncherOptions, Plain
  <1>2. Parsed(o) = o
    BY <1>1 DEF Parsed, LauncherOptions, Plain, Headers
  <1> QED
    BY <1>1, <1>2, AcceptsOne

\* ... which connect accepts, too.
LEMMA WrapperOptionsAre ==
  ASSUME NEW a
  PROVE  LET o == WrapperOptions(a)
         IN /\ Accepts(o) /\ Parsed(o) = o
            /\ o.endpoint = "none" /\ o.server = "none" /\ ~o.cmd /\ o.wrapper
            /\ o.oauth = {} /\ o.save = {} /\ o.env = "none" /\ o.args = a
  <1> DEFINE o == WrapperOptions(a)
  <1>1. /\ o.endpoint = "none" /\ o.server = "none" /\ o.cmd = FALSE /\ o.wrapper = TRUE
        /\ o.oauth = {} /\ o.save = {} /\ o.env = "none" /\ o.args = a /\ o.bearer = FALSE
        /\ o.protocol = "none"
    BY DEF WrapperOptions, Plain
  <1>2. Parsed(o) = o
    <2>1. [NoHeaders EXCEPT !["Authorization"] = IF FALSE THEN "bearer" ELSE @] = NoHeaders
      BY DEF NoHeaders, Headers
    <2>2. o.headers = NoHeaders
      BY DEF WrapperOptions, Plain
    <2> QED
      BY <1>1, <2>1, <2>2 DEF Parsed, WrapperOptions, Plain
  <1> QED
    BY <1>1, <1>2, AcceptsOne

\* What the steps of a command leave alone.
LEMMA ProceedIs ==
  ASSUME CommandIs, NEW stage, NEW s, Proceed(stage, s)
  PROVE  /\ command'.by = command.by /\ command'.options = Options
         /\ command'.stage = stage /\ command'.start = s
         /\ command' = [by |-> command'.by, stage |-> command'.stage,
                        options |-> command'.options, start |-> command'.start]
  BY DEF CommandIs, Proceed, Options

\* What a command begins with.
LEMMA RunIs ==
  ASSUME NEW by, NEW o, Run(by, o)
  PROVE  /\ command'.by = by /\ command'.start = Started
         /\ command'.stage = IF Accepts(o) THEN "run" ELSE "refused"
         /\ command'.options = IF Accepts(o) THEN Parsed(o) ELSE Plain
         /\ command' = [by |-> command'.by, stage |-> command'.stage,
                        options |-> command'.options, start |-> command'.start]
  BY DEF Run, NoCommand

\* A choice: the command goes on with something to start, or ends.
LEMMA Choosing ==
  ASSUME ConnectInv, Choose
  PROVE  /\ UNCHANGED <<profile, wrapper, origin, environ>>
         /\ command.stage = "run"
         /\ \E stage, s :
              /\ Proceed(stage, s) /\ StartIs(s)
              /\ \/ stage = "ended" /\ s = Started
                 \/ /\ stage = "token" /\ s.what = "bridge" /\ s.at # "none"
                    /\ s.protocol # "none" /\ command.by # "wrapper"
                    /\ command.by = "launcher" => s = LauncherStart
                 \/ /\ stage = "wrap" /\ s.what = "spawn" /\ command.by # "launcher"
                    /\ command.by = "wrapper" => s = WrapperStart(Options.args)
  <1> DEFINE Goes(stage, s) ==
        /\ Proceed(stage, s) /\ StartIs(s)
        /\ \/ stage = "ended" /\ s = Started
           \/ /\ stage = "token" /\ s.what = "bridge" /\ s.at # "none"
              /\ s.protocol # "none" /\ command.by # "wrapper"
              /\ command.by = "launcher" => s = LauncherStart
           \/ /\ stage = "wrap" /\ s.what = "spawn" /\ command.by # "launcher"
              /\ command.by = "wrapper" => s = WrapperStart(Options.args)
  <1>1. ASSUME Fail PROVE Goes("ended", Started)
    BY <1>1, StartedIs DEF Fail
  <1>2. command.by = "launcher" =>
          /\ Options = LauncherOptions
          /\ Options.endpoint = profile.endpoint /\ Options.protocol = profile.protocol
          /\ Options.server = "none" /\ ~Options.cmd /\ ~Options.wrapper
          /\ Options.protocol # "none"
    BY LauncherOptionsAre DEF ConnectInv, LauncherGoes
  <1>3. command.by = "wrapper" =>
          /\ Options.endpoint = "none" /\ Options.server = "none" /\ ~Options.cmd
          /\ Options.env = "none"
    BY WrapperOptionsAre DEF ConnectInv, WrapperGoes
  <1>4. ASSUME UseCommand PROVE \E stage, s : Goes(stage, s)
    <2>1. PICK s : /\ s = [Started EXCEPT !.what = "spawn", !.at = "command",
                                          !.args = Options.args, !.env = Options.env]
                   /\ Proceed("wrap", s) /\ Options.cmd
      BY <1>4 DEF UseCommand
    <2>2. s = [what |-> "spawn", at |-> "command", protocol |-> "none", headers |-> NoHeaders,
               args |-> Options.args, env |-> Options.env]
      BY <2>1 DEF Started
    <2>3. StartIs(s) /\ s.what = "spawn"
      BY <2>2, StartMade
    <2>4. Goes("wrap", s)
      BY <1>2, <1>3, <2>1, <2>3
    <2> QED
      BY <2>4
  <1>5. ASSUME UseWrapper PROVE \E stage, s : Goes(stage, s)
    <2>1. PICK s : /\ s = [Started EXCEPT !.what = "spawn", !.at = wrapper.at,
                                          !.args = wrapper.args \o Options.args,
                                          !.env = IF Options.env # "none" THEN Options.env
                                                  ELSE Resolved(wrapper.env)]
                   /\ Proceed("wrap", s) /\ Options.wrapper
      BY <1>5 DEF UseWrapper
    <2>2. s = [what |-> "spawn", at |-> wrapper.at, protocol |-> "none", headers |-> NoHeaders,
               args |-> wrapper.args \o Options.args,
               env |-> IF Options.env # "none" THEN Options.env ELSE Resolved(wrapper.env)]
      BY <2>1 DEF Started
    <2>3. command.by = "wrapper" => s = WrapperStart(Options.args)
      BY <1>3, <2>1 DEF WrapperStart
    <2>4. StartIs(s) /\ s.what = "spawn"
      BY <2>2, StartMade
    <2>5. Goes("wrap", s)
      BY <1>2, <2>1, <2>3, <2>4
    <2> QED
      BY <2>5
  <1>6. ASSUME UseImportedStdio PROVE \E stage, s : Goes(stage, s)
    <2>1. CASE Fail
      BY <1>1, <2>1
    <2>2. ASSUME NEW v \in {"none", "template"}, NEW s,
                 s = [Started EXCEPT !.what = "spawn", !.at = "imported", !.env = v],
                 Proceed("wrap", s)
          PROVE  Goes("wrap", s)
      <3>1. s = [what |-> "spawn", at |-> "imported", protocol |-> "none",
                 headers |-> NoHeaders, args |-> <<>>, env |-> v]
        BY <2>2 DEF Started
      <3>2. command.by \notin {"wrapper", "launcher"}
        BY <1>2, <1>3, <1>6 DEF UseImportedStdio
      <3>3. StartIs(s) /\ s.what = "spawn"
        BY <3>1, StartMade
      <3> QED
        BY <2>2, <3>2, <3>3
    <2> QED
      BY <1>6, <2>1, <2>2 DEF UseImportedStdio
  <1>7. ASSUME UseImportedRemote PROVE \E stage, s : Goes(stage, s)
    <2> DEFINE p == IF Options.protocol # "none" THEN Options.protocol ELSE "sse"
    <2>1. PICK h, s : /\ s = [Started EXCEPT !.what = "bridge", !.at = "imported",
                                             !.protocol = p, !.headers = h]
                      /\ Proceed("token", s)
      <3>1. PICK imported \in [Headers -> {"none", "imported"}] :
              Proceed("token",
                      [Started EXCEPT !.what = "bridge", !.at = "imported",
                                      !.protocol = p,
                                      !.headers = [h \in Headers |->
                                                     IF Options.headers[h] # "none"
                                                     THEN Options.headers[h] ELSE imported[h]]])
        BY <1>7 DEF UseImportedRemote
      <3> QED
        BY <3>1
    <2>5. p # "none"
      OBVIOUS
    <2> HIDE DEF p
    <2>2. s = [what |-> "bridge", at |-> "imported", protocol |-> p, headers |-> h,
               args |-> <<>>, env |-> "none"]
      BY <2>1 DEF Started
    <2>3. command.by \notin {"wrapper", "launcher"}
      BY <1>2, <1>3, <1>7 DEF UseImportedRemote
    <2>6. StartIs(s) /\ s.what = "bridge" /\ s.at = "imported" /\ s.protocol = p
      BY <2>2, StartMade
    <2>4. Goes("token", s)
      BY <2>1, <2>3, <2>5, <2>6
    <2> QED
      BY <2>4
  <1>8. ASSUME UseEndpoint PROVE \E stage, s : Goes(stage, s)
    <2>1. CASE Fail
      BY <1>1, <2>1
    <2>2. CASE ~Fail
      <3>1. PICK s : /\ s = [Started EXCEPT !.what = "bridge", !.at = Options.endpoint,
                                            !.protocol = ProtocolOf(Options),
                                            !.headers = Options.headers]
                     /\ Proceed("token", s) /\ Options.endpoint # "none"
                     /\ ProtocolOf(Options) # "none"
        BY <1>8, <2>2 DEF UseEndpoint
      <3>2. s = [what |-> "bridge", at |-> Options.endpoint, protocol |-> ProtocolOf(Options),
                 headers |-> Options.headers, args |-> <<>>, env |-> "none"]
        BY <3>1 DEF Started
      <3>3. command.by = "launcher" => s = LauncherStart
        BY <1>2, <3>1 DEF LauncherStart, ProtocolOf
      <3>4. StartIs(s) /\ s.what = "bridge" /\ s.at # "none" /\ s.protocol # "none"
        BY <3>1, <3>2, StartMade
      <3>5. Goes("token", s)
        BY <1>3, <3>1, <3>3, <3>4
      <3> QED
        BY <3>5
    <2> QED
      BY <2>1, <2>2
  <1>9. \E stage, s : Goes(stage, s)
    BY <1>1, <1>4, <1>5, <1>6, <1>7, <1>8 DEF Choose, Logout
  <1> QED
    BY <1>9 DEF Choose

\* One step of a command, of the user or of a saved file.
LEMMA ConnectStep ==
  ASSUME ConnectInv, [ConnectNext]_connectVars
  PROVE  ConnectInv'
  <1> USE DEF ConnectInv
  <1>1. CASE UNCHANGED connectVars
    <2>1. UNCHANGED <<command, profile, wrapper, origin, environ>>
      BY <1>1 DEF connectVars
    <2>2. CommandIs' /\ SavedOnce'
      BY <2>1 DEF CommandIs, StartIs, SavedOnce, Idle, Options
    <2>3. LauncherGoes'
      BY <2>1 DEF LauncherGoes, LauncherOptions, LauncherStart, Options
    <2>4. WrapperGoes'
      <3>1. \A a : WrapperStart(a)' = WrapperStart(a)
        BY <2>1 DEF WrapperStart, Resolved
      <3> QED
        BY <2>1, <3>1 DEF WrapperGoes, WrapperOptions, Options
    <2> QED
      BY <2>2, <2>3, <2>4
  <1>2. CASE UserRuns
    <2>1. PICK o : Run("user", o)
      BY <1>2 DEF UserRuns
    <2>2. /\ command'.by = "user" /\ command'.start = Started
          /\ command'.stage \in {"run", "refused"}
          /\ command' = [by |-> command'.by, stage |-> command'.stage,
                         options |-> command'.options, start |-> command'.start]
      BY <2>1, RunIs
    <2>3. UNCHANGED <<profile, wrapper, origin, environ>> /\ origin = Started
      BY <1>2 DEF UserRuns
    <2> QED
      BY <2>2, <2>3, StartedIs DEF CommandIs, StartIs, SavedOnce, LauncherGoes, WrapperGoes
  <1>3. CASE Choose
    <2>1. PICK stage, s :
            /\ Proceed(stage, s) /\ StartIs(s)
            /\ \/ stage = "ended" /\ s = Started
               \/ /\ stage = "token" /\ s.what = "bridge" /\ s.at # "none"
                  /\ s.protocol # "none" /\ command.by # "wrapper"
                  /\ command.by = "launcher" => s = LauncherStart
               \/ /\ stage = "wrap" /\ s.what = "spawn" /\ command.by # "launcher"
                  /\ command.by = "wrapper" => s = WrapperStart(Options.args)
      BY <1>3, Choosing
    <2>2. UNCHANGED <<profile, wrapper, origin, environ>> /\ command.stage = "run"
      BY <1>3, Choosing
    <2>3. /\ command'.by = command.by /\ Options' = Options
          /\ command'.stage = stage /\ command'.start = s
          /\ command' = [by |-> command'.by, stage |-> command'.stage,
                         options |-> command'.options, start |-> command'.start]
      BY <2>1, ProceedIs DEF Options
    <2>4. CommandIs'
      BY <2>1, <2>2, <2>3 DEF CommandIs, StartIs, Idle
    <2>5. SavedOnce'
      BY <2>2, <2>3 DEF SavedOnce, Idle
    <2>6. LauncherGoes'
      <3>1. LauncherOptions' = LauncherOptions /\ LauncherStart' = LauncherStart
        BY <2>2 DEF LauncherOptions, LauncherStart
      <3> QED
        BY <2>1, <2>2, <2>3, <3>1 DEF LauncherGoes
    <2>7. WrapperGoes'
      <3>1. \A a : WrapperStart(a)' = WrapperStart(a)
        BY <2>2 DEF WrapperStart, Resolved
      <3> QED
        BY <2>1, <2>2, <2>3, <3>1 DEF WrapperGoes, WrapperOptions
    <2> QED
      BY <2>4, <2>5, <2>6, <2>7
  <1>4. CASE Token
    <2>1. PICK stage, s :
            /\ Proceed(stage, s)
            /\ Options.oauth = {} => stage = "save" /\ s = command.start
            /\ \/ stage = "ended" /\ s = Started
               \/ /\ stage = "save" /\ StartIs(s) /\ s.what = command.start.what
                  /\ s.at = command.start.at /\ s.protocol = command.start.protocol
      <3>1. CASE Proceed("save", command.start) /\ Options.oauth = {}
        BY <3>1 DEF CommandIs
      <3>2. CASE Options.oauth # {} /\ Fail
        BY <3>2 DEF Fail
      <3>3. CASE /\ Options.oauth # {}
                 /\ Proceed("save", [command.start EXCEPT !.headers = WithToken(@)])
        <4>1. PICK s : /\ s = [command.start EXCEPT !.headers = WithToken(@)]
                       /\ Proceed("save", s)
          BY <3>3
        <4>2. /\ StartIs(s) /\ s.what = command.start.what
              /\ s.at = command.start.at /\ s.protocol = command.start.protocol
          BY <4>1 DEF CommandIs, StartIs
        <4> QED
          BY <3>3, <4>1, <4>2
      <3> QED
        BY <1>4, <3>1, <3>2, <3>3 DEF Token
    <2>2. UNCHANGED <<profile, wrapper, origin, environ>> /\ command.stage = "token"
      BY <1>4 DEF Token
    <2>3. /\ command'.by = command.by /\ Options' = Options
          /\ command'.stage = stage /\ command'.start = s
          /\ command' = [by |-> command'.by, stage |-> command'.stage,
                         options |-> command'.options, start |-> command'.start]
      BY <2>1, ProceedIs DEF Options
    <2>4. CommandIs'
      BY <2>1, <2>2, <2>3, StartedIs DEF CommandIs, StartIs, Idle
    <2>5. SavedOnce'
      BY <2>2, <2>3 DEF SavedOnce, Idle
    <2>6. LauncherGoes'
      <3>1. LauncherOptions' = LauncherOptions /\ LauncherStart' = LauncherStart
        BY <2>2 DEF LauncherOptions, LauncherStart
      <3>2. command.by = "launcher" => Options.oauth = {}
        BY LauncherOptionsAre DEF LauncherGoes
      <3> QED
        BY <2>1, <2>2, <2>3, <3>1, <3>2 DEF LauncherGoes
    <2>7. WrapperGoes'
      BY <2>2, <2>3 DEF WrapperGoes
    <2> QED
      BY <2>4, <2>5, <2>6, <2>7
  <1>5. CASE SaveAndBridge
    <2>1. PICK s \in {command.start, Started} : Proceed("ended", s)
      BY <1>5 DEF SaveAndBridge, Fail
    <2>2. UNCHANGED <<wrapper, environ>> /\ command.stage = "save"
      BY <1>5 DEF SaveAndBridge
    <2>3. /\ command'.by = command.by /\ Options' = Options
          /\ command'.stage = "ended" /\ command'.start = s
          /\ command' = [by |-> command'.by, stage |-> command'.stage,
                         options |-> command'.options, start |-> command'.start]
      BY <2>1, ProceedIs DEF Options
    <2>4. CommandIs'
      BY <2>1, <2>2, <2>3, StartedIs DEF CommandIs, StartIs, Idle
    <2>5. CASE "profile" \in Options.save /\ profile' = ProfileOf(command.start)
               /\ origin' = command.start
      <3>1. command.by \notin {"launcher", "wrapper"}
        BY <2>5 DEF SavedOnce
      <3>2. wrapper = NoWrapper
        BY <2>2, <3>1 DEF SavedOnce, CommandIs, Idle, NoCommand
      <3>3. command.start.what = "bridge" /\ command.start.at # "none"
            /\ command.start.protocol # "none"
        BY <2>2 DEF CommandIs
      <3>4. command.start # Started
        BY <3>3 DEF Started
      <3>5. /\ profile'.endpoint = origin'.at /\ profile'.protocol = origin'.protocol
            /\ profile'.headers = Present(origin'.headers)
        BY <2>5 DEF ProfileOf
      <3>6. SavedOnce'
        BY <2>2, <2>3, <2>5, <3>1, <3>2, <3>3, <3>4, <3>5 DEF SavedOnce, Idle, Present
      <3> QED
        BY <2>3, <2>4, <3>1, <3>6 DEF LauncherGoes, WrapperGoes
    <2>6. CASE UNCHANGED <<profile, origin>>
      <3>1. SavedOnce'
        BY <2>2, <2>3, <2>6 DEF SavedOnce, Idle
      <3>2. LauncherGoes'
        <4>1. LauncherOptions' = LauncherOptions /\ LauncherStart' = LauncherStart
          BY <2>6 DEF LauncherOptions, LauncherStart
        <4> QED
          BY <2>1, <2>2, <2>3, <2>6, <4>1 DEF LauncherGoes
      <3>3. WrapperGoes'
        BY <2>2, <2>3 DEF WrapperGoes
      <3> QED
        BY <2>4, <3>1, <3>2, <3>3
    <2> QED
      BY <1>5, <2>5, <2>6 DEF SaveAndBridge
  <1>6. CASE WrapAndSpawn
    <2>1. PICK s \in {command.start, Started} : Proceed("ended", s)
      BY <1>6 DEF WrapAndSpawn, Fail
    <2>2. UNCHANGED <<profile, environ>> /\ command.stage = "wrap"
      BY <1>6 DEF WrapAndSpawn
    <2>3. /\ command'.by = command.by /\ Options' = Options
          /\ command'.stage = "ended" /\ command'.start = s
          /\ command' = [by |-> command'.by, stage |-> command'.stage,
                         options |-> command'.options, start |-> command'.start]
      BY <2>1, ProceedIs DEF Options
    <2>4. CommandIs'
      BY <2>1, <2>2, <2>3, StartedIs DEF CommandIs, StartIs, Idle
    <2>5. CASE /\ "wrapper" \in Options.save /\ origin' = command.start
               /\ wrapper' = [at |-> command.start.at, args |-> command.start.args,
                              env |-> command.start.env]
      <3>1. command.by \notin {"launcher", "wrapper"}
        BY <2>5 DEF SavedOnce
      <3>2. profile = NoProfile
        BY <2>2, <3>1 DEF SavedOnce, CommandIs, Idle, NoCommand
      <3>3. command.start # Started
        BY <2>2 DEF CommandIs, Started
      <3>4. SavedOnce'
        BY <2>2, <2>3, <2>5, <3>1, <3>2, <3>3 DEF SavedOnce, Idle
      <3> QED
        BY <2>3, <2>4, <3>1, <3>4 DEF LauncherGoes, WrapperGoes
    <2>6. CASE UNCHANGED <<wrapper, origin>>
      <3>1. SavedOnce'
        BY <2>2, <2>3, <2>6 DEF SavedOnce, Idle
      <3>2. LauncherGoes'
        BY <2>2, <2>3 DEF LauncherGoes
      <3>3. WrapperGoes'
        <4>1. \A a : WrapperStart(a)' = WrapperStart(a)
          BY <2>2, <2>6 DEF WrapperStart, Resolved
        <4> QED
          BY <2>1, <2>2, <2>3, <2>6, <4>1 DEF WrapperGoes, WrapperOptions
      <3> QED
        BY <2>4, <3>1, <3>2, <3>3
    <2> QED
      BY <1>6, <2>5, <2>6 DEF WrapAndSpawn
  <1>7. CASE SetVariables
    BY <1>7, StartedIs DEF SetVariables, NoCommand, CommandIs, StartIs, SavedOnce, LauncherGoes,
          WrapperGoes, Idle
  <1>8. CASE LauncherRuns
    <2>1. /\ Run("launcher", LauncherOptions) /\ profile # NoProfile
          /\ UNCHANGED <<profile, wrapper, origin, environ>>
      BY <1>8 DEF LauncherRuns, LauncherOptions
    <2>2. Accepts(LauncherOptions) /\ Parsed(LauncherOptions) = LauncherOptions
          /\ LauncherOptions.save = {}
      BY <2>1, LauncherOptionsAre
    <2>3. /\ command'.by = "launcher" /\ command'.start = Started
          /\ command'.stage = "run" /\ Options' = LauncherOptions
          /\ command' = [by |-> command'.by, stage |-> command'.stage,
                         options |-> command'.options, start |-> command'.start]
      BY <2>1, <2>2, RunIs DEF Options
    <2>4. LauncherOptions' = LauncherOptions
      BY <2>1 DEF LauncherOptions
    <2>5. CommandIs'
      BY <2>3, StartedIs DEF CommandIs, StartIs
    <2>6. SavedOnce'
      BY <2>1, <2>2, <2>3 DEF SavedOnce, Idle
    <2> QED
      BY <2>1, <2>3, <2>4, <2>5, <2>6 DEF LauncherGoes, WrapperGoes
  <1>9. CASE WrapperRuns
    <2>1. PICK a \in ArgLists : Run("wrapper", WrapperOptions(a))
      BY <1>9 DEF WrapperRuns, WrapperOptions
    <2>2. wrapper # NoWrapper /\ UNCHANGED <<profile, wrapper, origin, environ>>
      BY <1>9 DEF WrapperRuns
    <2>3. Accepts(WrapperOptions(a)) /\ Parsed(WrapperOptions(a)) = WrapperOptions(a)
          /\ WrapperOptions(a).save = {}
      BY WrapperOptionsAre
    <2>4. /\ command'.by = "wrapper" /\ command'.start = Started
          /\ command'.stage = "run" /\ Options' = WrapperOptions(a)
          /\ command' = [by |-> command'.by, stage |-> command'.stage,
                         options |-> command'.options, start |-> command'.start]
      BY <2>1, <2>3, RunIs DEF Options
    <2>5. CommandIs'
      BY <2>4, StartedIs DEF CommandIs, StartIs
    <2>6. SavedOnce'
      BY <2>2, <2>3, <2>4 DEF SavedOnce, Idle
    <2> QED
      BY <2>2, <2>4, <2>5, <2>6 DEF LauncherGoes, WrapperGoes, WrapperOptions
  <1> QED
    BY <1>1, <1>2, <1>3, <1>4, <1>5, <1>6, <1>7, <1>8, <1>9 DEF ConnectNext

(***************************************************************************)
(* A saved profile and a saved wrapper are accepted and start what the     *)
(* command that saved them started, for any arguments of the child.        *)
(***************************************************************************)
THEOREM SavedCommandsRunAlike == ConnectSpec => []SavedRunsAlike
  <1>1. ConnectInit => ConnectInv
    BY StartedIs DEF ConnectInit, ConnectInv, CommandIs, StartIs, SavedOnce, LauncherGoes,
          WrapperGoes, NoCommand, Idle
  <1>2. ConnectInv /\ [ConnectNext]_connectVars => ConnectInv'
    BY ConnectStep
  <1>3. ConnectInv => SavedRunsAlike
    <2> SUFFICES ASSUME ConnectInv PROVE SavedRunsAlike
      OBVIOUS
    <2>1. LauncherIsAlike
      <3> SUFFICES ASSUME command.by = "launcher", profile # NoProfile PROVE LauncherIsAlike
        BY DEF ConnectInv, LauncherGoes, LauncherIsAlike
      <3>1. command.stage # "refused" /\ command.start \in {Started, LauncherStart}
        BY DEF ConnectInv, LauncherGoes
      <3>2. Started.what # "bridge"
        BY DEF Started
      <3>3. LauncherStart = [what |-> "bridge", at |-> profile.endpoint,
                             protocol |-> profile.protocol, headers |-> LauncherOptions.headers,
                             args |-> <<>>, env |-> "none"]
        <4>1. PICK s : s = LauncherStart
          OBVIOUS
        <4>2. s = [Started EXCEPT !.what = "bridge", !.at = profile.endpoint,
                                  !.protocol = profile.protocol,
                                  !.headers = LauncherOptions.headers]
          BY <4>1 DEF LauncherStart
        <4> QED
          BY <4>1, <4>2 DEF Started
      <3>4. LauncherOptions.headers = [h \in Headers |-> IF h \in profile.headers
                                                        THEN VarOf(h) ELSE "none"]
        BY DEF LauncherOptions, Plain
      <3> QED
        BY <3>1, <3>2, <3>3, <3>4 DEF ConnectInv, SavedOnce, LauncherIsAlike
    <2>2. WrapperIsAlike
      <3> SUFFICES ASSUME command.by = "wrapper", wrapper # NoWrapper PROVE WrapperIsAlike
        BY DEF ConnectInv, WrapperGoes, WrapperIsAlike
      <3>1. command.stage # "refused" /\ command.start \in {Started, WrapperStart(Options.args)}
        BY DEF ConnectInv, WrapperGoes
      <3>2. Started.what # "spawn"
        BY DEF Started
      <3>3. WrapperStart(Options.args)
              = [what |-> "spawn", at |-> wrapper.at, protocol |-> "none", headers |-> NoHeaders,
                 args |-> wrapper.args \o Options.args, env |-> Resolved(wrapper.env)]
        <4>1. PICK s : s = WrapperStart(Options.args)
          OBVIOUS
        <4>2. s = [Started EXCEPT !.what = "spawn", !.at = wrapper.at,
                                  !.args = wrapper.args \o Options.args,
                                  !.env = Resolved(wrapper.env)]
          BY <4>1 DEF WrapperStart
        <4> QED
          BY <4>1, <4>2 DEF Started
      <3>4. wrapper = [at |-> origin.at, args |-> origin.args, env |-> origin.env]
        BY DEF ConnectInv, SavedOnce
      <3>5. CASE command.start = WrapperStart(Options.args)
        <4> DEFINE args == wrapper.args \o Options.args
                   env == Resolved(wrapper.env)
        <4>0. command.start = [what |-> "spawn", at |-> wrapper.at, protocol |-> "none",
                               headers |-> NoHeaders, args |-> args, env |-> env]
          BY <3>3, <3>5
        <4> HIDE DEF args, env
        <4>3. /\ command.start.at = wrapper.at /\ command.start.env = env
              /\ command.start.args = args
          BY <4>0
        <4>1. /\ command.start.at = wrapper.at /\ command.start.env = Resolved(wrapper.env)
              /\ command.start.args = wrapper.args \o Options.args
          BY <4>3 DEF args, env
        <4>2. /\ wrapper.at = origin.at /\ wrapper.args = origin.args
              /\ wrapper.env = origin.env
          BY <3>4
        <4> QED
          BY <3>1, <4>1, <4>2 DEF WrapperIsAlike
      <3> QED
        BY <3>1, <3>2, <3>5 DEF WrapperIsAlike
    <2> QED
      BY <2>1, <2>2 DEF SavedRunsAlike
  <1> QED
    BY <1>1, <1>2, <1>3, PTL DEF ConnectSpec

-----------------------------------------------------------------------------
(* GatewayCommand *)

\* How many headers there may be.
Many == Len(HeaderNames)
IsName(b) == Len(b) \in Nat /\ b = [i \in 1 .. Len(b) |-> b[i]]

\* A suffix tells a variable from that of another suffix.
LEMMA SuffixTellsApart ==
  ASSUME NEW b, IsName(b), NEW i \in Nat, NEW j \in Nat, Append(b, i) = Append(b, j)
  PROVE  i = j
  <1> DEFINE S == {b[m] : m \in 1 .. Len(b)} \cup {i, j}
  <1>1. b \in Seq(S)
    BY DEF IsName
  <1> HIDE DEF S
  <1>2. i \in S /\ j \in S
    BY DEF S
  <1>3. Append(b, i)[Len(b) + 1] = i /\ Append(b, j)[Len(b) + 1] = j
    BY <1>1, <1>2
  <1> QED
    BY <1>3

\* Among fewer variables than there are headers, one suffix is free, and
\* FreeVariable is not in use.
LEMMA FreeVariableIsFree ==
  ASSUME NEW b, IsName(b), NEW used, IsFiniteSet(used), Many \in Nat, Cardinality(used) < Many
  PROVE  FreeVariable(b, used) \notin used
  <1>1. CASE b \notin used
    BY <1>1 DEF FreeVariable
  <1>2. CASE b \in used
    <2> DEFINE free == {k \in 1 .. Many : Append(b, k) \notin used}
               id == [k \in free |-> k]
               f == [k \in 1 .. Many |-> Append(b, k)]
    <2>1. free # {}
      <3> SUFFICES ASSUME free = {} PROVE FALSE
        OBVIOUS
      <3>1. f \in [1 .. Many -> used]
        OBVIOUS
      <3>2. IsFiniteSet(1 .. Many) /\ Cardinality(1 .. Many) = Many
        BY FS_Interval
      <3>3. \E x, y \in 1 .. Many : x # y /\ f[x] = f[y]
        <4> HIDE DEF f
        <4> QED
          BY <3>1, <3>2, FS_PigeonHole
      <3> QED
        BY <3>3, SuffixTellsApart
    <2>2. \E x \in free : \A y \in free : id[x] <= id[y]
      <3>1. id \in [free -> Nat]
        OBVIOUS
      <3> HIDE DEF free, id
      <3> QED
        BY <2>1, <3>1, LeastOf
    <2>3. PICK k \in free : \A y \in free : k <= y
      BY <2>2
    <2>4. \A i \in 1 .. k - 1 : Append(b, i) \in used
      BY <2>3
    <2> DEFINE n == CHOOSE k_1 \in 1 .. Many : /\ Append(b, k_1) \notin used
                                              /\ \A i \in 1 .. k_1 - 1 : Append(b, i) \in used
    <2>5. Append(b, n) \notin used
      BY <2>3, <2>4
    <2> QED
      BY <1>2, <2>5 DEF FreeVariable, Many
  <1> QED
    BY <1>1, <1>2

\* ... and which.
HeaderSet == ToSet(HeaderNames)

\* Each has one place in the order of the map.
LEMMA HeadersAre ==
  /\ Many \in Nat /\ DOMAIN HeaderNames = 1 .. Many
  /\ HeaderSet = {HeaderNames[i] : i \in 1 .. Many}
  /\ \A i \in 1 .. Many : IsName(Base[HeaderNames[i]])
  /\ \A i, j \in 1 .. Many : HeaderNames[i] = HeaderNames[j] => i = j
  <1>1. Many \in Nat /\ DOMAIN HeaderNames = 1 .. Many
    BY NamesInOrder DEF Many
  <1> QED
    BY <1>1, NamesInOrder, BasesAreNames DEF HeaderSet, ToSet, IsName

\* The recursion of VariablesOf, up to the header m.
UpTo(v, m, headers) ==
  v = [n \in 0 .. m |->
         IF n = 0 THEN <<>>
         ELSE IF HeaderNames[n] \in headers THEN WithVariable(v[n - 1], HeaderNames[n])
         ELSE v[n - 1]]

\* A function that solves it exists, by induction on the headers.
LEMMA UpToExists == ASSUME NEW headers PROVE \E v : UpTo(v, Many, headers)
  <1> DEFINE T == {m \in 0 .. Many : \E v : UpTo(v, m, headers)}
  <1>1. 0 \in T
    <2>1. UpTo([n \in 0 .. 0 |-> <<>>], 0, headers)
      BY DEF UpTo
    <2> QED
      BY <2>1, HeadersAre
  <1>2. ASSUME NEW m \in 1 .. Many, m - 1 \in T PROVE m \in T
    <2>1. PICK v : UpTo(v, m - 1, headers)
      BY <1>2
    <2> DEFINE w == [n \in 0 .. m |->
                       IF n = m
                       THEN IF HeaderNames[m] \in headers
                            THEN WithVariable(v[m - 1], HeaderNames[m]) ELSE v[m - 1]
                       ELSE v[n]]
    <2>2. \A n \in 0 .. m - 1 : w[n] = v[n]
      BY HeadersAre
    <2>3. \A n \in 1 .. m - 1 :
            v[n] = IF HeaderNames[n] \in headers THEN WithVariable(v[n - 1], HeaderNames[n])
                   ELSE v[n - 1]
      <3>1. \A n \in 0 .. m - 1 :
              v[n] = IF n = 0 THEN <<>>
                     ELSE IF HeaderNames[n] \in headers THEN WithVariable(v[n - 1], HeaderNames[n])
                     ELSE v[n - 1]
        BY <2>1 DEF UpTo
      <3>2. \A n \in 1 .. m - 1 : n \in 0 .. m - 1 /\ n # 0
        BY HeadersAre
      <3> QED
        BY <3>1, <3>2
    <2>4. v[0] = <<>>
      BY <2>1, HeadersAre DEF UpTo
    <2>5. UpTo(w, m, headers)
      BY <2>2, <2>3, <2>4, HeadersAre DEF UpTo
    <2> QED
      BY <2>5
  <1> HIDE DEF T
  <1>3. Many \in T
    BY <1>1, <1>2, HeadersAre, Counting DEF T
  <1> QED
    BY <1>3 DEF T

\* The variables of the headers up to n: one for each, each its own.
OneEachUpTo(v, n, headers) ==
  /\ v = [h \in DOMAIN v |-> v[h]]
  /\ DOMAIN v = {HeaderNames[i] : i \in 1 .. n} \cap headers
  /\ \A g, h \in DOMAIN v : v[g] = v[h] => g = h
  /\ IsFiniteSet(Range(v)) /\ Cardinality(Range(v)) <= n

\* The next header leaves them so.
LEMMA OneMore ==
  ASSUME NEW headers, NEW n \in 1 .. Many, NEW v, OneEachUpTo(v, n - 1, headers),
         HeaderNames[n] \in headers
  PROVE  OneEachUpTo(WithVariable(v, HeaderNames[n]), n, headers)
  <1> DEFINE h == HeaderNames[n]
             x == FreeVariable(Base[h], Range(v))
             w == WithVariable(v, h)
  <1>1. h \notin DOMAIN v
    BY HeadersAre DEF OneEachUpTo
  <1>2. x \notin Range(v)
    <2>1. IsFiniteSet(Range(v)) /\ Cardinality(Range(v)) < Many
      <3>1. IsFiniteSet(Range(v)) /\ Cardinality(Range(v)) <= n - 1
        BY DEF OneEachUpTo
      <3>2. Cardinality(Range(v)) \in Nat
        BY <3>1, FS_CardinalityType
      <3> QED
        BY <3>1, <3>2, HeadersAre
    <2> QED
      BY <2>1, HeadersAre, FreeVariableIsFree
  <1> HIDE DEF x
  <1>3. /\ w = [g \in DOMAIN w |-> w[g]] /\ DOMAIN w = DOMAIN v \cup {h}
        /\ w[h] = x /\ \A g \in DOMAIN v : w[g] = v[g]
    BY <1>1 DEF WithVariable, x
  <1>4. Range(w) = Range(v) \cup {x}
    <2> HIDE DEF w
    <2> QED
      BY <1>3 DEF Range
  <1>5. \A g \in DOMAIN v : v[g] # x
    BY <1>2 DEF Range
  <1>6. \A f, g \in DOMAIN w : w[f] = w[g] => f = g
    <2> HIDE DEF w, h
    <2> QED
      BY <1>3, <1>5 DEF OneEachUpTo
  <1>7. IsFiniteSet(Range(w)) /\ Cardinality(Range(w)) <= n
    <2>1. IsFiniteSet(Range(v)) /\ Cardinality(Range(v)) <= n - 1 /\ Cardinality(Range(v)) \in Nat
      BY FS_CardinalityType DEF OneEachUpTo
    <2>2. IsFiniteSet(Range(v) \cup {x})
          /\ Cardinality(Range(v) \cup {x}) = Cardinality(Range(v)) + 1
      BY <1>2, <2>1, FS_AddElement
    <2> QED
      BY <1>4, <2>1, <2>2, HeadersAre
  <1>8. DOMAIN w = {HeaderNames[i] : i \in 1 .. n} \cap headers
    <2>1. 1 .. n = (1 .. n - 1) \cup {n}
      BY HeadersAre
    <2>2. DOMAIN v = {HeaderNames[i] : i \in 1 .. n - 1} \cap headers
      BY DEF OneEachUpTo
    <2> HIDE DEF w
    <2> QED
      BY <1>3, <2>1, <2>2
  <1> QED
    BY <1>3, <1>6, <1>7, <1>8 DEF OneEachUpTo

\* VariablesOf gives each header a variable of its own, whatever their names.
LEMMA VariableOfItsOwn ==
  ASSUME NEW headers \in SUBSET HeaderSet
  PROVE  /\ DOMAIN VariablesOf(headers) = headers
         /\ \A g, h \in headers : VariablesOf(headers)[g] = VariablesOf(headers)[h] => g = h
  <1> DEFINE v == CHOOSE v_1 : UpTo(v_1, Many, headers)
  <1>1. UpTo(v, Many, headers)
    BY UpToExists
  <1>2. VariablesOf(headers) = v[Many]
    BY DEF VariablesOf, UpTo, Many
  <1> HIDE DEF v
  <1> DEFINE T == {n \in 0 .. Many : OneEachUpTo(v[n], n, headers)}
  <1>3. 0 \in T
    <2>1. v[0] = <<>> /\ 0 \in 0 .. Many
      BY <1>1, HeadersAre DEF UpTo
    <2>2. /\ DOMAIN <<>> = {} /\ <<>> = [h \in DOMAIN <<>> |-> <<>>[h]]
          /\ Range(<<>>) = {}
      BY DEF Range
    <2>3. {HeaderNames[i] : i \in 1 .. 0} = {}
      OBVIOUS
    <2> QED
      BY <2>1, <2>2, <2>3, FS_EmptySet DEF OneEachUpTo
  <1>4. ASSUME NEW n \in 1 .. Many, n - 1 \in T PROVE n \in T
    <2>1. OneEachUpTo(v[n - 1], n - 1, headers)
      BY <1>4
    <2>2. v[n] = IF HeaderNames[n] \in headers THEN WithVariable(v[n - 1], HeaderNames[n])
                 ELSE v[n - 1]
      BY <1>1, HeadersAre DEF UpTo
    <2>3. CASE HeaderNames[n] \in headers
      BY <2>1, <2>2, <2>3, OneMore, HeadersAre
    <2>4. CASE HeaderNames[n] \notin headers
      <3>1. {HeaderNames[i] : i \in 1 .. n - 1} \cap headers
              = {HeaderNames[i] : i \in 1 .. n} \cap headers
        <4>1. 1 .. n = (1 .. n - 1) \cup {n}
          BY HeadersAre
        <4> QED
          BY <4>1, <2>4
      <3>2. Cardinality(Range(v[n - 1])) <= n
        <4>1. IsFiniteSet(Range(v[n - 1])) /\ Cardinality(Range(v[n - 1])) <= n - 1
              /\ Cardinality(Range(v[n - 1])) \in Nat
          BY <2>1, FS_CardinalityType DEF OneEachUpTo
        <4> QED
          BY <4>1, HeadersAre
      <3> QED
        BY <2>1, <2>2, <2>4, <3>1, <3>2, HeadersAre DEF OneEachUpTo
    <2> QED
      BY <2>3, <2>4
  <1> HIDE DEF T
  <1>5. Many \in T
    BY <1>3, <1>4, HeadersAre, Counting DEF T
  <1> QED
    BY <1>2, <1>5, HeadersAre DEF T, OneEachUpTo

\* What generate made is of a definition ...
Made ==
  artifact # NoArtifact =>
    /\ artifact.of.headers \subseteq HeaderSet
    /\ artifact.variable = VariablesOf(artifact.of.headers)

\* ... and what a launcher or a wrapper started is what it runs under some variables.
Ran ==
  gateway.by \in {"script", "wrapper"} =>
    /\ artifact # NoArtifact
    /\ gateway.given \in Extras
    /\ \E vars \in [Asked -> {"set", "empty", "unset"}] :
         gateway.result = IF gateway.by = "script" THEN ByScript(gateway.given, vars)
                          ELSE ByWrapper(gateway.given, vars)

\* Together they are inductive.
GatewayInv == Made /\ Ran

\* Nothing changes what generate made, and a start is one of that.
LEMMA GatewayInvHolds == GatewaySpec => []GatewayInv
  <1>1. GatewayInit => GatewayInv
    BY DEF GatewayInit, GatewayInv, Made, Ran
  <1>2. ASSUME GatewayInv, [GatewayNext]_gatewayVars PROVE GatewayInv'
    <2>1. CASE UNCHANGED gatewayVars
      <3>1. UNCHANGED artifact /\ UNCHANGED gateway
        BY <2>1 DEF gatewayVars
      <3>2. Made'
        BY <1>2, <3>1 DEF GatewayInv, Made
      <3>3. ASSUME gateway.by \in {"script", "wrapper"} PROVE Ran'
        <4>1. PICK vars \in [Asked -> {"set", "empty", "unset"}] :
                gateway.result = IF gateway.by = "script" THEN ByScript(gateway.given, vars)
                                 ELSE ByWrapper(gateway.given, vars)
          BY <1>2, <3>3 DEF GatewayInv, Ran
        <4>2. Asked' = Asked /\ ByScript(gateway.given, vars)' = ByScript(gateway.given, vars)
              /\ ByWrapper(gateway.given, vars)' = ByWrapper(gateway.given, vars)
          BY <3>1 DEF Asked, ByScript, ByWrapper, Launch, FindsItself, HeadersFrom
        <4> QED
          BY <1>2, <3>1, <4>1, <4>2 DEF GatewayInv, Ran
      <3> QED
        BY <3>1, <3>2, <3>3 DEF GatewayInv, Ran
    <2>2. CASE GenerateLauncher
      <3>1. gateway'.by = "none"
        BY <2>2 DEF GenerateLauncher
      <3>2. PICK d \in Definitions, s \in ServerNames, b \in BOOLEAN :
              artifact' = [name |-> s, bundled |-> b, of |-> [env |-> d.env, headers |-> d.headers],
                           variable |-> VariablesOf(d.headers)]
        BY <2>2 DEF GenerateLauncher, Selected, Definitions
      <3>3. d.headers \subseteq HeaderSet
        BY DEF Definitions, HeaderSet
      <3> QED
        BY <3>1, <3>2, <3>3 DEF GatewayInv, Made, Ran
    <2>3. CASE UserStarts
      BY <1>2, <2>3 DEF UserStarts, GatewayInv, Made, Ran
    <2>4. CASE LauncherStarts
      <3>1. PICK a \in Extras, vars \in [Asked -> {"set", "empty", "unset"}] :
              gateway' \in {[by |-> "script", given |-> a, result |-> ByScript(a, vars)],
                           [by |-> "wrapper", given |-> a, result |-> ByWrapper(a, vars)]}
        BY <2>4 DEF LauncherStarts
      <3>2. UNCHANGED artifact /\ artifact # NoArtifact
        BY <2>4 DEF LauncherStarts
      <3>3. Made'
        BY <1>2, <3>2 DEF GatewayInv, Made
      <3>4. /\ gateway'.given = a
            /\ gateway'.result = IF gateway'.by = "script" THEN ByScript(a, vars)
                                ELSE ByWrapper(a, vars)
        BY <3>1
      <3>5. Asked' = Asked /\ ByScript(a, vars)' = ByScript(a, vars)
            /\ ByWrapper(a, vars)' = ByWrapper(a, vars)
        BY <3>2 DEF Asked, ByScript, ByWrapper, Launch, FindsItself, HeadersFrom
      <3> QED
        BY <3>2, <3>3, <3>4, <3>5 DEF GatewayInv, Ran
    <2> QED
      BY <1>2, <2>1, <2>2, <2>3, <2>4 DEF GatewayNext
  <1> QED
    BY <1>1, <1>2, PTL DEF GatewaySpec

\* What Dispatch makes of a launcher's command line.
LEMMA Launching ==
  ASSUME NEW a \in Extras, NEW env, NEW headers
  PROVE  LET l == Launched(a)
             r == Dispatch(l, env, headers)
         IN /\ "stdio" \in Chosen(l) /\ Wrong(l) # "stdio"
            /\ OutputOf(l) = IF l.output # "none" THEN l.output ELSE "sse"
            /\ Wrong(l) # "nothing" => r = Refusal(Wrong(l))
            /\ Wrong(l) = "nothing" =>
                 r = [what |-> "stdio", output |-> OutputOf(l), cors |-> Cors(l), env |-> env,
                      headers |-> headers]
  <1> DEFINE l == Launched(a)
  <1>1. PICK o \in {"none", "ws"}, x \in {"none", "word"}, t \in {"none", "zero"} :
          a = [NothingGiven EXCEPT !.output = o, !.input["sse"] = x, !.timeout = t]
    BY DEF Extras
  <1>2. /\ l.input = [i \in Inputs |-> IF i = "stdio" THEN "word"
                                       ELSE IF i = "sse" THEN x ELSE "none"]
        /\ l.output = a.output
    BY <1>1 DEF Launched, NothingGiven, Inputs
  <1>3. "stdio" \in Chosen(l) /\ l.input["stdio"] = "word"
    BY <1>2 DEF Chosen, Inputs
  <1> HIDE DEF l
  <1>4. OutputOf(l) = IF l.output # "none" THEN l.output ELSE "sse"
    BY <1>3 DEF OutputOf, DefaultOutput
  <1>5. Wrong(l) # "stdio"
    BY DEF Wrong
  <1>6. Wrong(l) = "nothing" => Chosen(l) = {"stdio"}
    BY <1>3 DEF Wrong
  <1>7. Wrong(l) = "nothing" => (CHOOSE i \in Chosen(l) : TRUE) = "stdio"
    BY <1>6
  <1> QED
    BY <1>3, <1>4, <1>5, <1>7 DEF Dispatch, l

\* The headers of a launcher, under variables that are all there.
LEMMA HeadersOwn ==
  ASSUME Made, artifact # NoArtifact, NEW vars
  PROVE  /\ \A g, h \in DOMAIN HeadersFrom(vars) :
              HeadersFrom(vars)[g] = HeadersFrom(vars)[h] => g = h
         /\ (\A v \in Asked : vars[v] = "set") =>
              DOMAIN HeadersFrom(vars) = artifact.of.headers
  <1>1. /\ DOMAIN artifact.variable = artifact.of.headers
        /\ \A g, h \in artifact.of.headers :
             artifact.variable[g] = artifact.variable[h] => g = h
    BY VariableOfItsOwn DEF Made
  <1>2. \A g \in artifact.of.headers : artifact.variable[g] \in Asked
    BY <1>1 DEF Asked, Range
  <1> QED
    BY <1>1, <1>2 DEF HeadersFrom

(***************************************************************************)
(* A launcher or wrapper starts the gateway of its definition with every   *)
(* environment entry, and every header from a variable of its own: for any *)
(* headers, whatever sanitizing makes of their names, any keys and any     *)
(* server but one with the name of the bundled binary.                     *)
(***************************************************************************)
THEOREM LaunchersRunAlike == GatewaySpec => []LauncherRunsAlike
  <1>1. GatewayInv => LauncherRunsAlike
    <2> SUFFICES ASSUME Made, Ran, gateway.by \in {"script", "wrapper"}, artifact.name # "mcpway"
                 PROVE  LauncherRunsAlike
      BY DEF GatewayInv, LauncherRunsAlike
    <2>1. PICK vars \in [Asked -> {"set", "empty", "unset"}] :
            gateway.result = IF gateway.by = "script" THEN ByScript(gateway.given, vars)
                             ELSE ByWrapper(gateway.given, vars)
      BY DEF Ran
    <2>2. artifact # NoArtifact /\ gateway.given \in Extras
      BY DEF Ran
    <2> DEFINE a == Launched(gateway.given)
               alone == \A v \in Asked : vars[v] = "set"
               r == Launch(gateway.given, vars)
    <2>3. \/ gateway.result = Refusal("unset")
          \/ gateway.result = r /\ (gateway.by = "script" => alone)
      BY <2>1 DEF ByScript, ByWrapper, FindsItself
    <2>4. r \in {Refusal(Wrong(a)),
                 [what |-> "stdio", output |-> OutputOf(a), cors |-> Cors(a),
                  env |-> [k \in artifact.of.env |-> vars[k]], headers |-> HeadersFrom(vars)]}
          /\ OutputOf(a) = (IF a.output # "none" THEN a.output ELSE "sse")
          /\ Wrong(a) # "stdio"
      BY <2>2, Launching DEF Launch
    <2> HIDE DEF a, alone, r
    <2>5. CASE gateway.result \in {Refusal("unset"), Refusal(Wrong(a))}
      <3>1. gateway.result.what \in {"unset", Wrong(a)}
        BY <2>5 DEF Refusal
      <3> QED
        BY <3>1, <2>4 DEF LauncherRunsAlike, a
    <2>6. CASE /\ gateway.result = [what |-> "stdio", output |-> OutputOf(a), cors |-> Cors(a),
                                    env |-> [k \in artifact.of.env |-> vars[k]],
                                    headers |-> HeadersFrom(vars)]
               /\ gateway.by = "script" => alone
      <3>1. /\ gateway.result.what = "stdio" /\ gateway.result.output = OutputOf(a)
            /\ DOMAIN gateway.result.env = artifact.of.env
            /\ gateway.result.headers = HeadersFrom(vars)
        BY <2>6
      <3> QED
        BY <3>1, <2>2, <2>4, <2>6, HeadersOwn DEF LauncherRunsAlike, a, alone
    <2> QED
      BY <2>3, <2>4, <2>5, <2>6
  <1> QED
    BY <1>1, GatewayInvHolds, PTL
=============================================================================
