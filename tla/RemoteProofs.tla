----------------------------- MODULE RemoteProofs ----------------------------
(***************************************************************************)
(* Proofs about what is kept of a login away from the daemon: the web      *)
(* gateway's pool of daemon sessions (WebSessions), a frontend's session   *)
(* (ClientSession) and the sessions of SSH connections (RemoteSession).    *)
(***************************************************************************)
EXTENDS WebSessions, ClientSession, RemoteSession, FiniteSetTheorems, WellFoundedInduction, TLAPS

TabStages == {"out", "gone", "proved", "joined", "parked", "attached"}
TabRecs == [at : TabStages, user : Subjects \union {"none"}, sess : Tabs \union {"none"}]
Entries == [sess : Tabs \union {"none"}, refs : Nat]

WebTypes ==
  /\ tab \in [Tabs -> TabRecs] /\ pool \in [Subjects -> Entries]
  /\ webToken \in [Tabs -> {"none", "valid", "stranded", "revoked"}]
  /\ leaving \subseteq Tabs

\* A tab that has not logged in has no token, a token that was not minted is nobody's, and
\* the token of a login that has not joined is valid, due for no logout and in no entry.
TabFresh(t) ==
  /\ tab[t].at # "out" => tab[t].at = "gone" \/ tab[t].user \in Subjects
  /\ tab[t].at = "out" \/ webToken[t] = "none" => t \notin leaving /\ \A u \in Subjects : pool[u].sess # t
  /\ tab[t].at = "out" => webToken[t] = "none"
  /\ tab[t].at = "proved" =>
       webToken[t] = "valid" /\ t \notin leaving /\ \A u \in Subjects : pool[u].sess # t

\* What a browser session holds is its user's pooled session, until the pool is closed.
TabHolds(t) ==
  gateway # "closed" /\ Holding(t) => tab[t].sess \in Tabs /\ pool[tab[t].user].sess = tab[t].sess

\* An entry counts its holders, is one user's alone, and its session is logged in for good.
EntryStands(u) ==
  pool[u].sess # "none" =>
    /\ gateway # "closed"
    /\ pool[u].refs = Cardinality(Holders(u)) /\ pool[u].refs > 0
    /\ webToken[pool[u].sess] = "valid" /\ pool[u].sess \notin leaving
    /\ \A v \in Subjects : pool[v].sess = pool[u].sess => v = u

EntryGone(u) == pool[u].sess = "none" => pool[u] = NoEntry

\* The inductive invariant of the pool.
WebSafe ==
  /\ WebTypes
  /\ \A t \in Tabs : TabFresh(t) /\ TabHolds(t)
  /\ \A u \in Subjects : EntryStands(u) /\ EntryGone(u)
  /\ TokenIsAccounted

LEMMA LoginProvesKeeps ==
  ASSUME WebSafe, NEW t \in Tabs, NEW u \in Subjects, LoginProves(t, u)
  PROVE  WebSafe'
<1> USE DEF WebSafe
<1>1. PICK r : r = [at |-> "proved", user |-> u, sess |-> "none"]
  OBVIOUS
<1>2. tab[t] \in TabRecs
  BY DEF WebTypes
<1>3. r \in TabRecs /\ r.at = "proved" /\ r.user = u
  BY <1>1, <1>2 DEF TabRecs, TabStages, Away
<1>4. tab' = [tab EXCEPT ![t] = r] /\ UNCHANGED <<pool, gateway>>
  BY <1>1 DEF LoginProves
<1>5. tab'[t] = r /\ \A e \in Tabs \ {t} : tab'[e] = tab[e]
  BY <1>4 DEF WebTypes
<1>6. \A v \in Subjects : Holders(v)' = Holders(v)
  BY <1>3, <1>4, <1>5 DEF LoginProves, Holders, Holding
<1>7. WebTypes'
  BY <1>3, <1>4 DEF LoginProves, WebTypes
<1>8. ASSUME NEW e \in Tabs PROVE TabFresh(e)' /\ TabHolds(e)'
  BY <1>2, <1>3, <1>4, <1>5 DEF LoginProves, WebTypes, TabRecs, TabFresh, TabHolds, Holding
<1>9. ASSUME NEW v \in Subjects PROVE EntryStands(v)' /\ EntryGone(v)'
  <2>1. pool[v].sess \in Tabs \union {"none"}
    BY DEF WebTypes, Entries
  <2> QED
    BY <1>3, <1>4, <1>6, <2>1 DEF LoginProves, WebTypes, TabFresh, EntryStands, EntryGone, NoEntry
<1>10. TokenIsAccounted'
  BY <1>3, <1>4, <1>5 DEF LoginProves, WebTypes, TabFresh, TokenIsAccounted
<1> QED
  BY <1>7, <1>8, <1>9, <1>10

LEMMA LoginAnswerLostKeeps ==
  ASSUME WebSafe, NEW t \in Tabs, NEW u \in Subjects, LoginAnswerLost(t, u)
  PROVE  WebSafe'
<1> USE DEF WebSafe
<1>1. PICK r : r = [Away EXCEPT !.at = "gone"]
  OBVIOUS
<1>2. tab[t] \in TabRecs
  BY DEF WebTypes
<1>3. r \in TabRecs /\ r.at = "gone"
  BY <1>1, <1>2 DEF TabRecs, TabStages, Away
<1>4. tab' = [tab EXCEPT ![t] = r] /\ UNCHANGED <<pool, gateway>>
  BY <1>1 DEF LoginAnswerLost, Away
<1>5. tab'[t] = r /\ \A e \in Tabs \ {t} : tab'[e] = tab[e]
  BY <1>4 DEF WebTypes
<1>6. \A v \in Subjects : Holders(v)' = Holders(v)
  BY <1>3, <1>4, <1>5 DEF LoginAnswerLost, Holders, Holding
<1>7. WebTypes'
  BY <1>3, <1>4 DEF LoginAnswerLost, WebTypes
<1>8. ASSUME NEW e \in Tabs PROVE TabFresh(e)' /\ TabHolds(e)'
  BY <1>2, <1>3, <1>4, <1>5 DEF LoginAnswerLost, WebTypes, TabRecs, TabFresh, TabHolds, Holding
<1>9. ASSUME NEW v \in Subjects PROVE EntryStands(v)' /\ EntryGone(v)'
  <2>1. pool[v].sess \in Tabs \union {"none"}
    BY DEF WebTypes, Entries
  <2> QED
    BY <1>3, <1>4, <1>6, <2>1 DEF LoginAnswerLost, WebTypes, TabFresh, EntryStands, EntryGone, NoEntry
<1>10. TokenIsAccounted'
  BY <1>3, <1>4, <1>5 DEF LoginAnswerLost, WebTypes, TabFresh, TokenIsAccounted
<1> QED
  BY <1>7, <1>8, <1>9, <1>10

LEMMA SubjectRefusedKeeps ==
  ASSUME WebSafe, NEW t \in Tabs, SubjectRefused(t)
  PROVE  WebSafe'
<1> USE DEF WebSafe
<1>1. PICK r : r = [Away EXCEPT !.at = "gone"]
  OBVIOUS
<1>2. tab[t] \in TabRecs
  BY DEF WebTypes
<1>3. r \in TabRecs /\ r.at = "gone"
  BY <1>1, <1>2 DEF TabRecs, TabStages, Away
<1>4. tab' = [tab EXCEPT ![t] = r] /\ UNCHANGED <<pool, gateway>>
  BY <1>1 DEF SubjectRefused, Away
<1>5. tab'[t] = r /\ \A e \in Tabs \ {t} : tab'[e] = tab[e]
  BY <1>4 DEF WebTypes
<1>6. \A v \in Subjects : Holders(v)' = Holders(v)
  BY <1>3, <1>4, <1>5 DEF SubjectRefused, Holders, Holding
<1>7. WebTypes'
  BY <1>3, <1>4 DEF SubjectRefused, WebTypes
<1>8. ASSUME NEW e \in Tabs PROVE TabFresh(e)' /\ TabHolds(e)'
  BY <1>2, <1>3, <1>4, <1>5 DEF SubjectRefused, WebTypes, TabRecs, TabFresh, TabHolds, Holding
<1>9. ASSUME NEW v \in Subjects PROVE EntryStands(v)' /\ EntryGone(v)'
  <2>1. pool[v].sess \in Tabs \union {"none"}
    BY DEF WebTypes, Entries
  <2> QED
    BY <1>3, <1>4, <1>6, <2>1 DEF SubjectRefused, WebTypes, TabFresh, EntryStands, EntryGone, NoEntry
<1>10. TokenIsAccounted'
  BY <1>3, <1>4, <1>5 DEF SubjectRefused, WebTypes, TabFresh, TokenIsAccounted
<1> QED
  BY <1>7, <1>8, <1>9, <1>10

LEMMA StashParksKeeps ==
  ASSUME WebSafe, NEW t \in Tabs, StashParks(t)
  PROVE  WebSafe'
<1> USE DEF WebSafe
<1>1. PICK r : r = [tab[t] EXCEPT !.at = "parked"]
  OBVIOUS
<1>2. tab[t] \in TabRecs
  BY DEF WebTypes
<1>3. r \in TabRecs /\ r.at = "parked" /\ r.user = tab[t].user /\ r.sess = tab[t].sess
  BY <1>1, <1>2 DEF TabRecs, TabStages, Away
<1>4. tab' = [tab EXCEPT ![t] = r] /\ UNCHANGED <<pool, gateway>>
  BY <1>1 DEF StashParks
<1>5. tab'[t] = r /\ \A e \in Tabs \ {t} : tab'[e] = tab[e]
  BY <1>4 DEF WebTypes
<1>6. \A v \in Subjects : Holders(v)' = Holders(v)
  BY <1>3, <1>4, <1>5 DEF StashParks, Holders, Holding
<1>7. WebTypes'
  BY <1>3, <1>4 DEF StashParks, WebTypes
<1>8. ASSUME NEW e \in Tabs PROVE TabFresh(e)' /\ TabHolds(e)'
  BY <1>2, <1>3, <1>4, <1>5 DEF StashParks, WebTypes, TabRecs, TabFresh, TabHolds, Holding
<1>9. ASSUME NEW v \in Subjects PROVE EntryStands(v)' /\ EntryGone(v)'
  <2>1. pool[v].sess \in Tabs \union {"none"}
    BY DEF WebTypes, Entries
  <2> QED
    BY <1>3, <1>4, <1>6, <2>1 DEF StashParks, WebTypes, TabFresh, EntryStands, EntryGone, NoEntry
<1>10. TokenIsAccounted'
  BY <1>3, <1>4, <1>5 DEF StashParks, WebTypes, TabFresh, TokenIsAccounted
<1> QED
  BY <1>7, <1>8, <1>9, <1>10

LEMMA TakesParkedKeeps ==
  ASSUME WebSafe, NEW t \in Tabs, TakesParked(t)
  PROVE  WebSafe'
<1> USE DEF WebSafe
<1>1. PICK r : r = [tab[t] EXCEPT !.at = "attached"]
  OBVIOUS
<1>2. tab[t] \in TabRecs
  BY DEF WebTypes
<1>3. r \in TabRecs /\ r.at = "attached" /\ r.user = tab[t].user /\ r.sess = tab[t].sess
  BY <1>1, <1>2 DEF TabRecs, TabStages, Away
<1>4. tab' = [tab EXCEPT ![t] = r] /\ UNCHANGED <<pool, gateway>>
  BY <1>1 DEF TakesParked
<1>5. tab'[t] = r /\ \A e \in Tabs \ {t} : tab'[e] = tab[e]
  BY <1>4 DEF WebTypes
<1>6. \A v \in Subjects : Holders(v)' = Holders(v)
  BY <1>3, <1>4, <1>5 DEF TakesParked, Holders, Holding
<1>7. WebTypes'
  BY <1>3, <1>4 DEF TakesParked, WebTypes
<1>8. ASSUME NEW e \in Tabs PROVE TabFresh(e)' /\ TabHolds(e)'
  BY <1>2, <1>3, <1>4, <1>5 DEF TakesParked, WebTypes, TabRecs, TabFresh, TabHolds, Holding
<1>9. ASSUME NEW v \in Subjects PROVE EntryStands(v)' /\ EntryGone(v)'
  <2>1. pool[v].sess \in Tabs \union {"none"}
    BY DEF WebTypes, Entries
  <2> QED
    BY <1>3, <1>4, <1>6, <2>1 DEF TakesParked, WebTypes, TabFresh, EntryStands, EntryGone, NoEntry
<1>10. TokenIsAccounted'
  BY <1>3, <1>4, <1>5 DEF TakesParked, WebTypes, TabFresh, TokenIsAccounted
<1> QED
  BY <1>7, <1>8, <1>9, <1>10

LEMMA LogsOutKeeps ==
  ASSUME WebSafe, NEW x \in Tabs, LogsOut(x)
  PROVE  WebSafe'
<1> USE DEF WebSafe
<1>1. UNCHANGED <<tab, pool, gateway>> /\ x \in leaving /\ leaving' = leaving \ {x}
  BY DEF LogsOut
<1>2. PICK w \in {"revoked", "stranded"} : webToken' = [webToken EXCEPT ![x] = w]
  BY DEF LogsOut
<1>3. \A v \in Subjects : Holders(v)' = Holders(v)
  BY <1>1 DEF Holders, Holding
<1>4. webToken'[x] = w /\ \A e \in Tabs \ {x} : webToken'[e] = webToken[e]
  BY <1>2 DEF WebTypes
<1>5. WebTypes'
  BY <1>1, <1>2 DEF WebTypes
<1>6. ASSUME NEW e \in Tabs PROVE TabFresh(e)' /\ TabHolds(e)'
  BY <1>1, <1>2, <1>4 DEF TabFresh, TabHolds, Holding
<1>7. ASSUME NEW v \in Subjects PROVE EntryStands(v)' /\ EntryGone(v)'
  <2>1. pool[v].sess \in Tabs \union {"none"}
    BY DEF WebTypes, Entries
  <2> QED
    BY <1>1, <1>3, <1>4, <2>1 DEF EntryStands, EntryGone, NoEntry
<1>8. TokenIsAccounted'
  BY <1>1, <1>2, <1>4 DEF TokenIsAccounted
<1> QED
  BY <1>5, <1>6, <1>7, <1>8

LEMMA StopsServingKeeps ==
  ASSUME WebSafe, StopsServing
  PROVE  WebSafe'
<1> USE DEF WebSafe
<1>1. UNCHANGED <<tab, pool, leaving, webToken>> /\ gateway = "serving" /\ gateway' = "stopping"
  BY DEF StopsServing
<1>2. \A v \in Subjects : Holders(v)' = Holders(v)
  BY <1>1 DEF Holders, Holding
<1> QED
  BY <1>1, <1>2 DEF WebTypes, TabFresh, TabHolds, Holding, EntryStands, EntryGone, NoEntry, TokenIsAccounted

LEMMA ClosePoolKeeps ==
  ASSUME WebSafe, ClosePool
  PROVE  WebSafe'
<1> USE DEF WebSafe
<1>1. UNCHANGED <<tab, webToken>> /\ gateway' = "closed" /\ pool' = [u \in Subjects |-> NoEntry]
  BY DEF ClosePool
<1>2. ASSUME NEW x \in Tabs PROVE x \in leaving' <=> x \in leaving \/ \E u \in Subjects : pool[u].sess = x
  <2>1. \A u \in Subjects : Pooled(u) <=> pool[u].sess # "none"
    BY DEF Pooled, EntryGone, NoEntry
  <2>2. x # "none"
    BY WebAssumption
  <2> QED
    BY <2>1, <2>2 DEF ClosePool
<1>3. NoEntry \in Entries /\ NoEntry.sess = "none"
  BY DEF NoEntry, Entries
<1>4. WebTypes'
  <2>1. ASSUME NEW u \in Subjects, Pooled(u) PROVE pool[u].sess \in Tabs
    BY <2>1 DEF WebTypes, Entries, Pooled, EntryGone, NoEntry
  <2> QED
    BY <1>1, <1>3, <2>1 DEF ClosePool, WebTypes
<1>5. ASSUME NEW e \in Tabs PROVE TabFresh(e)' /\ TabHolds(e)'
  <2>1. e # "none"
    BY WebAssumption
  <2> QED
    BY <1>1, <1>2, <1>3, <2>1 DEF TabFresh, TabHolds
<1>6. ASSUME NEW v \in Subjects PROVE EntryStands(v)' /\ EntryGone(v)'
  BY <1>1, <1>3 DEF EntryStands, EntryGone
<1>7. TokenIsAccounted'
  BY <1>1, <1>2 DEF TokenIsAccounted
<1> QED
  BY <1>4, <1>5, <1>6, <1>7


\* A browser session that takes a reference becomes one more holder of its user's session.
LEMMA HoldersGrow ==
  ASSUME WebTypes, NEW t \in Tabs, NEW u \in Subjects, NEW r \in TabRecs, ~Holding(t),
         r.at \in {"joined", "parked", "attached"}, r.user = u, tab' = [tab EXCEPT ![t] = r]
  PROVE  /\ Holders(u)' = Holders(u) \union {t} /\ t \notin Holders(u)
         /\ \A v \in Subjects \ {u} : Holders(v)' = Holders(v)
<1>1. tab'[t] = r /\ \A e \in Tabs \ {t} : tab'[e] = tab[e]
  BY DEF WebTypes
<1> QED
  BY <1>1 DEF Holders, Holding

\* One that leaves is one holder less.
LEMMA HoldersShrink ==
  ASSUME WebTypes, NEW t \in Tabs, NEW u \in Subjects, NEW r \in TabRecs, Holding(t),
         tab[t].user = u, r.at = "gone", tab' = [tab EXCEPT ![t] = r]
  PROVE  /\ Holders(u)' = Holders(u) \ {t} /\ t \in Holders(u)
         /\ \A v \in Subjects \ {u} : Holders(v)' = Holders(v)
<1>1. tab'[t] = r /\ \A e \in Tabs \ {t} : tab'[e] = tab[e]
  BY DEF WebTypes
<1> QED
  BY <1>1 DEF Holders, Holding

LEMMA HoldersFinite ==
  ASSUME NEW u \in Subjects
  PROVE  IsFiniteSet(Holders(u))
<1>1. Holders(u) \subseteq Tabs
  BY DEF Holders
<1> QED
  BY <1>1, FS_Subset, WebAssumption

\* A reference is taken: by a login that finds its user's session pooled, and by a browser
\* that attaches with a ticket alone.
LEMMA ReferenceTaken ==
  ASSUME WebSafe, NEW t \in Tabs, NEW u \in Subjects, NEW r \in TabRecs, gateway # "closed",
         ~Holding(t), pool[u].sess # "none", tab[t].at \in {"out", "proved"},
         r.at \in {"joined", "attached"}, r.user = u, r.sess = pool[u].sess,
         tab' = [tab EXCEPT ![t] = r], pool' = [pool EXCEPT ![u].refs = @ + 1],
         UNCHANGED <<gateway, webToken>>,
         \/ leaving' = leaving /\ tab[t].at = "out"
         \/ leaving' = leaving \union {t} /\ tab[t].at = "proved"
  PROVE  WebSafe'
<1> USE DEF WebSafe
<1>1. tab'[t] = r /\ \A e \in Tabs \ {t} : tab'[e] = tab[e]
  BY DEF WebTypes
<1>2. /\ pool'[u].sess = pool[u].sess /\ pool'[u].refs = pool[u].refs + 1 /\ pool'[u] \in Entries
      /\ \A v \in Subjects \ {u} : pool'[v] = pool[v]
  BY DEF WebTypes, Entries
<1>3. \A v \in Subjects : pool'[v].sess = pool[v].sess
  BY <1>2
<1>4. /\ Holders(u)' = Holders(u) \union {t} /\ t \notin Holders(u)
      /\ \A v \in Subjects \ {u} : Holders(v)' = Holders(v)
  BY HoldersGrow
<1>5. Cardinality(Holders(u)') = Cardinality(Holders(u)) + 1
  <2> PICK S, T : S = Holders(u) /\ T = Holders(u)'
    OBVIOUS
  <2>1. IsFiniteSet(S)
    BY HoldersFinite
  <2>2. T = S \union {t} /\ t \notin S
    BY <1>4
  <2>3. Cardinality(S \union {t}) = Cardinality(S) + 1
    BY <2>1, <2>2, FS_AddElement
  <2> QED
    BY <2>2, <2>3
<1>6. pool[u].refs \in Nat /\ \A v \in Subjects : pool[v].sess \in Tabs \union {"none"}
  BY DEF WebTypes, Entries
<1>7. WebTypes'
  BY <1>2 DEF WebTypes
<1>8. ASSUME NEW e \in Tabs PROVE TabFresh(e)' /\ TabHolds(e)'
  <2>1. TabFresh(e)'
    BY <1>1, <1>3 DEF TabFresh
  <2>2. TabHolds(e)'
    <3>1. CASE e = t
      BY <3>1, <1>1, <1>3, <1>6 DEF TabHolds
    <3>2. CASE e # t
      <4>1. Holding(e) => tab[e].user \in Subjects
        BY DEF TabFresh, Holding
      <4> QED
        BY <3>2, <4>1, <1>1, <1>3 DEF TabHolds, Holding
    <3> QED
      BY <3>1, <3>2
  <2> QED
    BY <2>1, <2>2
<1>9. ASSUME NEW v \in Subjects PROVE EntryStands(v)' /\ EntryGone(v)'
  <2>1. tab[t].at = "proved" => pool[v].sess # t
    BY DEF TabFresh
  <2>2. CASE v = u
    BY <2>1, <2>2, <1>2, <1>3, <1>4, <1>5, <1>6 DEF EntryStands, EntryGone
  <2>3. CASE v # u
    BY <2>1, <2>3, <1>2, <1>3, <1>4 DEF EntryStands, EntryGone, NoEntry
  <2> QED
    BY <2>2, <2>3
<1>10. TokenIsAccounted'
  BY <1>1, <1>3 DEF TokenIsAccounted, TabFresh
<1> QED
  BY <1>7, <1>8, <1>9, <1>10

LEMMA ProvisionKeeps ==
  ASSUME WebSafe, NEW t \in Tabs, NEW u \in Subjects, Provision(t, u)
  PROVE  WebSafe'
<1>1. PICK r : r = [at |-> "attached", user |-> u, sess |-> pool[u].sess]
  OBVIOUS
<1>2. pool[u].sess # "none"
  BY DEF Provision, Pooled, WebSafe, EntryGone
<1>3. r \in TabRecs /\ r.at = "attached" /\ r.user = u /\ r.sess = pool[u].sess
  BY <1>1 DEF TabRecs, TabStages, WebSafe, WebTypes, Entries
<1>4. tab' = [tab EXCEPT ![t] = r] /\ pool' = [pool EXCEPT ![u].refs = @ + 1]
  BY <1>1 DEF Provision
<1>5. /\ UNCHANGED <<gateway, webToken, leaving>> /\ gateway # "closed" /\ tab[t].at = "out"
      /\ ~Holding(t)
  BY DEF Provision, Holding
<1> QED
  BY <1>2, <1>3, <1>4, <1>5, ReferenceTaken

\* A login whose user has no session yet: its own becomes the pooled one.
LEMMA AdoptsKeeps ==
  ASSUME WebSafe, NEW t \in Tabs, NEW u \in Subjects, NEW r \in TabRecs, gateway # "closed",
         tab[t].at = "proved", tab[t].user = u, pool[u] = NoEntry,
         r.at = "joined", r.user = u, r.sess = t,
         tab' = [tab EXCEPT ![t] = r], pool' = [pool EXCEPT ![u] = [sess |-> t, refs |-> 1]],
         UNCHANGED <<gateway, webToken, leaving>>
  PROVE  WebSafe'
<1> USE DEF WebSafe
<1>1. tab'[t] = r /\ \A e \in Tabs \ {t} : tab'[e] = tab[e]
  BY DEF WebTypes
<1>2. PICK n : n = [sess |-> t, refs |-> 1]
  OBVIOUS
<1>3. n \in Entries /\ n.sess = t /\ n.refs = 1 /\ t # "none"
  BY <1>2, WebAssumption DEF Entries
<1>4. pool' = [pool EXCEPT ![u] = n] /\ pool'[u] = n /\ \A v \in Subjects \ {u} : pool'[v] = pool[v]
  BY <1>2 DEF WebTypes
<1>5. ~Holding(t)
  BY DEF Holding
<1>6. Holders(u)' = Holders(u) \union {t} /\ \A v \in Subjects \ {u} : Holders(v)' = Holders(v)
  BY <1>5, HoldersGrow
<1>7. pool[u].sess = "none"
  BY DEF NoEntry
<1>8. \A e \in Tabs : Holding(e) => tab[e].user # u
  BY <1>7, WebAssumption DEF TabHolds
<1>9. Holders(u)' = {t} /\ Cardinality(Holders(u)') = 1
  <2>1. Holders(u) = {}
    BY <1>8 DEF Holders
  <2>2. Holders(u)' = {t}
    BY <2>1, <1>6
  <2>3. Cardinality({t}) = 1
    BY FS_Singleton
  <2> QED
    BY <2>2, <2>3
<1>10. WebTypes'
  BY <1>3, <1>4 DEF WebTypes
<1>11. ASSUME NEW e \in Tabs PROVE TabFresh(e)' /\ TabHolds(e)'
  <2>1. TabFresh(e)'
    <3>1. CASE e = t
      BY <3>1, <1>1, <1>3 DEF TabFresh
    <3>2. CASE e # t
      BY <3>2, <1>1, <1>3, <1>4 DEF TabFresh
    <3> QED
      BY <3>1, <3>2
  <2>2. TabHolds(e)'
    <3>1. CASE e = t
      BY <3>1, <1>1, <1>3, <1>4 DEF TabHolds
    <3>2. CASE e # t
      <4>1. Holding(e) => tab[e].user \in Subjects \ {u}
        BY <1>8 DEF TabFresh, Holding
      <4> QED
        BY <3>2, <4>1, <1>1, <1>4 DEF TabHolds, Holding
    <3> QED
      BY <3>1, <3>2
  <2> QED
    BY <2>1, <2>2
<1>12. ASSUME NEW v \in Subjects PROVE EntryStands(v)' /\ EntryGone(v)'
  <2>1. webToken[t] = "valid" /\ t \notin leaving /\ \A w \in Subjects : pool[w].sess # t
    BY DEF TabFresh
  <2>2. CASE v = u
    BY <2>1, <2>2, <1>3, <1>4, <1>9 DEF EntryStands, EntryGone
  <2>3. CASE v # u
    BY <2>1, <2>3, <1>3, <1>4, <1>6 DEF EntryStands, EntryGone, NoEntry
  <2> QED
    BY <2>2, <2>3
<1>13. TokenIsAccounted'
  <2>1. ASSUME NEW e \in Tabs, webToken[e] = "valid", e # t, NEW v \in Subjects, pool[v].sess = e
        PROVE  pool'[v].sess = e
    BY <2>1, <1>4, <1>7, WebAssumption
  <2> QED
    BY <2>1, <1>1, <1>3, <1>4 DEF TokenIsAccounted
<1> QED
  BY <1>10, <1>11, <1>12, <1>13

\* A login that finds the pool closed is surplus.
LEMMA TooLateKeeps ==
  ASSUME WebSafe, NEW t \in Tabs, NEW r \in TabRecs, tab[t].at = "proved", r.at = "gone",
         tab' = [tab EXCEPT ![t] = r], leaving' = leaving \union {t},
         UNCHANGED <<gateway, webToken, pool>>
  PROVE  WebSafe'
<1> USE DEF WebSafe
<1>1. tab'[t] = r /\ \A e \in Tabs \ {t} : tab'[e] = tab[e]
  BY DEF WebTypes
<1>2. \A v \in Subjects : Holders(v)' = Holders(v)
  BY <1>1 DEF Holders, Holding
<1>3. WebTypes'
  BY DEF WebTypes
<1>4. ASSUME NEW e \in Tabs PROVE TabFresh(e)' /\ TabHolds(e)'
  BY <1>1 DEF TabFresh, TabHolds, Holding
<1>5. ASSUME NEW v \in Subjects PROVE EntryStands(v)' /\ EntryGone(v)'
  BY <1>2 DEF TabFresh, EntryStands, EntryGone, NoEntry
<1>6. TokenIsAccounted'
  BY <1>1 DEF TokenIsAccounted
<1> QED
  BY <1>3, <1>4, <1>5, <1>6

LEMMA JoinKeeps ==
  ASSUME WebSafe, NEW t \in Tabs, Join(t)
  PROVE  WebSafe'
<1> DEFINE u == tab[t].user
<1>1. tab[t] \in TabRecs /\ tab[t].at = "proved" /\ u \in Subjects /\ ~Holding(t)
  BY DEF WebSafe, WebTypes, TabFresh, Join, Holding
<1>2. UNCHANGED <<gateway, webToken>>
  BY DEF Join
<1>3. CASE gateway # "closed" /\ JoinPool(t) /\ Pooled(u)
  <2>1. PICK r : r = [tab[t] EXCEPT !.at = "joined", !.sess = pool[u].sess]
    OBVIOUS
  <2>2. pool[u].sess # "none"
    BY <1>1, <1>3 DEF Pooled, WebSafe, EntryGone
  <2>3. r \in TabRecs /\ r.at = "joined" /\ r.user = u /\ r.sess = pool[u].sess
    BY <2>1, <1>1 DEF TabRecs, TabStages, WebSafe, WebTypes, Entries
  <2>4. /\ tab' = [tab EXCEPT ![t] = r] /\ pool' = [pool EXCEPT ![u].refs = @ + 1]
        /\ leaving' = leaving \union {t}
    BY <2>1, <1>3 DEF JoinPool, WebSafe, WebTypes
  <2> QED
    BY <1>1, <1>2, <1>3, <2>2, <2>3, <2>4, ReferenceTaken
<1>4. CASE gateway # "closed" /\ JoinPool(t) /\ ~Pooled(u)
  <2>1. PICK r : r = [tab[t] EXCEPT !.at = "joined", !.sess = t]
    OBVIOUS
  <2>2. r \in TabRecs /\ r.at = "joined" /\ r.user = u /\ r.sess = t
    BY <2>1, <1>1 DEF TabRecs, TabStages
  <2>3. /\ tab' = [tab EXCEPT ![t] = r] /\ pool' = [pool EXCEPT ![u] = [sess |-> t, refs |-> 1]]
        /\ UNCHANGED leaving /\ pool[u] = NoEntry
    BY <2>1, <1>4 DEF JoinPool, Pooled, WebSafe, WebTypes
  <2> QED
    BY <1>1, <1>2, <1>4, <2>2, <2>3, AdoptsKeeps
<1>5. CASE gateway = "closed"
  <2>1. PICK r : r = [Away EXCEPT !.at = "gone"]
    OBVIOUS
  <2>2. r \in TabRecs /\ r.at = "gone"
    BY <2>1 DEF Away, TabRecs, TabStages
  <2>3. tab' = [tab EXCEPT ![t] = r] /\ leaving' = leaving \union {t} /\ UNCHANGED pool
    BY <2>1, <1>5 DEF Join
  <2> QED
    BY <1>1, <1>2, <2>2, <2>3, TooLateKeeps
<1> QED
  BY <1>3, <1>4, <1>5 DEF Join

\* The last reference takes the session with it; any other leaves it to the rest.
LEMMA ReleaseKeeps ==
  ASSUME WebSafe, NEW t \in Tabs, Holding(t), Release(t), UNCHANGED <<gateway, webToken>>
  PROVE  WebSafe'
<1> USE DEF WebSafe
<1> DEFINE s == tab[t].sess
<1>0. PICK u \in Subjects : u = tab[t].user
  BY DEF TabFresh, Holding
<1>1. PICK r : r = [Away EXCEPT !.at = "gone"]
  OBVIOUS
<1>2. r \in TabRecs /\ r.at = "gone"
  BY <1>1 DEF Away, TabRecs, TabStages
<1>3. tab' = [tab EXCEPT ![t] = r]
  BY <1>1 DEF Release
<1>4. tab'[t] = r /\ \A e \in Tabs \ {t} : tab'[e] = tab[e]
  BY <1>3 DEF WebTypes
<1>5. u \in Subjects /\ u = tab[t].user
  BY <1>0
<1>6. /\ Holders(u)' = Holders(u) \ {t} /\ t \in Holders(u)
      /\ \A v \in Subjects \ {u} : Holders(v)' = Holders(v)
  BY <1>0, <1>2, <1>3, HoldersShrink
<1>7. Cardinality(Holders(u)') = Cardinality(Holders(u)) - 1
  <2> PICK S, T : S = Holders(u) /\ T = Holders(u)'
    OBVIOUS
  <2>1. IsFiniteSet(S)
    BY <1>5, HoldersFinite
  <2>2. T = S \ {t} /\ t \in S
    BY <1>6
  <2>3. Cardinality(S \ {t}) = Cardinality(S) - 1
    BY <2>1, <2>2, FS_RemoveElement
  <2> QED
    BY <2>2, <2>3
<1>8. CASE pool[u].sess = "none"
  <2>1. gateway = "closed"
    BY <1>5, <1>8, WebAssumption DEF TabHolds
  <2>2. pool' = pool /\ leaving' = leaving
    BY <1>5, <1>8 DEF Release, Pooled, EntryGone
  <2>3. WebTypes'
    BY <1>2, <1>3, <2>2 DEF WebTypes
  <2>4. ASSUME NEW e \in Tabs PROVE TabFresh(e)' /\ TabHolds(e)'
    BY <1>2, <1>4, <2>1, <2>2 DEF TabFresh, TabHolds
  <2>5. ASSUME NEW v \in Subjects PROVE EntryStands(v)' /\ EntryGone(v)'
    BY <2>1, <2>2 DEF EntryStands, EntryGone, NoEntry
  <2>6. TokenIsAccounted'
    <3>1. ~(tab[t].at = "proved")
      BY DEF Holding
    <3> QED
      BY <1>4, <2>2, <3>1 DEF TokenIsAccounted
  <2> QED
    BY <2>3, <2>4, <2>5, <2>6
<1>9. CASE pool[u].sess # "none"
  <2>1. /\ gateway # "closed" /\ pool[u].refs = Cardinality(Holders(u)) /\ pool[u].refs > 0
        /\ webToken[pool[u].sess] = "valid" /\ pool[u].sess \notin leaving
        /\ \A v \in Subjects : pool[v].sess = pool[u].sess => v = u
    BY <1>5, <1>9 DEF EntryStands
  <2>2. s \in Tabs /\ pool[u].sess = s /\ s # "none"
    BY <1>5, <2>1, WebAssumption DEF TabHolds
  <2>3. Pooled(u) /\ pool[u].refs \in Nat
    BY <1>5, <1>9 DEF Pooled, NoEntry, WebTypes, Entries
  <2>4. ~(tab[t].at = "proved") /\ ~(tab[s].at \in {"out", "proved"})
    BY <1>5, <2>2 DEF Holding, TabFresh
  <2>5. CASE pool[u].refs = 1
    <3>1. pool' = [pool EXCEPT ![u] = NoEntry] /\ leaving' = leaving \union {s}
      BY <1>5, <2>2, <2>3, <2>5 DEF Release
    <3>2. NoEntry \in Entries /\ NoEntry.sess = "none"
      BY DEF NoEntry, Entries
    <3>3. pool'[u] = NoEntry /\ \A v \in Subjects \ {u} : pool'[v] = pool[v]
      BY <1>5, <3>1 DEF WebTypes
    <3>4. \A e \in Tabs \ {t} : Holding(e) => tab[e].user # u
      <4>1. Cardinality(Holders(u)') = 0
        BY <1>7, <2>1, <2>5
      <4>2. IsFiniteSet(Holders(u)')
        <5>1. IsFiniteSet(Holders(u))
          BY <1>5, HoldersFinite
        <5>2. IsFiniteSet(Holders(u) \ {t})
          BY <5>1, FS_RemoveElement
        <5> QED
          BY <1>6, <5>2
      <4> QED
        BY <1>6, <4>1, <4>2, FS_EmptySet DEF Holders
    <3>5. WebTypes'
      BY <1>2, <1>3, <2>2, <3>1, <3>2 DEF WebTypes
    <3>6. ASSUME NEW e \in Tabs PROVE TabFresh(e)' /\ TabHolds(e)'
      <4>1. e # "none"
        BY WebAssumption
      <4>2. TabFresh(e)'
        BY <1>2, <1>4, <1>5, <2>1, <2>2, <2>4, <3>1, <3>2, <3>3, <4>1 DEF TabFresh
      <4>3. TabHolds(e)'
        <5>1. CASE e = t
          BY <5>1, <1>2, <1>4 DEF TabHolds, Holding
        <5>2. CASE e # t
          <6>1. Holding(e) => tab[e].user \in Subjects \ {u}
            BY <3>4, <5>2 DEF TabFresh, Holding
          <6> QED
            BY <5>2, <6>1, <1>4, <3>3 DEF TabHolds, Holding
        <5> QED
          BY <5>1, <5>2
      <4> QED
        BY <4>2, <4>3
    <3>7. ASSUME NEW v \in Subjects PROVE EntryStands(v)' /\ EntryGone(v)'
      <4>1. CASE v = u
        BY <4>1, <3>2, <3>3 DEF EntryStands, EntryGone
      <4>2. CASE v # u
        BY <4>2, <1>6, <2>1, <2>2, <3>1, <3>2, <3>3 DEF EntryStands, EntryGone, NoEntry
      <4> QED
        BY <4>1, <4>2
    <3>8. TokenIsAccounted'
      BY <1>4, <2>2, <2>4, <3>1, <3>3 DEF TokenIsAccounted
    <3> QED
      BY <3>5, <3>6, <3>7, <3>8
  <2>6. CASE pool[u].refs # 1
    <3>1. pool' = [pool EXCEPT ![u].refs = @ - 1] /\ leaving' = leaving
      BY <1>5, <2>2, <2>3, <2>6 DEF Release
    <3>2. /\ pool'[u].sess = pool[u].sess /\ pool'[u].refs = pool[u].refs - 1 /\ pool'[u].refs > 0
          /\ pool'[u] \in Entries /\ \A v \in Subjects \ {u} : pool'[v] = pool[v]
      BY <1>5, <2>1, <2>3, <2>6, <3>1 DEF WebTypes, Entries
    <3>3. \A v \in Subjects : pool'[v].sess = pool[v].sess
      BY <3>2
    <3>4. WebTypes'
      BY <1>2, <1>3, <1>5, <3>1, <3>2 DEF WebTypes
    <3>5. ASSUME NEW e \in Tabs PROVE TabFresh(e)' /\ TabHolds(e)'
      <4>1. TabFresh(e)'
        BY <1>2, <1>4, <3>1, <3>3 DEF TabFresh
      <4>2. TabHolds(e)'
        <5>1. CASE e = t
          BY <5>1, <1>2, <1>4 DEF TabHolds, Holding
        <5>2. CASE e # t
          <6>1. Holding(e) => tab[e].user \in Subjects
            BY DEF TabFresh, Holding
          <6> QED
            BY <5>2, <6>1, <1>4, <3>3 DEF TabHolds, Holding
        <5> QED
          BY <5>1, <5>2
      <4> QED
        BY <4>1, <4>2
    <3>6. ASSUME NEW v \in Subjects PROVE EntryStands(v)' /\ EntryGone(v)'
      <4>1. CASE v = u
        <5>1. pool'[u].refs = Cardinality(Holders(u)')
          BY <1>7, <2>1, <3>2
        <5>2. leaving' = leaving /\ webToken' = webToken /\ gateway' = gateway
          BY <3>1
        <5> QED
          BY <4>1, <5>1, <5>2, <1>9, <2>1, <3>2, <3>3 DEF EntryStands, EntryGone
      <4>2. CASE v # u
        BY <4>2, <1>6, <3>1, <3>2, <3>3 DEF EntryStands, EntryGone, NoEntry
      <4> QED
        BY <4>1, <4>2
    <3>7. TokenIsAccounted'
      BY <1>4, <2>4, <3>1, <3>3 DEF TokenIsAccounted
    <3> QED
      BY <3>4, <3>5, <3>6, <3>7
  <2> QED
    BY <2>5, <2>6
<1> QED
  BY <1>8, <1>9

LEMMA WebStarts == WebInit => WebSafe
<1> SUFFICES ASSUME WebInit PROVE WebSafe
  OBVIOUS
<1>1. Away \in TabRecs /\ Away.at = "out" /\ NoEntry \in Entries /\ NoEntry.sess = "none"
  BY DEF Away, TabRecs, TabStages, NoEntry, Entries
<1>2. /\ \A t \in Tabs : tab[t] = Away /\ webToken[t] = "none" /\ t # "none"
      /\ \A u \in Subjects : pool[u] = NoEntry
      /\ leaving = {}
  BY WebAssumption DEF WebInit
<1>3. WebTypes
  BY <1>1 DEF WebInit, WebTypes
<1>4. ASSUME NEW t \in Tabs PROVE TabFresh(t) /\ TabHolds(t)
  BY <1>1, <1>2 DEF TabFresh, TabHolds, Holding
<1>5. ASSUME NEW u \in Subjects PROVE EntryStands(u) /\ EntryGone(u)
  BY <1>1, <1>2 DEF EntryStands, EntryGone
<1>6. TokenIsAccounted
  BY <1>2 DEF TokenIsAccounted
<1> QED
  BY <1>3, <1>4, <1>5, <1>6 DEF WebSafe

LEMMA WebMoves == WebSafe /\ [WebNext]_webVars => WebSafe'
<1> SUFFICES ASSUME WebSafe, [WebNext]_webVars PROVE WebSafe'
  OBVIOUS
<1>1. CASE UNCHANGED webVars
  <2>1. UNCHANGED <<tab, pool, webToken, leaving, gateway>>
    BY <1>1 DEF webVars
  <2>2. \A v \in Subjects : Holders(v)' = Holders(v)
    BY <2>1 DEF Holders, Holding
  <2> QED
    BY <2>1, <2>2 DEF WebSafe, WebTypes, TabFresh, TabHolds, Holding, EntryStands, EntryGone, NoEntry,
                      TokenIsAccounted
<1>2. CASE StopsServing
  BY <1>2, StopsServingKeeps
<1>3. CASE ClosePool
  BY <1>3, ClosePoolKeeps
<1>4. ASSUME NEW t \in Tabs, NEW u \in Subjects, LoginProves(t, u) \/ LoginAnswerLost(t, u) \/ Provision(t, u)
      PROVE  WebSafe'
  BY <1>4, LoginProvesKeeps, LoginAnswerLostKeeps, ProvisionKeeps
<1>5. ASSUME NEW t \in Tabs, StashFails(t) \/ TabLeaves(t) PROVE WebSafe'
  <2>1. Holding(t) /\ Release(t) /\ UNCHANGED <<gateway, webToken>>
    BY <1>5 DEF StashFails, TabLeaves, Holding
  <2> QED
    BY <2>1, ReleaseKeeps
<1>6. ASSUME NEW t \in Tabs,
             SubjectRefused(t) \/ Join(t) \/ StashParks(t) \/ TakesParked(t) \/ LogsOut(t)
      PROVE  WebSafe'
  BY <1>6, SubjectRefusedKeeps, JoinKeeps, StashParksKeeps, TakesParkedKeeps, LogsOutKeeps
<1> QED
  BY <1>1, <1>2, <1>3, <1>4, <1>5, <1>6 DEF WebNext

\* Until the pool is closed a browser session works on its user's live daemon session; a pooled
\* session is counted once per browser session that uses it; and no token the gateway knows is
\* left behind: for any tabs and users and any number of failed logouts.
THEOREM PoolAlwaysStands == WebSpec => []PoolStands
<1>1. WebSafe => PoolStands
  <2> SUFFICES ASSUME WebSafe PROVE PoolStands
    OBVIOUS
  <2>1. HeldIsLive
    <3> SUFFICES ASSUME gateway # "closed", NEW t \in Tabs, Holding(t)
                 PROVE  /\ pool[tab[t].user].sess = tab[t].sess
                        /\ webToken[tab[t].sess] = "valid" /\ tab[t].sess \notin leaving
      BY DEF HeldIsLive
    <3>1. tab[t].user \in Subjects /\ tab[t].sess \in Tabs /\ pool[tab[t].user].sess = tab[t].sess
      BY DEF WebSafe, TabFresh, TabHolds, Holding
    <3>2. tab[t].sess # "none"
      BY <3>1, WebAssumption
    <3> QED
      BY <3>1, <3>2 DEF WebSafe, EntryStands
  <2>2. EntryIsUsed
    BY DEF WebSafe, EntryStands, EntryGone, EntryIsUsed, Pooled
  <2> QED
    BY <2>1, <2>2 DEF PoolStands, WebSafe
<1> QED
  BY <1>1, WebStarts, WebMoves, PTL DEF WebSpec

(***************************************************************************)
(* A frontend's session.                                                   *)
(***************************************************************************)
LinkStates == {"none", "open", "closed"}
Links == [server : Servers \union {"none"}, inst : Nat, st : LinkStates]
Tokens == [server : Servers \union {"none"}, inst : Nat, ended : BOOLEAN]
SessionRecs == [mode : Servers, gen : Nat, client : 0..MaxConn, inst : Nat, token : 0..MaxToken,
                epoch : Nat, rs : Nat, keyed : BOOLEAN]
DialStages == {"idle", "dialling", "entering", "read", "redialling", "signing", "greeted", "resuming",
               "dropping", "entered", "adopting"}
DialRecs == [at : DialStages, gen : Nat, conn : 0..MaxConn, token : 0..MaxToken, rs : Nat]
ActStages == {"idle", "ensured", "sent", "answered", "refused", "minted", "compensating", "posted",
              "shown", "undone", "reported"}
ActRecs == [at : ActStages, verb : AllVerbs \union {"none"}, gen : Nat, conn : 0..MaxConn,
            token : 0..MaxToken, epoch : Nat, got : 0..MaxToken, pat : {"none", "live", "revoked"}]

ClientTypes ==
  /\ cs \in SessionRecs /\ instOf \in [Servers -> Nat]
  /\ clientLink \in [1..MaxConn -> Links] /\ mintedTok \in [1..MaxToken -> Tokens]
  /\ dialer \in [Dialers -> DialRecs] /\ act \in [Actions -> ActRecs]

\* The session's own connection and login are with the server it is on.
AtHome ==
  /\ cs.client # 0 => clientLink[cs.client].server = cs.mode
  /\ cs.token # 0 => mintedTok[cs.token].server = cs.mode

UnusedLinks == \A k \in 1..MaxConn : clientLink[k].st = "none" => clientLink[k].server = "none"

\* An attempt that waits for its dial.
DialsOut(r) == r.at \in {"dialling", "redialling", "entering"}

\* What an attempt holds is a remote login on a remote connection, and while its generation is
\* the session's nothing else has connected and the session is still on its server.
DialOf(r) ==
  /\ r.gen <= cs.gen
  /\ DialsOut(r) /\ r.gen = cs.gen => cs.client = 0
  /\ r.at # "idle" /\ r.gen = cs.gen => cs.mode = IF r.at = "dialling" THEN "local" ELSE "remote"
  /\ r.token # 0 => mintedTok[r.token].server = "remote"
  /\ r.at \in {"resuming", "entered", "adopting"} => r.token # 0
  /\ r.at = "greeted" => r.conn # 0

\* What an action pinned belongs together, and while its generation is the session's so does
\* the session; a mint under way has minted, and one that was revoked has no card.
ActOf(r) ==
  /\ r.gen <= cs.gen
  /\ r.at # "idle" => r.verb \in AllVerbs /\ r.conn # 0 /\ clientLink[r.conn].server \in Servers
  /\ r.at # "idle" /\ r.token # 0 => mintedTok[r.token].server = clientLink[r.conn].server
  /\ r.at # "idle" /\ r.gen = cs.gen => clientLink[r.conn].server = cs.mode
  /\ r.at = "answered" /\ r.verb = "login" =>
       r.got # 0 /\ mintedTok[r.got].server = clientLink[r.conn].server
  /\ r.at = "refused" => r.verb # "login"
  /\ r.at \in {"minted", "posted", "shown"} => r.pat = "live"
  /\ r.at = "undone" => r.pat # "live"

\* No two attempts wait in one generation.
DialsApart ==
  \A d, e \in Dialers : d # e /\ DialsOut(dialer[d]) /\ DialsOut(dialer[e]) => dialer[d].gen # dialer[e].gen

CardsStand == \A c \in card : c.owner = c.signedIn /\ \A a \in Actions : c.by = a => act[a].at = "shown"

\* The inductive invariant of a frontend's session.
ClientSafe ==
  /\ ClientTypes /\ AtHome /\ UnusedLinks /\ OpenIsInUse
  /\ \A d \in Dialers : DialOf(dialer[d])
  /\ \A a \in Actions : ActOf(act[a])
  /\ DialsApart /\ CardsStand


\* What no step does: go back to an earlier generation, or change server within one; give an
\* used connection or a minted token another server.
Onward == cs'.gen > cs.gen \/ (cs'.gen = cs.gen /\ cs'.mode = cs.mode)
LinksKeep == \A k \in 1..MaxConn : clientLink[k].server # "none" => clientLink'[k].server = clientLink[k].server
TokensKeep == \A n \in 1..MaxToken : mintedTok[n].server # "none" => mintedTok'[n].server = mintedTok[n].server

\* An attempt that waits in the session's generation waits unconnected.
WaitsAlone(r) == DialsOut(r) /\ r.gen = cs.gen => cs.client = 0

LEMMA LowestIsIn ==
  ASSUME NEW N \in Nat, NEW S, S \subseteq 1..N, S # {}
  PROVE  Lowest(S) \in S
<1> DEFINE R == {p \in Nat \X Nat : p[1] < p[2]}
<1>1. R = OpToRel(<, Nat)
  BY DEF OpToRel
<1>2. IsWellFoundedOn(R, Nat)
  BY <1>1, NatLessThanWellFounded
<1>3. S \subseteq Nat
  OBVIOUS
<1>4. PICK x \in S : \A y \in S : ~ (<<y, x>> \in R)
  BY <1>2, <1>3, WFMin
<1>5. \A y \in S : x <= y
  <2> SUFFICES ASSUME NEW y \in S PROVE x <= y
    OBVIOUS
  <2>1. ~ (<<y, x>> \in R) /\ y \in Nat /\ x \in Nat
    BY <1>3, <1>4
  <2>2. ~ (y < x)
    BY <2>1
  <2> QED
    BY <2>1, <2>2
<1> QED
  BY <1>5 DEF Lowest

LEMMA FreeLinkIsUnused ==
  ASSUME ClientTypes, FreeLinks # {}
  PROVE  Lowest(FreeLinks) \in 1..MaxConn /\ clientLink[Lowest(FreeLinks)].st = "none"
<1>1. FreeLinks = {k \in 1..MaxConn : clientLink[k].st = "none"}
  BY DEF FreeLinks, Unused, ClientTypes
<1>2. MaxConn \in Nat
  BY ClientAssumption
<1>3. FreeLinks \subseteq 1..MaxConn
  BY <1>1
<1>4. Lowest(FreeLinks) \in FreeLinks
  BY <1>2, <1>3, LowestIsIn
<1> QED
  BY <1>1, <1>4

LEMMA FreeTokenIsUnused ==
  ASSUME ClientTypes, FreeTokens # {}
  PROVE  Lowest(FreeTokens) \in 1..MaxToken /\ mintedTok[Lowest(FreeTokens)].server = "none"
<1>1. FreeTokens = {n \in 1..MaxToken : mintedTok[n].server = "none"}
  BY DEF FreeTokens, Unused, ClientTypes
<1>2. MaxToken \in Nat
  BY ClientAssumption
<1>3. FreeTokens \subseteq 1..MaxToken
  BY <1>1
<1>4. Lowest(FreeTokens) \in FreeTokens
  BY <1>2, <1>3, LowestIsIn
<1> QED
  BY <1>1, <1>4

\* What is left of the connections l once those of ks are closed.
ClosedOf(m, l, ks) ==
  /\ m \in [1..MaxConn -> Links]
  /\ \A k \in 1..MaxConn : /\ m[k].server = l[k].server
                           /\ m[k].st = "open" => k \notin ks /\ l[k].st = "open"
                           /\ m[k].st = "none" => l[k].st = "none"

LEMMA ClosesIs ==
  ASSUME NEW l \in [1..MaxConn -> Links], NEW ks
  PROVE  ClosedOf(Closes(l, ks), l, ks)
<1>1. ASSUME NEW k \in 1..MaxConn
      PROVE  /\ Closes(l, ks)[k] \in Links /\ Closes(l, ks)[k].server = l[k].server
             /\ Closes(l, ks)[k].st = "open" => k \notin ks /\ l[k].st = "open"
             /\ Closes(l, ks)[k].st = "none" => l[k].st = "none"
  <2>1. l[k] \in Links
    OBVIOUS
  <2>2. CASE k \in ks
    <3>1. Closes(l, ks)[k] = [l[k] EXCEPT !.st = "closed"]
      BY <2>2 DEF Closes
    <3> QED
      BY <2>1, <3>1 DEF Links, LinkStates
  <2>3. CASE k \notin ks
    <3>1. Closes(l, ks)[k] = l[k]
      BY <2>3 DEF Closes
    <3> QED
      BY <2>1, <2>3, <3>1
  <2> QED
    BY <2>2, <2>3
<1>2. Closes(l, ks) = [k \in 1..MaxConn |-> Closes(l, ks)[k]]
  BY DEF Closes
<1> QED
  BY <1>1, <1>2 DEF ClosedOf

LEMMA ZeroIsIn == 0 \in 0..MaxConn /\ 0 \in 0..MaxToken
<1>1. MaxConn \in Nat /\ MaxToken \in Nat
  BY ClientAssumption
<1> QED
  BY <1>1

LEMMA TurnIs ==
  ASSUME NEW c \in SessionRecs
  PROVE  /\ Turn(c) \in SessionRecs /\ Turn(c).gen = c.gen + 1 /\ Turn(c).client = 0
         /\ Turn(c).mode = c.mode /\ Turn(c).token = c.token /\ Turn(c).epoch = c.epoch
<1>1. Turn(c) = [c EXCEPT !.gen = c.gen + 1, !.client = 0]
  BY DEF Turn, SessionRecs
<1>2. c.gen + 1 \in Nat
  BY DEF SessionRecs
<1>3. [c EXCEPT !.gen = c.gen + 1, !.client = 0] \in SessionRecs
  BY <1>2, ZeroIsIn DEF SessionRecs
<1> QED
  BY <1>1, <1>3 DEF SessionRecs

LEMMA ForgetIs ==
  ASSUME NEW c \in SessionRecs
  PROVE  /\ ForgetLogin(c) \in SessionRecs /\ ForgetLogin(c).gen = c.gen
         /\ ForgetLogin(c).client = c.client /\ ForgetLogin(c).mode = c.mode
         /\ ForgetLogin(c).token = 0 /\ ForgetLogin(c).epoch = c.epoch + 1
<1>1. ForgetLogin(c) = [c EXCEPT !.token = 0, !.epoch = c.epoch + 1]
  BY DEF ForgetLogin, SessionRecs
<1>2. c.epoch + 1 \in Nat
  BY DEF SessionRecs
<1>3. [c EXCEPT !.token = 0, !.epoch = c.epoch + 1] \in SessionRecs
  BY <1>2, ZeroIsIn DEF SessionRecs
<1> QED
  BY <1>1, <1>3 DEF SessionRecs

LEMMA DropIs ==
  ASSUME NEW c \in SessionRecs
  PROVE  /\ DropLogin(c) \in SessionRecs /\ DropLogin(c).gen = c.gen
         /\ DropLogin(c).client = c.client /\ DropLogin(c).mode = c.mode
         /\ DropLogin(c).token = 0
         /\ DropLogin(c).token # c.token => DropLogin(c).epoch = c.epoch + 1
  BY ForgetIs DEF DropLogin

\* What a login adopted for the generation gen, if it is still the session's, leaves of it.
Adopted(b, c, gen, n) ==
  /\ b \in SessionRecs /\ b.gen = c.gen /\ b.client = c.client /\ b.mode = c.mode
  /\ c.gen = gen => b.token = n
  /\ c.gen # gen => b.token = c.token
  /\ b.token # c.token => b.epoch = c.epoch + 1

LEMMA AdoptIs ==
  ASSUME NEW c \in SessionRecs, NEW gen \in Nat, NEW n \in 0..MaxToken
  PROVE  Adopted(AdoptLogin(c, gen, n), c, gen, n)
<1>1. CASE c.gen = gen
  <2>1. AdoptLogin(c, gen, n) = [c EXCEPT !.token = n, !.epoch = c.epoch + 1]
    BY <1>1 DEF AdoptLogin, SessionRecs
  <2>2. c.epoch + 1 \in Nat
    BY DEF SessionRecs
  <2>3. [c EXCEPT !.token = n, !.epoch = c.epoch + 1] \in SessionRecs
    BY <2>2 DEF SessionRecs
  <2> QED
    BY <1>1, <2>1, <2>3 DEF SessionRecs, Adopted
<1>2. CASE c.gen # gen
  BY <1>2 DEF AdoptLogin, Adopted
<1> QED
  BY <1>1, <1>2

LEMMA ActFrame ==
  ASSUME NEW r \in ActRecs, cs \in SessionRecs, cs' \in SessionRecs, ActOf(r), Onward, LinksKeep, TokensKeep
  PROVE  ActOf(r)'
<1>1. r.gen \in Nat /\ r.conn \in 0..MaxConn /\ r.token \in 0..MaxToken /\ r.got \in 0..MaxToken
  BY DEF ActRecs
<1>2. cs.gen \in Nat /\ cs'.gen \in Nat
  BY DEF SessionRecs
<1>3. r.gen <= cs'.gen /\ (r.gen = cs'.gen => r.gen = cs.gen /\ cs'.mode = cs.mode)
  BY <1>1, <1>2 DEF ActOf, Onward
<1>4. MaxConn \in Nat /\ MaxToken \in Nat
  BY ClientAssumption
<1>5. "none" \notin Servers
  BY DEF Servers
<1>6. r.at # "idle" => r.conn \in 1..MaxConn /\ clientLink'[r.conn].server = clientLink[r.conn].server
  BY <1>1, <1>4, <1>5 DEF ActOf, LinksKeep
<1>7. r.at # "idle" /\ r.token # 0 => mintedTok'[r.token].server = mintedTok[r.token].server
  <2> SUFFICES ASSUME r.at # "idle" /\ r.token # 0 PROVE mintedTok'[r.token].server = mintedTok[r.token].server
    OBVIOUS
  <2>1. r.token \in 1..MaxToken
    BY <1>1, <1>4
  <2>2. mintedTok[r.token].server # "none"
    BY <1>5 DEF ActOf
  <2> QED
    BY <2>1, <2>2 DEF TokensKeep
<1>8. r.at = "answered" /\ r.verb = "login" => mintedTok'[r.got].server = mintedTok[r.got].server
  <2> SUFFICES ASSUME r.at = "answered" /\ r.verb = "login" PROVE mintedTok'[r.got].server = mintedTok[r.got].server
    OBVIOUS
  <2>1. r.got \in 1..MaxToken
    BY <1>1, <1>4 DEF ActOf
  <2>2. mintedTok[r.got].server # "none"
    BY <1>5 DEF ActOf
  <2> QED
    BY <2>1, <2>2 DEF TokensKeep
<1> QED
  BY <1>3, <1>6, <1>7, <1>8 DEF ActOf

LEMMA DialFrame ==
  ASSUME NEW r \in DialRecs, cs \in SessionRecs, cs' \in SessionRecs, DialOf(r), Onward, TokensKeep,
         WaitsAlone(r)'
  PROVE  DialOf(r)'
<1>1. r.gen \in Nat /\ r.token \in 0..MaxToken
  BY DEF DialRecs
<1>2. cs.gen \in Nat /\ cs'.gen \in Nat
  BY DEF SessionRecs
<1>3. r.gen <= cs'.gen /\ (r.gen = cs'.gen => r.gen = cs.gen /\ cs'.mode = cs.mode)
  BY <1>1, <1>2 DEF DialOf, Onward
<1>4. MaxToken \in Nat
  BY ClientAssumption
<1>5. r.token # 0 => r.token \in 1..MaxToken
  BY <1>1, <1>4
<1>6. r.token # 0 => mintedTok'[r.token].server = "remote"
  BY <1>5 DEF DialOf, TokensKeep
<1> QED
  BY <1>3, <1>6 DEF DialOf, WaitsAlone, DialsOut

\* Where the session has moved on, or stands as it did, nobody waits in a generation that has connected.
LEMMA WaitsFrame ==
  ASSUME NEW r \in DialRecs, cs \in SessionRecs, cs' \in SessionRecs, DialOf(r),
         cs'.gen > cs.gen \/ (cs'.gen = cs.gen /\ cs'.client \in {cs.client, 0})
  PROVE  WaitsAlone(r)'
<1>1. r.gen \in Nat /\ cs.gen \in Nat /\ cs'.gen \in Nat
  BY DEF DialRecs, SessionRecs
<1> QED
  BY <1>1 DEF DialOf, WaitsAlone, DialsOut

\* What a step of one attempt leaves of the invariant.
LEMMA AttemptKeeps ==
  ASSUME ClientSafe, NEW d \in Dialers, NEW r \in DialRecs, dialer' = [dialer EXCEPT ![d] = r],
         cs' \in SessionRecs, clientLink' \in [1..MaxConn -> Links], mintedTok' \in [1..MaxToken -> Tokens],
         Onward, LinksKeep, TokensKeep, AtHome', UnusedLinks', OpenIsInUse', DialOf(r)',
         \A e \in Dialers \ {d} : WaitsAlone(dialer[e])',
         DialsOut(r) => \A e \in Dialers \ {d} : DialsOut(dialer[e]) => dialer[e].gen # r.gen,
         UNCHANGED <<act, card, instOf>>
  PROVE  ClientSafe'
<1> USE DEF ClientSafe
<1>1. dialer'[d] = r /\ \A e \in Dialers \ {d} : dialer'[e] = dialer[e]
  BY DEF ClientTypes
<1>2. ClientTypes'
  BY DEF ClientTypes
<1>3. ASSUME NEW e \in Dialers PROVE DialOf(dialer[e])'
  <2>1. CASE e = d
    BY <2>1, <1>1
  <2>2. CASE e # d
    <3>1. dialer[e] \in DialRecs /\ cs \in SessionRecs
      BY DEF ClientTypes
    <3>2. PICK q \in DialRecs : q = dialer[e]
      BY <3>1
    <3>3. DialOf(q) /\ WaitsAlone(q)'
      BY <2>2, <3>2, <1>1
    <3>4. DialOf(q)'
      BY <3>1, <3>3, DialFrame
    <3> QED
      BY <2>2, <3>2, <3>4, <1>1
  <2> QED
    BY <2>1, <2>2
<1>4. ASSUME NEW a \in Actions PROVE ActOf(act[a])'
  <2>1. PICK q \in ActRecs : q = act[a]
    BY DEF ClientTypes
  <2>2. ActOf(q) /\ cs \in SessionRecs
    BY <2>1 DEF ClientTypes
  <2>3. ActOf(q)'
    BY <2>2, ActFrame
  <2> QED
    BY <2>1, <2>3
<1>5. DialsApart'
  BY <1>1 DEF DialsApart, DialsOut
<1>6. CardsStand'
  BY DEF CardsStand
<1> QED
  BY <1>2, <1>3, <1>4, <1>5, <1>6

\* What a step that no attempt takes leaves of the attempts.
LEMMA AttemptsStand ==
  ASSUME ClientSafe, UNCHANGED dialer, cs' \in SessionRecs, Onward, TokensKeep,
         cs'.gen > cs.gen \/ cs'.client = cs.client
  PROVE  (\A d \in Dialers : DialOf(dialer[d])') /\ DialsApart'
<1> USE DEF ClientSafe
<1>1. ASSUME NEW e \in Dialers PROVE DialOf(dialer[e])'
  <2>1. PICK q \in DialRecs : q = dialer[e]
    BY DEF ClientTypes
  <2>2. DialOf(q) /\ cs \in SessionRecs
    BY <2>1 DEF ClientTypes
  <2>3. WaitsAlone(q)'
    BY <2>2, WaitsFrame DEF Onward
  <2>4. DialOf(q)'
    BY <2>2, <2>3, DialFrame
  <2> QED
    BY <2>1, <2>4
<1> QED
  BY <1>1 DEF DialsApart, DialsOut

\* What a step of the session alone leaves of the invariant.
LEMMA SessionMoveKeeps ==
  ASSUME ClientSafe, UNCHANGED <<dialer, act, card>>,
         cs' \in SessionRecs, instOf' \in [Servers -> Nat],
         clientLink' \in [1..MaxConn -> Links], mintedTok' \in [1..MaxToken -> Tokens],
         Onward, LinksKeep, TokensKeep, AtHome', UnusedLinks', OpenIsInUse',
         cs'.gen > cs.gen \/ cs'.client = cs.client
  PROVE  ClientSafe'
<1> USE DEF ClientSafe
<1>1. ClientTypes'
  BY DEF ClientTypes
<1>2. (\A d \in Dialers : DialOf(dialer[d])') /\ DialsApart'
  BY AttemptsStand
<1>3. ASSUME NEW a \in Actions PROVE ActOf(act[a])'
  <2>1. PICK q \in ActRecs : q = act[a]
    BY DEF ClientTypes
  <2>2. ActOf(q) /\ cs \in SessionRecs
    BY <2>1 DEF ClientTypes
  <2>3. ActOf(q)'
    BY <2>2, ActFrame
  <2> QED
    BY <2>1, <2>3
<1>4. CardsStand'
  BY DEF CardsStand
<1> QED
  BY <1>1, <1>2, <1>3, <1>4

\* What a step of one action leaves of the invariant.
LEMMA ActionKeeps ==
  ASSUME ClientSafe, NEW a \in Actions, NEW r \in ActRecs, act' = [act EXCEPT ![a] = r],
         cs' \in SessionRecs, cs'.gen = cs.gen, cs'.mode = cs.mode, cs'.client = cs.client, AtHome',
         mintedTok' \in [1..MaxToken -> Tokens], TokensKeep, ActOf(r)', CardsStand',
         UNCHANGED <<dialer, clientLink, instOf>>
  PROVE  ClientSafe'
<1> USE DEF ClientSafe
<1>1. act'[a] = r /\ \A e \in Actions \ {a} : act'[e] = act[e]
  BY DEF ClientTypes
<1>2. ClientTypes'
  BY DEF ClientTypes
<1>3. Onward /\ LinksKeep
  BY DEF Onward, LinksKeep
<1>4. (\A d \in Dialers : DialOf(dialer[d])') /\ DialsApart'
  BY <1>3, AttemptsStand
<1>5. ASSUME NEW e \in Actions PROVE ActOf(act[e])'
  <2>1. CASE e = a
    BY <2>1, <1>1
  <2>2. CASE e # a
    <3>1. PICK q \in ActRecs : q = act[e]
      BY DEF ClientTypes
    <3>2. ActOf(q) /\ cs \in SessionRecs
      BY <3>1 DEF ClientTypes
    <3>3. ActOf(q)'
      BY <3>2, <1>3, ActFrame
    <3> QED
      BY <2>2, <3>1, <3>3, <1>1
  <2> QED
    BY <2>1, <2>2
<1>6. UnusedLinks' /\ OpenIsInUse'
  BY DEF UnusedLinks, OpenIsInUse
<1> QED
  BY <1>2, <1>4, <1>5, <1>6


-----------------------------------------------------------------------------
(* The attempts. *)

LEMMA IdleDial == NoDial \in DialRecs /\ NoDial.at = "idle" /\ NoDial.gen = 0 /\ NoDial.token = 0
  BY ZeroIsIn DEF NoDial, DialRecs, DialStages

LEMMA IdleDialOf ==
  ASSUME cs \in SessionRecs
  PROVE  DialOf(NoDial) /\ ~DialsOut(NoDial)
<1>1. cs.gen \in Nat
  BY DEF SessionRecs
<1> QED
  BY <1>1, IdleDial DEF DialOf, DialsOut

\* A step that moves nothing but the attempt, and does not begin a dial.
LEMMA AttemptMoves ==
  ASSUME ClientSafe, NEW d \in Dialers, NEW r \in DialRecs, dialer' = [dialer EXCEPT ![d] = r],
         DialOf(r), ~DialsOut(r), UNCHANGED <<cs, clientLink, mintedTok, act, card, instOf>>
  PROVE  ClientSafe'
<1> USE DEF ClientSafe
<1>1. cs \in SessionRecs
  BY DEF ClientTypes
<1>2. Onward /\ LinksKeep /\ TokensKeep
  BY <1>1 DEF Onward, LinksKeep, TokensKeep, SessionRecs
<1>3. \A e \in Dialers \ {d} : WaitsAlone(dialer[e])'
  <2> SUFFICES ASSUME NEW e \in Dialers \ {d} PROVE WaitsAlone(dialer[e])'
    OBVIOUS
  <2>1. dialer'[e] = dialer[e]
    BY DEF ClientTypes
  <2> QED
    BY <2>1 DEF DialOf, WaitsAlone, DialsOut
<1>4. AtHome' /\ UnusedLinks' /\ OpenIsInUse' /\ DialOf(r)'
  BY DEF AtHome, UnusedLinks, OpenIsInUse, DialOf, DialsOut
<1> QED
  BY <1>1, <1>2, <1>3, <1>4, AttemptKeeps DEF ClientTypes

\* A transition closes what was open.
LEMMA TurnCloses ==
  ASSUME ClientSafe, Turns
  PROVE  /\ clientLink' \in [1..MaxConn -> Links] /\ LinksKeep /\ UnusedLinks'
         /\ \A k \in 1..MaxConn : clientLink'[k].st # "open"
<1> USE DEF ClientSafe
<1>0. PICK ks : ks = {cs.client} \ {0}
  OBVIOUS
<1>1. clientLink' = Closes(clientLink, ks) /\ clientLink \in [1..MaxConn -> Links]
  BY <1>0 DEF Turns, ClientTypes
<1>2. /\ clientLink' \in [1..MaxConn -> Links]
      /\ \A k \in 1..MaxConn : /\ clientLink'[k].server = clientLink[k].server
                               /\ clientLink'[k].st = "open" => k \notin ks /\ clientLink[k].st = "open"
                               /\ clientLink'[k].st = "none" => clientLink[k].st = "none"
  <2>1. PICK l \in [1..MaxConn -> Links] : l = clientLink
    BY <1>1
  <2>2. clientLink' = Closes(l, ks)
    BY <1>1, <2>1
  <2>3. ClosedOf(Closes(l, ks), l, ks)
    BY ClosesIs
  <2> QED
    BY <2>1, <2>2, <2>3 DEF ClosedOf
<1>3. ASSUME NEW k \in 1..MaxConn PROVE clientLink'[k].st # "open"
  <2>1. k # 0 /\ DOMAIN clientLink = 1..MaxConn
    BY <1>1, ClientAssumption
  <2>2. clientLink[k].st = "open" => k \in ks
    BY <1>0, <2>1 DEF OpenIsInUse
  <2> QED
    BY <1>2, <2>2
<1> QED
  BY <1>2, <1>3 DEF LinksKeep, UnusedLinks

LEMMA BeginsKeeps ==
  ASSUME ClientSafe, NEW d \in Dialers, NEW at \in {"dialling", "entering", "redialling"},
         NEW token \in 0..MaxToken, DialBegins(d, at, token),
         cs.mode = IF at = "dialling" THEN "local" ELSE "remote",
         token # 0 => mintedTok[token].server = "remote"
  PROVE  ClientSafe' /\ LoginMovesEpoch
<1> USE DEF ClientSafe
<1>1. cs \in SessionRecs /\ cs.gen \in Nat /\ cs.rs \in Nat
  BY DEF ClientTypes, SessionRecs
<1>2. PICK c \in SessionRecs : c = Turn(cs)
  BY <1>1, TurnIs
<1>3. c.gen = cs.gen + 1 /\ c.client = 0 /\ c.mode = cs.mode /\ c.token = cs.token
  BY <1>1, <1>2, TurnIs
<1>4. cs' = c /\ Turns /\ UNCHANGED <<mintedTok, act, instOf, card>>
  BY <1>2 DEF DialBegins
<1>5. PICK r : r = [at |-> at, gen |-> cs.gen + 1, conn |-> 0, token |-> token, rs |-> cs.rs]
  OBVIOUS
<1>6. r \in DialRecs
  <2>1. cs.gen + 1 \in Nat /\ at \in DialStages
    BY <1>1 DEF DialStages
  <2> QED
    BY <1>1, <1>5, <2>1, ZeroIsIn DEF DialRecs
<1>7. r.at = at /\ r.gen = cs.gen + 1 /\ r.token = token
  BY <1>5
<1>8. dialer' = [dialer EXCEPT ![d] = r]
  BY <1>5 DEF DialBegins, DialSteps
<1>9. /\ clientLink' \in [1..MaxConn -> Links] /\ LinksKeep /\ UnusedLinks'
      /\ \A k \in 1..MaxConn : clientLink'[k].st # "open"
  BY <1>4, TurnCloses
<1>10. OpenIsInUse'
  BY <1>9 DEF OpenIsInUse
<1>11. Onward /\ TokensKeep
  BY <1>1, <1>3, <1>4 DEF Onward, TokensKeep
<1>12. AtHome'
  BY <1>3, <1>4 DEF AtHome
<1>13. DialOf(r)'
  BY <1>1, <1>3, <1>4, <1>7 DEF DialOf, DialsOut
<1>14. ASSUME NEW e \in Dialers \ {d}
       PROVE  WaitsAlone(dialer[e])' /\ dialer[e].gen # r.gen
  <2>1. PICK q \in DialRecs : q = dialer[e]
    BY DEF ClientTypes
  <2>2. dialer'[e] = q
    BY <2>1, <1>8 DEF ClientTypes
  <2>3. q.gen \in Nat /\ q.gen <= cs.gen
    BY <2>1 DEF DialOf, DialRecs
  <2>4. q.gen # r.gen /\ q.gen # cs'.gen
    BY <1>1, <1>3, <1>4, <1>7, <2>3
  <2> QED
    BY <2>1, <2>2, <2>4 DEF WaitsAlone
<1>15. ClientSafe'
  BY <1>4, <1>6, <1>8, <1>9, <1>10, <1>11, <1>12, <1>13, <1>14, AttemptKeeps DEF ClientTypes
<1> QED
  BY <1>3, <1>4, <1>15 DEF LoginMovesEpoch

LEMMA ConnectKeeps ==
  ASSUME ClientSafe, NEW d \in Dialers, ConnectLocal(d) \/ ConnectRemote(d)
  PROVE  ClientSafe' /\ LoginMovesEpoch
<1>1. cs.mode \in Servers
  BY DEF ClientSafe, ClientTypes, SessionRecs
<1>2. CASE ConnectLocal(d)
  <2>1. cs.mode = "local" /\ DialBegins(d, "dialling", 0)
    BY <1>1, <1>2 DEF ConnectLocal, SessionIsRemote, Servers
  <2> QED
    BY <2>1, ZeroIsIn, BeginsKeeps
<1>3. CASE ConnectRemote(d)
  <2>1. cs.mode = "remote" /\ DialBegins(d, "entering", 0)
    BY <1>3 DEF ConnectRemote, SessionIsRemote
  <2> QED
    BY <2>1, ZeroIsIn, BeginsKeeps
<1> QED
  BY <1>2, <1>3

LEMMA ReadsLoginKeeps ==
  ASSUME ClientSafe, NEW d \in Dialers, ReadsLogin(d)
  PROVE  ClientSafe' /\ LoginMovesEpoch
<1> USE DEF ClientSafe
<1>1. cs.gen \in Nat /\ cs.rs \in Nat /\ cs.token \in 0..MaxToken /\ cs.mode = "remote"
  BY DEF ClientTypes, SessionRecs, ReadsLogin, SessionIsRemote
<1>2. PICK r : r = [NoDial EXCEPT !.at = "read", !.gen = cs.gen, !.token = cs.token, !.rs = cs.rs]
  OBVIOUS
<1>3. r \in DialRecs /\ r.at = "read" /\ r.gen = cs.gen /\ r.token = cs.token
  BY <1>1, <1>2, IdleDial DEF DialRecs, DialStages
<1>4. DialOf(r) /\ ~DialsOut(r)
  BY <1>1, <1>3 DEF DialOf, DialsOut, AtHome
<1>5. dialer' = [dialer EXCEPT ![d] = r] /\ UNCHANGED <<cs, clientLink, mintedTok, act, card, instOf>>
  BY <1>2 DEF ReadsLogin, DialSteps
<1> QED
  BY <1>3, <1>4, <1>5, AttemptMoves DEF LoginMovesEpoch

LEMMA RestsKeeps ==
  ASSUME ClientSafe, NEW d \in Dialers, DialRests(d),
         UNCHANGED <<cs, clientLink, mintedTok, act, card, instOf>>
  PROVE  ClientSafe' /\ LoginMovesEpoch
<1>1. cs \in SessionRecs
  BY DEF ClientSafe, ClientTypes
<1>2. dialer' = [dialer EXCEPT ![d] = NoDial]
  BY DEF DialRests, DialSteps
<1> QED
  BY <1>1, <1>2, IdleDial, IdleDialOf, AttemptMoves DEF LoginMovesEpoch

LEMMA ReconnectsKeeps ==
  ASSUME ClientSafe, NEW d \in Dialers, Reconnects(d)
  PROVE  ClientSafe' /\ LoginMovesEpoch
<1>1. PICK q \in DialRecs : q = dialer[d]
  BY DEF ClientSafe, ClientTypes
<1>2. DialOf(q) /\ q.at = "read" /\ q.token \in 0..MaxToken
  BY <1>1 DEF ClientSafe, Reconnects, DialRecs
<1>3. CASE cs.gen = q.gen /\ cs.rs = q.rs
  <2>1. cs.mode = "remote" /\ (q.token # 0 => mintedTok[q.token].server = "remote")
    BY <1>2, <1>3 DEF DialOf
  <2>2. DialBegins(d, "redialling", q.token)
    BY <1>1, <1>3 DEF Reconnects
  <2> QED
    BY <1>2, <2>1, <2>2, BeginsKeeps
<1>4. CASE ~(cs.gen = q.gen /\ cs.rs = q.rs)
  <2>1. DialRests(d) /\ UNCHANGED <<cs, clientLink, mintedTok, act, card, instOf>>
    BY <1>1, <1>4 DEF Reconnects
  <2> QED
    BY <2>1, RestsKeeps
<1> QED
  BY <1>3, <1>4

LEMMA DialFailsKeeps ==
  ASSUME ClientSafe, NEW d \in Dialers, DialFails(d)
  PROVE  ClientSafe' /\ LoginMovesEpoch
  BY RestsKeeps DEF DialFails

\* The connection a dial made: an unused one.
LEMMA LinkMade ==
  ASSUME ClientSafe, NEW k \in 1..MaxConn, clientLink[k].st = "none", NEW l \in Links,
         l.server \in Servers, l.st # "none", clientLink' = [clientLink EXCEPT ![k] = l]
  PROVE  /\ clientLink' \in [1..MaxConn -> Links] /\ LinksKeep /\ UnusedLinks'
         /\ clientLink'[k] = l /\ \A i \in 1..MaxConn \ {k} : clientLink'[i] = clientLink[i]
  BY DEF ClientSafe, ClientTypes, LinksKeep, UnusedLinks

LEMMA SupersededKeeps ==
  ASSUME ClientSafe, NEW d \in Dialers, NEW k \in 1..MaxConn, clientLink[k].st = "none", Superseded(d, k),
         UNCHANGED <<mintedTok, act, card, instOf>>
  PROVE  ClientSafe' /\ LoginMovesEpoch
<1> USE DEF ClientSafe
<1>1. cs \in SessionRecs /\ UNCHANGED cs /\ dialer' = [dialer EXCEPT ![d] = NoDial]
  BY DEF ClientTypes, Superseded, DialRests, DialSteps
<1>2. ServerOf(d) \in Servers
  BY DEF ServerOf, Servers
<1>3. PICK l : l = [server |-> ServerOf(d), inst |-> instOf[ServerOf(d)], st |-> "closed"]
  OBVIOUS
<1>4. l \in Links /\ l.server \in Servers /\ l.st = "closed"
  BY <1>2, <1>3 DEF Links, LinkStates, ClientTypes
<1>5. clientLink' = [clientLink EXCEPT ![k] = l]
  BY <1>3 DEF Superseded
<1>6. /\ clientLink' \in [1..MaxConn -> Links] /\ LinksKeep /\ UnusedLinks'
      /\ clientLink'[k] = l /\ \A i \in 1..MaxConn \ {k} : clientLink'[i] = clientLink[i]
  BY <1>4, <1>5, LinkMade
<1>7. OpenIsInUse'
  BY <1>1, <1>4, <1>6 DEF OpenIsInUse, ClientTypes
<1>8. Onward /\ TokensKeep
  BY <1>1 DEF Onward, TokensKeep
<1>9. AtHome'
  <2>1. cs.client # 0 => cs.client \in 1..MaxConn
    BY <1>1, ClientAssumption DEF SessionRecs
  <2>2. cs.client # 0 => clientLink'[cs.client].server = clientLink[cs.client].server
    <3> SUFFICES ASSUME cs.client # 0 PROVE clientLink'[cs.client].server = clientLink[cs.client].server
      OBVIOUS
    <3>1. clientLink[cs.client].server # "none"
      BY <1>1 DEF AtHome, SessionRecs, Servers
    <3> QED
      BY <1>6, <2>1, <3>1 DEF LinksKeep
  <2> QED
    BY <1>1, <2>2 DEF AtHome
<1>10. DialOf(NoDial)' /\ ~DialsOut(NoDial)
  BY <1>1, IdleDialOf DEF DialOf, DialsOut
<1>11. \A e \in Dialers \ {d} : WaitsAlone(dialer[e])'
  <2> SUFFICES ASSUME NEW e \in Dialers \ {d} PROVE WaitsAlone(dialer[e])'
    OBVIOUS
  <2>1. dialer'[e] = dialer[e]
    BY <1>1 DEF ClientTypes
  <2> QED
    BY <2>1, <1>1 DEF DialOf, WaitsAlone, DialsOut
<1>12. ClientSafe'
  BY <1>1, <1>6, <1>7, <1>8, <1>9, <1>10, <1>11, IdleDial, AttemptKeeps DEF ClientTypes
<1> QED
  BY <1>1, <1>12 DEF LoginMovesEpoch

\* A dial that is still the session's connects it.
LEMMA ConnectsKeeps ==
  ASSUME ClientSafe, NEW d \in Dialers, NEW k \in 1..MaxConn, clientLink[k].st = "none",
         DialsOut(dialer[d]), cs.gen = dialer[d].gen,
         NEW l \in Links, l.server = cs.mode, l.st = "open", clientLink' = [clientLink EXCEPT ![k] = l],
         NEW c \in SessionRecs, cs' = c, c.gen = cs.gen, c.mode = cs.mode, c.client = k,
         c.token \in {cs.token, 0}, c.token # cs.token => c.epoch = cs.epoch + 1,
         NEW r \in DialRecs, dialer' = [dialer EXCEPT ![d] = r], ~DialsOut(r), DialOf(r)',
         UNCHANGED <<mintedTok, act, card, instOf>>
  PROVE  ClientSafe' /\ LoginMovesEpoch
<1> USE DEF ClientSafe
<1>1. cs \in SessionRecs /\ cs.mode \in Servers /\ cs.epoch \in Nat
  BY DEF ClientTypes, SessionRecs
<1>2. /\ clientLink' \in [1..MaxConn -> Links] /\ LinksKeep /\ UnusedLinks'
      /\ clientLink'[k] = l /\ \A i \in 1..MaxConn \ {k} : clientLink'[i] = clientLink[i]
  BY <1>1, LinkMade
<1>3. cs.client = 0
  BY DEF DialOf
<1>4. OpenIsInUse'
  <2> SUFFICES ASSUME NEW i \in 1..MaxConn, clientLink'[i].st = "open" PROVE i = k
    BY <1>2 DEF OpenIsInUse
  <2>1. i # 0
    BY ClientAssumption
  <2> QED
    BY <1>2, <1>3, <2>1 DEF OpenIsInUse, ClientTypes
<1>5. Onward /\ TokensKeep
  BY DEF Onward, TokensKeep
<1>6. AtHome'
  BY <1>2 DEF AtHome
<1>7. \A e \in Dialers \ {d} : WaitsAlone(dialer[e])'
  <2> SUFFICES ASSUME NEW e \in Dialers \ {d} PROVE WaitsAlone(dialer[e])'
    OBVIOUS
  <2>1. dialer'[e] = dialer[e]
    BY DEF ClientTypes
  <2>2. DialsOut(dialer[e]) => dialer[e].gen # cs.gen
    BY DEF DialsApart
  <2> QED
    BY <2>1, <2>2 DEF WaitsAlone, DialsOut
<1>8. ClientSafe'
  BY <1>2, <1>4, <1>5, <1>6, <1>7, AttemptKeeps DEF ClientTypes
<1> QED
  BY <1>1, <1>8 DEF LoginMovesEpoch

LEMMA DialAnswersKeeps ==
  ASSUME ClientSafe, NEW d \in Dialers, DialAnswers(d)
  PROVE  ClientSafe' /\ LoginMovesEpoch
<1> USE DEF ClientSafe
<1>1. PICK k \in 1..MaxConn : k = Lowest(FreeLinks) /\ clientLink[k].st = "none"
  BY FreeLinkIsUnused DEF DialAnswers
<1>2. PICK q \in DialRecs : q = dialer[d]
  BY DEF ClientTypes
<1>3. PICK v \in Servers : v = ServerOf(d)
  BY DEF ServerOf, Servers
<1>4. PICK i \in Nat : i = instOf[v]
  BY <1>3 DEF ClientTypes
<1>5. /\ q.at \in {"dialling", "redialling", "entering"} /\ DialsOut(q) /\ DialOf(q)
      /\ v = IF q.at = "dialling" THEN "local" ELSE "remote"
      /\ UNCHANGED <<mintedTok, act, card, instOf>>
  BY <1>2, <1>3 DEF DialAnswers, DialsOut, ServerOf
<1>6. CASE Superseded(d, k)
  BY <1>1, <1>5, <1>6, SupersededKeeps
<1>7. CASE ~Superseded(d, k)
  <2>1. PICK l : l = [server |-> v, inst |-> i, st |-> "open"]
    OBVIOUS
  <2>2. l \in Links /\ l.server = v /\ l.st = "open"
    BY <2>1 DEF Links, LinkStates
  <2>3. cs.gen = q.gen /\ clientLink' = [clientLink EXCEPT ![k] = l]
    BY <1>1, <1>2, <1>3, <1>4, <1>7, <2>1 DEF DialAnswers
  <2>4. cs.mode = v /\ cs \in SessionRecs
    BY <1>5, <2>3 DEF DialOf, ClientTypes
  <2>5. CASE v = "local"
    <3>1. PICK b \in SessionRecs : b = (IF cs.inst # 0 /\ cs.inst # i THEN ForgetLogin(cs) ELSE cs)
      BY <2>4, ForgetIs
    <3>2. /\ b.gen = cs.gen /\ b.mode = cs.mode /\ b.token \in {cs.token, 0}
          /\ b.token # cs.token => b.epoch = cs.epoch + 1
      BY <2>4, <3>1, ForgetIs
    <3>3. PICK c : c = [b EXCEPT !.client = k, !.inst = i]
      OBVIOUS
    <3>4. k \in 0..MaxConn
      BY ClientAssumption
    <3>5. c \in SessionRecs
      BY <3>3, <3>4 DEF SessionRecs
    <3>6. /\ c.gen = b.gen /\ c.mode = b.mode /\ c.client = k /\ c.token = b.token
          /\ c.epoch = b.epoch
      BY <3>3 DEF SessionRecs
    <3>7. cs' = c /\ dialer' = [dialer EXCEPT ![d] = NoDial]
      BY <1>1, <1>2, <1>3, <1>4, <1>7, <2>5, <3>1, <3>3 DEF DialAnswers, DialRests, DialSteps
    <3>8. DialOf(NoDial)' /\ ~DialsOut(NoDial)
      BY <3>5, <3>7, IdleDial DEF DialOf, DialsOut, SessionRecs
    <3> QED
      BY <1>1, <1>2, <1>5, <2>2, <2>3, <2>4, <3>2, <3>5, <3>6, <3>7, <3>8, IdleDial, ConnectsKeeps
  <2>6. CASE v = "remote"
    <3>1. PICK c : c = [cs EXCEPT !.client = k, !.inst = IF @ = 0 THEN i ELSE @]
      OBVIOUS
    <3>2. k \in 0..MaxConn
      BY ClientAssumption
    <3>3. PICK j \in Nat : j = IF cs.inst = 0 THEN i ELSE cs.inst
      BY <2>4 DEF SessionRecs
    <3>4. c = [cs EXCEPT !.client = k, !.inst = j]
      BY <2>4, <3>1, <3>3 DEF SessionRecs
    <3>5. c \in SessionRecs
      BY <2>4, <3>4, <3>2 DEF SessionRecs
    <3>6. c.gen = cs.gen /\ c.mode = cs.mode /\ c.client = k /\ c.token = cs.token
      BY <2>4, <3>4 DEF SessionRecs
    <3>7. PICK at \in {"signing", "greeted"} : at = IF q.at = "entering" THEN "signing" ELSE "greeted"
      OBVIOUS
    <3>8. PICK r : r = [q EXCEPT !.conn = k, !.at = at]
      OBVIOUS
    <3>9. r \in DialRecs /\ r.at = at /\ r.gen = q.gen /\ r.token = q.token /\ r.conn # 0
      <4>1. k # 0
        BY ClientAssumption
      <4> QED
        BY <3>2, <3>7, <3>8, <4>1 DEF DialRecs, DialStages
    <3>10. cs' = c /\ dialer' = [dialer EXCEPT ![d] = r]
      <4>1. [dialer[d] EXCEPT !.conn = k, !.at = IF @ = "entering" THEN "signing" ELSE "greeted"] = r
        BY <1>2, <3>7, <3>8 DEF DialRecs
      <4>2. /\ cs' = [cs EXCEPT !.client = k, !.inst = IF @ = 0 THEN instOf[v] ELSE @]
            /\ DialSteps(d, [dialer[d] EXCEPT !.conn = k, !.at = IF @ = "entering" THEN "signing" ELSE "greeted"])
        BY <1>1, <1>2, <1>3, <1>7, <2>6 DEF DialAnswers
      <4> QED
        BY <1>4, <3>1, <4>1, <4>2 DEF DialSteps
    <3>11. DialOf(r)' /\ ~DialsOut(r)
      <4>1. cs.gen \in Nat /\ q.at # "dialling" /\ q.at # "idle"
        BY <1>5, <2>4, <2>6 DEF SessionRecs
      <4> QED
        BY <1>5, <2>3, <2>4, <2>6, <3>6, <3>7, <3>9, <3>10, <4>1 DEF DialOf, DialsOut
    <3> QED
      BY <1>1, <1>2, <1>5, <2>2, <2>3, <2>4, <3>5, <3>6, <3>9, <3>10, <3>11, ConnectsKeeps
  <2> QED
    BY <2>5, <2>6 DEF Servers
<1> QED
  BY <1>6, <1>7

\* A step of an attempt that changes the session's login or its record of the server, and begins
\* no dial.
LEMMA SettlesKeeps ==
  ASSUME ClientSafe, NEW d \in Dialers, NEW r \in DialRecs, dialer' = [dialer EXCEPT ![d] = r],
         ~DialsOut(r), NEW c \in SessionRecs, cs' = c, c.gen = cs.gen, c.mode = cs.mode,
         c.client = cs.client, mintedTok' \in [1..MaxToken -> Tokens], TokensKeep,
         c.token # 0 => mintedTok'[c.token].server = c.mode, DialOf(r)',
         UNCHANGED <<clientLink, act, card, instOf>>
  PROVE  ClientSafe'
<1> USE DEF ClientSafe
<1>1. cs \in SessionRecs
  BY DEF ClientTypes
<1>2. Onward /\ LinksKeep
  BY DEF Onward, LinksKeep
<1>3. AtHome' /\ UnusedLinks' /\ OpenIsInUse'
  BY DEF AtHome, UnusedLinks, OpenIsInUse
<1>4. \A e \in Dialers \ {d} : WaitsAlone(dialer[e])'
  <2> SUFFICES ASSUME NEW e \in Dialers \ {d} PROVE WaitsAlone(dialer[e])'
    OBVIOUS
  <2>1. dialer'[e] = dialer[e]
    BY DEF ClientTypes
  <2> QED
    BY <2>1 DEF DialOf, WaitsAlone, DialsOut
<1> QED
  BY <1>1, <1>2, <1>3, <1>4, AttemptKeeps DEF ClientTypes

LEMMA NotesInstanceKeeps ==
  ASSUME ClientSafe, NEW d \in Dialers, NotesInstance(d)
  PROVE  ClientSafe' /\ LoginMovesEpoch
<1> USE DEF ClientSafe
<1>1. PICK q \in DialRecs : q = dialer[d] /\ DialOf(q) /\ q.at = "greeted"
  BY DEF ClientTypes, NotesInstance
<1>2. PICK at \in {"dropping", "resuming"} :
        /\ dialer' = [dialer EXCEPT ![d] = [q EXCEPT !.at = at]]
        /\ at = "resuming" => q.token # 0
  <2>1. PICK t : t = IF q.token = 0 \/ (cs.inst # 0 /\ cs.inst # clientLink[q.conn].inst) THEN "dropping" ELSE "resuming"
    OBVIOUS
  <2>2. dialer' = [dialer EXCEPT ![d] = [q EXCEPT !.at = t]]
    BY <1>1, <2>1 DEF NotesInstance, DialSteps
  <2> QED
    BY <2>1, <2>2
<1>3. PICK r : r = [q EXCEPT !.at = at]
  OBVIOUS
<1>4. r \in DialRecs /\ r.at = at /\ r.gen = q.gen /\ r.token = q.token /\ ~DialsOut(r)
  BY <1>3 DEF DialRecs, DialStages, DialsOut
<1>5. cs \in SessionRecs
  BY DEF ClientTypes
<1>6. q.conn \in 0..MaxConn /\ q.conn # 0 /\ MaxConn \in Nat
  BY <1>1, ClientAssumption DEF DialRecs, DialOf
<1>7. PICK i : i = clientLink[q.conn].inst
  OBVIOUS
<1>8. cs' = [cs EXCEPT !.inst = i]
  BY <1>1, <1>7 DEF NotesInstance
<1>9. CASE q.conn \in 1..MaxConn
  <2>1. i \in Nat
    BY <1>7, <1>9 DEF ClientTypes, Links
  <2>2. PICK c \in SessionRecs : c = [cs EXCEPT !.inst = i]
    BY <1>5, <2>1 DEF SessionRecs
  <2>3. c.gen = cs.gen /\ c.mode = cs.mode /\ c.client = cs.client /\ c.token = cs.token
    BY <1>5, <2>2 DEF SessionRecs
  <2>4. cs' = c /\ UNCHANGED <<mintedTok, clientLink, act, card, instOf>>
    BY <1>8, <2>2 DEF NotesInstance
  <2>5. TokensKeep /\ mintedTok' \in [1..MaxToken -> Tokens]
    BY <2>4 DEF TokensKeep, ClientTypes
  <2>6. DialOf(r)'
    BY <1>1, <1>2, <1>4, <2>3, <2>4 DEF DialOf, DialsOut
  <2>7. ClientSafe'
    BY <1>2, <1>3, <1>4, <2>3, <2>4, <2>5, <2>6, SettlesKeeps DEF AtHome
  <2> QED
    BY <2>3, <2>4, <2>7 DEF LoginMovesEpoch
<1> QED
  BY <1>6, <1>9

LEMMA ResumeAnswersKeeps ==
  ASSUME ClientSafe, NEW d \in Dialers, ResumeAnswers(d)
  PROVE  ClientSafe' /\ LoginMovesEpoch
<1> USE DEF ClientSafe
<1>1. PICK q \in DialRecs : q = dialer[d] /\ DialOf(q) /\ q.at = "resuming"
  BY DEF ClientTypes, ResumeAnswers
<1>2. UNCHANGED <<cs, clientLink, mintedTok, act, card, instOf>>
  BY DEF ResumeAnswers
<1>3. PICK r : r = [q EXCEPT !.at = "dropping"]
  OBVIOUS
<1>4. r \in DialRecs /\ r.at = "dropping" /\ r.gen = q.gen /\ r.token = q.token
  BY <1>3 DEF DialRecs, DialStages
<1>5. CASE DialRests(d)
  BY <1>2, <1>5, RestsKeeps
<1>6. CASE dialer' = [dialer EXCEPT ![d] = r]
  <2>1. DialOf(r) /\ ~DialsOut(r)
    BY <1>1, <1>4 DEF DialOf, DialsOut
  <2> QED
    BY <1>2, <1>4, <1>6, <2>1, AttemptMoves DEF LoginMovesEpoch
<1> QED
  BY <1>1, <1>3, <1>5, <1>6 DEF ResumeAnswers, DialSteps

LEMMA IdleDialStays ==
  ASSUME cs' \in SessionRecs
  PROVE  DialOf(NoDial)'
<1>1. cs'.gen \in Nat
  BY DEF SessionRecs
<1> QED
  BY <1>1, IdleDial DEF DialOf, DialsOut

LEMMA DropsLoginKeeps ==
  ASSUME ClientSafe, NEW d \in Dialers, DropsLogin(d)
  PROVE  ClientSafe' /\ LoginMovesEpoch
<1> USE DEF ClientSafe
<1>1. cs \in SessionRecs /\ cs.epoch \in Nat
  BY DEF ClientTypes, SessionRecs
<1>2. PICK c \in SessionRecs : c = IF cs.gen = dialer[d].gen THEN DropLogin(cs) ELSE cs
  BY <1>1, DropIs
<1>3. /\ c.gen = cs.gen /\ c.mode = cs.mode /\ c.client = cs.client /\ c.token \in {0, cs.token}
      /\ c.token # cs.token => c.epoch = cs.epoch + 1
  BY <1>1, <1>2, DropIs
<1>4. cs' = c /\ UNCHANGED <<mintedTok, clientLink, act, card, instOf>>
      /\ dialer' = [dialer EXCEPT ![d] = NoDial]
  BY <1>2 DEF DropsLogin, DialRests, DialSteps
<1>5. TokensKeep /\ mintedTok' \in [1..MaxToken -> Tokens]
  BY <1>4 DEF TokensKeep, ClientTypes
<1>6. c.token # 0 => mintedTok'[c.token].server = c.mode
  BY <1>3, <1>4 DEF AtHome
<1>7. ClientSafe'
  BY <1>1, <1>3, <1>4, <1>5, <1>6, IdleDial, IdleDialOf, IdleDialStays, SettlesKeeps
<1> QED
  BY <1>1, <1>3, <1>4, <1>7 DEF LoginMovesEpoch

\* A login mints a token that was nobody's.
LEMMA TokenMinted ==
  ASSUME ClientSafe, NEW n \in 1..MaxToken, mintedTok[n].server = "none", NEW v \in Servers, NEW i \in Nat,
         mintedTok' = [mintedTok EXCEPT ![n] = [server |-> v, inst |-> i, ended |-> FALSE]]
  PROVE  mintedTok' \in [1..MaxToken -> Tokens] /\ TokensKeep /\ mintedTok'[n].server = v
<1>1. PICK m : m = [server |-> v, inst |-> i, ended |-> FALSE]
  OBVIOUS
<1>2. m \in Tokens /\ m.server = v
  BY <1>1 DEF Tokens
<1>3. mintedTok' = [mintedTok EXCEPT ![n] = m]
  BY <1>1
<1> QED
  BY <1>2, <1>3 DEF ClientSafe, ClientTypes, TokensKeep

\* A token that stood with its server goes on doing so.
LEMMA HomeStays ==
  ASSUME ClientSafe, TokensKeep, cs.token # 0
  PROVE  mintedTok'[cs.token].server = cs.mode
<1>1. cs.token \in 1..MaxToken /\ cs.mode \in Servers
  BY ClientAssumption DEF ClientSafe, ClientTypes, SessionRecs
<1>2. mintedTok[cs.token].server = cs.mode /\ cs.mode # "none"
  BY <1>1 DEF ClientSafe, AtHome, Servers
<1> QED
  BY <1>1, <1>2 DEF TokensKeep

LEMMA RemoteSignsInKeeps ==
  ASSUME ClientSafe, NEW d \in Dialers, RemoteSignsIn(d)
  PROVE  ClientSafe' /\ LoginMovesEpoch
<1> USE DEF ClientSafe
<1>1. PICK q \in DialRecs : q = dialer[d] /\ DialOf(q) /\ q.at = "signing"
  BY DEF ClientTypes, RemoteSignsIn
<1>2. UNCHANGED <<cs, clientLink, act, card, instOf>> /\ cs \in SessionRecs
  BY DEF RemoteSignsIn, ClientTypes
<1>3. CASE DialRests(d) /\ UNCHANGED mintedTok
  BY <1>2, <1>3, RestsKeeps
<1>4. CASE Usable(q.conn) /\ FreeTokens # {} /\ ~(DialRests(d) /\ UNCHANGED mintedTok)
  <2>1. PICK n \in 1..MaxToken : n = Lowest(FreeTokens) /\ mintedTok[n].server = "none"
    BY <1>4, FreeTokenIsUnused
  <2>2. n \in 0..MaxToken /\ n # 0
    BY ClientAssumption
  <2>3. PICK r : r = [q EXCEPT !.at = "entered", !.token = n]
    OBVIOUS
  <2>4. r \in DialRecs /\ r.at = "entered" /\ r.gen = q.gen /\ r.token = n
    BY <2>2, <2>3 DEF DialRecs, DialStages
  <2>5. q.conn \in 1..MaxConn
    BY <1>4, ClientAssumption DEF Usable, DialRecs
  <2>6. PICK i \in Nat : i = clientLink[q.conn].inst
    BY <2>5 DEF ClientTypes, Links
  <2>7. /\ mintedTok' = [mintedTok EXCEPT ![n] = [server |-> "remote", inst |-> i, ended |-> FALSE]]
        /\ dialer' = [dialer EXCEPT ![d] = r]
    BY <1>1, <1>4, <2>1, <2>3, <2>6 DEF RemoteSignsIn, DialSteps
  <2>8. "remote" \in Servers
    BY DEF Servers
  <2>9. mintedTok' \in [1..MaxToken -> Tokens] /\ TokensKeep /\ mintedTok'[n].server = "remote"
    BY <2>1, <2>6, <2>7, <2>8, TokenMinted
  <2>10. DialOf(r)' /\ ~DialsOut(r)
    BY <1>1, <1>2, <2>2, <2>4, <2>9 DEF DialOf, DialsOut
  <2>11. cs.token # 0 => mintedTok'[cs.token].server = cs.mode
    BY <2>9, HomeStays
  <2>12. ClientSafe'
    BY <1>2, <2>4, <2>7, <2>9, <2>10, <2>11, SettlesKeeps
  <2> QED
    BY <1>2, <2>12 DEF LoginMovesEpoch
<1> QED
  BY <1>1, <1>3, <1>4 DEF RemoteSignsIn

LEMMA AdoptsKeyKeeps ==
  ASSUME ClientSafe, NEW d \in Dialers, AdoptsKey(d)
  PROVE  ClientSafe' /\ LoginMovesEpoch
<1> USE DEF ClientSafe
<1>1. PICK q \in DialRecs : q = dialer[d] /\ DialOf(q) /\ q.at = "entered"
  BY DEF ClientTypes, AdoptsKey
<1>2. cs \in SessionRecs
  BY DEF ClientTypes
<1>3. [cs EXCEPT !.keyed = TRUE] \in SessionRecs
  BY <1>2 DEF SessionRecs
<1>4. PICK c \in SessionRecs : c = IF cs.rs = q.rs THEN [cs EXCEPT !.keyed = TRUE] ELSE cs
  BY <1>2, <1>3
<1>5. c.gen = cs.gen /\ c.mode = cs.mode /\ c.client = cs.client /\ c.token = cs.token
  BY <1>2, <1>4 DEF SessionRecs
<1>6. PICK r : r = [q EXCEPT !.at = "adopting"]
  OBVIOUS
<1>7. r \in DialRecs /\ r.at = "adopting" /\ r.gen = q.gen /\ r.token = q.token
  BY <1>6 DEF DialRecs, DialStages
<1>8. /\ cs' = c /\ UNCHANGED <<mintedTok, clientLink, act, card, instOf>>
      /\ dialer' = [dialer EXCEPT ![d] = r]
  BY <1>1, <1>4, <1>6 DEF AdoptsKey, DialSteps
<1>9. TokensKeep /\ mintedTok' \in [1..MaxToken -> Tokens]
  BY <1>8 DEF TokensKeep, ClientTypes
<1>10. DialOf(r)' /\ ~DialsOut(r)
  BY <1>1, <1>5, <1>7, <1>8 DEF DialOf, DialsOut
<1>11. c.token # 0 => mintedTok'[c.token].server = c.mode
  BY <1>5, <1>8 DEF AtHome
<1>12. ClientSafe'
  BY <1>5, <1>7, <1>8, <1>9, <1>10, <1>11, SettlesKeeps
<1> QED
  BY <1>5, <1>8, <1>12 DEF LoginMovesEpoch

LEMMA AdoptsSignInKeeps ==
  ASSUME ClientSafe, NEW d \in Dialers, AdoptsSignIn(d)
  PROVE  ClientSafe' /\ LoginMovesEpoch
<1> USE DEF ClientSafe
<1>1. PICK q \in DialRecs : q = dialer[d] /\ DialOf(q) /\ q.at = "adopting"
  BY DEF ClientTypes, AdoptsSignIn
<1>2. cs \in SessionRecs /\ cs.epoch \in Nat
  BY DEF ClientTypes, SessionRecs
<1>3. q.gen \in Nat /\ q.token \in 0..MaxToken
  BY DEF DialRecs
<1>4. PICK c \in SessionRecs : c = AdoptLogin(cs, q.gen, q.token)
  BY <1>2, <1>3, AdoptIs DEF Adopted
<1>5. Adopted(c, cs, q.gen, q.token)
  BY <1>2, <1>3, <1>4, AdoptIs
<1>6. /\ cs' = c /\ UNCHANGED <<mintedTok, clientLink, act, card, instOf>>
      /\ dialer' = [dialer EXCEPT ![d] = NoDial]
  BY <1>1, <1>4 DEF AdoptsSignIn, DialRests, DialSteps
<1>7. TokensKeep /\ mintedTok' \in [1..MaxToken -> Tokens]
  BY <1>6 DEF TokensKeep, ClientTypes
<1>8. c.token # 0 => mintedTok'[c.token].server = c.mode
  BY <1>1, <1>5, <1>6 DEF AtHome, DialOf, Adopted
<1>9. ClientSafe'
  BY <1>2, <1>5, <1>6, <1>7, <1>8, IdleDial, IdleDialOf, IdleDialStays, SettlesKeeps DEF Adopted
<1> QED
  BY <1>2, <1>5, <1>6, <1>9 DEF LoginMovesEpoch, Adopted

-----------------------------------------------------------------------------
(* Transitions. *)

\* A transition that begins: the generation moves on, the transport is closed, the login stays
\* on its server or is forgotten.
LEMMA TransitionKeeps ==
  ASSUME ClientSafe, Turns, NEW c \in SessionRecs, cs' = c, c.gen = cs.gen + 1, c.client = 0,
         c.token # 0 => c.token = cs.token /\ c.mode = cs.mode,
         UNCHANGED <<mintedTok, dialer, act, instOf, card>>
  PROVE  ClientSafe'
<1> USE DEF ClientSafe
<1>1. cs.gen \in Nat
  BY DEF ClientTypes, SessionRecs
<1>2. /\ clientLink' \in [1..MaxConn -> Links] /\ LinksKeep /\ UnusedLinks'
      /\ \A k \in 1..MaxConn : clientLink'[k].st # "open"
  BY TurnCloses
<1>3. OpenIsInUse'
  BY <1>2 DEF OpenIsInUse
<1>4. Onward /\ TokensKeep /\ cs'.gen > cs.gen
  BY <1>1 DEF Onward, TokensKeep
<1>5. AtHome'
  BY DEF AtHome
<1> QED
  BY <1>2, <1>3, <1>4, <1>5, SessionMoveKeeps DEF ClientTypes

LEMMA SwitchKeeps ==
  ASSUME ClientSafe, SwitchToRemote \/ SwitchToLocal
  PROVE  ClientSafe' /\ LoginMovesEpoch
<1> USE DEF ClientSafe
<1>1. cs \in SessionRecs /\ cs.epoch \in Nat
  BY DEF ClientTypes, SessionRecs
<1>2. PICK b \in SessionRecs : b = ForgetLogin(Turn(cs))
  BY <1>1, TurnIs, ForgetIs
<1>3. b.gen = cs.gen + 1 /\ b.client = 0 /\ b.token = 0 /\ b.epoch = cs.epoch + 1
  <2>1. PICK t \in SessionRecs : t = Turn(cs)
    BY <1>1, TurnIs
  <2>2. t.gen = cs.gen + 1 /\ t.client = 0 /\ t.epoch = cs.epoch
    BY <1>1, <2>1, TurnIs
  <2> QED
    BY <1>2, <2>1, <2>2, ForgetIs
<1>4. PICK v \in Servers : cs' = [b EXCEPT !.mode = v, !.inst = 0, !.rs = @ + 1, !.keyed = FALSE]
  BY <1>2 DEF SwitchToRemote, SwitchToLocal, Servers
<1>5. Turns /\ UNCHANGED <<mintedTok, dialer, act, instOf, card>>
  BY DEF SwitchToRemote, SwitchToLocal
<1>6. b.rs + 1 \in Nat
  BY DEF SessionRecs
<1>7. PICK c : c = [b EXCEPT !.mode = v, !.inst = 0, !.rs = b.rs + 1, !.keyed = FALSE]
  OBVIOUS
<1>8. c \in SessionRecs
  BY <1>6, <1>7 DEF SessionRecs
<1>9. c.gen = cs.gen + 1 /\ c.client = 0 /\ c.token = 0 /\ c.epoch = cs.epoch + 1
  BY <1>3, <1>7 DEF SessionRecs
<1>10. cs' = c
  BY <1>4, <1>7 DEF SessionRecs
<1>11. ClientSafe'
  BY <1>5, <1>8, <1>9, <1>10, TransitionKeeps
<1> QED
  BY <1>1, <1>9, <1>10, <1>11 DEF LoginMovesEpoch

LEMMA ForgetRemoteKeeps ==
  ASSUME ClientSafe, ForgetRemote
  PROVE  ClientSafe' /\ LoginMovesEpoch
<1> USE DEF ClientSafe
<1>1. cs \in SessionRecs /\ cs.epoch \in Nat
  BY DEF ClientTypes, SessionRecs
<1>2. PICK t \in SessionRecs : t = Turn(cs)
  BY <1>1, TurnIs
<1>3. t.gen = cs.gen + 1 /\ t.client = 0 /\ t.epoch = cs.epoch /\ t.token = cs.token
  BY <1>1, <1>2, TurnIs
<1>4. PICK b \in SessionRecs : b = DropLogin(t)
  BY DropIs
<1>5. b.gen = t.gen /\ b.client = 0 /\ b.token = 0 /\ (b.token # t.token => b.epoch = t.epoch + 1)
  BY <1>3, <1>4, DropIs
<1>6. PICK c : c = [b EXCEPT !.keyed = FALSE]
  OBVIOUS
<1>7. c \in SessionRecs
  BY <1>6 DEF SessionRecs
<1>8. c.gen = b.gen /\ c.client = 0 /\ c.token = 0 /\ c.epoch = b.epoch
  BY <1>5, <1>6 DEF SessionRecs
<1>9. cs' = c /\ Turns /\ UNCHANGED <<mintedTok, dialer, act, instOf, card>>
  BY <1>2, <1>4, <1>6 DEF ForgetRemote
<1>10. ClientSafe'
  BY <1>3, <1>5, <1>7, <1>8, <1>9, TransitionKeeps
<1> QED
  BY <1>1, <1>3, <1>5, <1>8, <1>9, <1>10 DEF LoginMovesEpoch

LEMMA DisconnectKeeps ==
  ASSUME ClientSafe, Disconnect
  PROVE  ClientSafe' /\ LoginMovesEpoch
<1>1. cs \in SessionRecs
  BY DEF ClientSafe, ClientTypes
<1>2. PICK t \in SessionRecs : t = Turn(cs)
  BY <1>1, TurnIs
<1>3. t.gen = cs.gen + 1 /\ t.client = 0 /\ t.mode = cs.mode /\ t.token = cs.token
  BY <1>1, <1>2, TurnIs
<1>4. cs' = t /\ Turns /\ UNCHANGED <<mintedTok, dialer, act, instOf, card>>
  BY <1>2 DEF Disconnect
<1>5. ClientSafe'
  BY <1>3, <1>4, TransitionKeeps
<1> QED
  BY <1>3, <1>4, <1>5 DEF LoginMovesEpoch

LEMMA RestartsKeeps ==
  ASSUME ClientSafe, NEW v \in Servers, ServerRestarts(v)
  PROVE  ClientSafe' /\ LoginMovesEpoch
<1> USE DEF ClientSafe
<1>1. cs \in SessionRecs /\ UNCHANGED <<cs, mintedTok, dialer, act, card>>
  BY DEF ClientTypes, ServerRestarts
<1>2. instOf' \in [Servers -> Nat]
  BY DEF ClientTypes, ServerRestarts
<1>3. PICK l \in [1..MaxConn -> Links] : l = clientLink
  BY DEF ClientTypes
<1>4. PICK ks : ks = {k \in DOMAIN clientLink : clientLink[k].server = v}
  OBVIOUS
<1>5. clientLink' = Closes(l, ks)
  BY <1>3, <1>4 DEF ServerRestarts
<1>6. ClosedOf(Closes(l, ks), l, ks)
  BY ClosesIs
<1>7. /\ clientLink' \in [1..MaxConn -> Links] /\ DOMAIN clientLink = 1..MaxConn
      /\ \A k \in 1..MaxConn : /\ clientLink'[k].server = clientLink[k].server
                               /\ clientLink'[k].st = "open" => clientLink[k].st = "open"
                               /\ clientLink'[k].st = "none" => clientLink[k].st = "none"
  BY <1>3, <1>5, <1>6 DEF ClosedOf
<1>8. LinksKeep /\ UnusedLinks' /\ OpenIsInUse'
  BY <1>1, <1>7 DEF LinksKeep, UnusedLinks, OpenIsInUse
<1>9. Onward /\ TokensKeep
  BY <1>1 DEF Onward, TokensKeep
<1>10. AtHome'
  <2>1. cs.client # 0 => cs.client \in 1..MaxConn
    BY <1>1, ClientAssumption DEF SessionRecs
  <2> QED
    BY <1>1, <1>7, <2>1 DEF AtHome
<1>11. ClientSafe'
  BY <1>1, <1>2, <1>7, <1>8, <1>9, <1>10, SessionMoveKeeps DEF ClientTypes
<1> QED
  BY <1>1, <1>11 DEF LoginMovesEpoch


-----------------------------------------------------------------------------
(* The actions. *)

LEMMA IdleAct == NoAct \in ActRecs /\ NoAct.at = "idle" /\ NoAct.gen = 0
  BY ZeroIsIn DEF NoAct, ActRecs, ActStages

LEMMA IdleActOf ==
  ASSUME cs \in SessionRecs
  PROVE  ActOf(NoAct)
<1>1. cs.gen \in Nat
  BY DEF SessionRecs
<1> QED
  BY <1>1, IdleAct DEF ActOf

\* A step that moves nothing but an action, and shows no card.
LEMMA ActMoves ==
  ASSUME ClientSafe, NEW a \in Actions, act[a].at # "shown", NEW r \in ActRecs, act' = [act EXCEPT ![a] = r],
         ActOf(r), UNCHANGED <<cs, clientLink, mintedTok, dialer, instOf, card>>
  PROVE  ClientSafe' /\ LoginMovesEpoch
<1> USE DEF ClientSafe
<1>1. cs \in SessionRecs
  BY DEF ClientTypes
<1>2. TokensKeep /\ mintedTok' \in [1..MaxToken -> Tokens]
  BY DEF TokensKeep, ClientTypes
<1>3. AtHome' /\ ActOf(r)'
  BY DEF AtHome, ActOf
<1>4. \A e \in Actions \ {a} : act'[e] = act[e]
  BY DEF ClientTypes
<1>5. CardsStand'
  BY <1>4 DEF CardsStand
<1>6. ClientSafe'
  BY <1>1, <1>2, <1>3, <1>5, ActionKeeps
<1> QED
  BY <1>6 DEF LoginMovesEpoch

\* An action ends without a trace.
LEMMA ActRests ==
  ASSUME ClientSafe, NEW a \in Actions, act[a].at # "shown", Does(a, NoAct),
         UNCHANGED <<cs, clientLink, mintedTok, dialer, instOf, card>>
  PROVE  ClientSafe' /\ LoginMovesEpoch
<1>1. cs \in SessionRecs
  BY DEF ClientSafe, ClientTypes
<1>2. act' = [act EXCEPT ![a] = NoAct]
  BY DEF Does
<1> QED
  BY <1>1, <1>2, IdleAct, IdleActOf, ActMoves

\* An action comes as far as at.
LEMMA ActComes ==
  ASSUME ClientSafe, NEW a \in Actions, NEW q \in ActRecs, q = act[a], q.at \notin {"shown", "idle"},
         NEW at \in ActStages \ {"idle"}, at = "answered" => q.verb # "login", at = "refused" => q.verb # "login",
         at \in {"minted", "posted", "shown"} => q.pat = "live", at # "undone",
         Does(a, [q EXCEPT !.at = at]), UNCHANGED <<cs, clientLink, mintedTok, dialer, instOf, card>>
  PROVE  ClientSafe' /\ LoginMovesEpoch
<1>1. PICK r : r = [q EXCEPT !.at = at]
  OBVIOUS
<1>2. /\ r \in ActRecs /\ r.at = at /\ r.gen = q.gen /\ r.conn = q.conn /\ r.token = q.token
      /\ r.verb = q.verb /\ r.got = q.got /\ r.pat = q.pat
  BY <1>1 DEF ActRecs
<1>3. ActOf(q)
  BY DEF ClientSafe
<1>4. ActOf(r)
  BY <1>2, <1>3 DEF ActOf
<1>5. act' = [act EXCEPT ![a] = r]
  BY <1>1 DEF Does
<1> QED
  BY <1>2, <1>4, <1>5, ActMoves

LEMMA BindsKeeps ==
  ASSUME ClientSafe, NEW a \in Actions, NEW verb \in Verbs, Binds(a, verb)
  PROVE  ClientSafe' /\ LoginMovesEpoch
<1> USE DEF ClientSafe
<1>1. cs \in SessionRecs /\ verb \in AllVerbs
  BY ClientAssumption DEF ClientTypes
<1>2. /\ cs.gen \in Nat /\ cs.client \in 0..MaxConn /\ cs.token \in 0..MaxToken /\ cs.epoch \in Nat
      /\ cs.mode \in Servers /\ cs.client # 0
  BY <1>1 DEF SessionRecs, Binds
<1>3. PICK r : r = [NoAct EXCEPT !.at = "ensured", !.verb = verb, !.gen = cs.gen, !.conn = cs.client,
                                 !.token = cs.token, !.epoch = cs.epoch]
  OBVIOUS
<1>4. r \in ActRecs /\ r.at = "ensured" /\ r.verb = verb /\ r.gen = cs.gen /\ r.conn = cs.client /\ r.token = cs.token
  BY <1>1, <1>2, <1>3, IdleAct DEF ActRecs, ActStages
<1>5. ActOf(r)
  BY <1>1, <1>2, <1>4 DEF ActOf, AtHome
<1>6. /\ act' = [act EXCEPT ![a] = r] /\ act[a].at # "shown"
      /\ UNCHANGED <<cs, clientLink, mintedTok, dialer, instOf, card>>
  BY <1>3 DEF Binds, Does
<1> QED
  BY <1>4, <1>5, <1>6, ActMoves

LEMMA CallFailsKeeps ==
  ASSUME ClientSafe, NEW a \in Actions, CallFails(a)
  PROVE  ClientSafe' /\ LoginMovesEpoch
<1> USE DEF ClientSafe
<1>1. PICK q \in ActRecs : q = act[a] /\ q.at \in {"ensured", "sent"}
  BY DEF ClientTypes, CallFails
<1>2. UNCHANGED <<cs, clientLink, mintedTok, dialer, instOf, card>>
  BY DEF CallFails
<1>3. "answered" \in ActStages /\ "compensating" \in ActStages
  BY DEF ActStages
<1>4. CASE q.verb = "logout"
  <2>1. Does(a, [q EXCEPT !.at = "answered"])
    BY <1>1, <1>4 DEF CallFails
  <2> QED
    BY <1>1, <1>2, <1>3, <1>4, <2>1, ActComes
<1>5. CASE q.verb = "mint" /\ q.at = "sent"
  <2>1. Does(a, [q EXCEPT !.at = "compensating"])
    BY <1>1, <1>5 DEF CallFails
  <2> QED
    BY <1>1, <1>2, <1>3, <2>1, ActComes
<1>6. CASE q.verb # "logout" /\ ~(q.verb = "mint" /\ q.at = "sent")
  <2>1. Does(a, NoAct)
    BY <1>1, <1>6 DEF CallFails
  <2> QED
    BY <1>1, <1>2, <2>1, ActRests
<1> QED
  BY <1>4, <1>5, <1>6

LEMMA SendsKeeps ==
  ASSUME ClientSafe, NEW a \in Actions, Sends(a) \/ AnswersAuth(a)
  PROVE  ClientSafe' /\ LoginMovesEpoch
<1> USE DEF ClientSafe
<1>1. PICK q \in ActRecs : q = act[a] /\ q.at \in {"ensured", "sent"}
  BY DEF ClientTypes, Sends, AnswersAuth
<1>2. UNCHANGED <<cs, clientLink, mintedTok, dialer, instOf, card>>
  BY DEF Sends, AnswersAuth
<1>3. "sent" \in ActStages /\ "refused" \in ActStages
  BY DEF ActStages
<1>4. CASE Sends(a)
  <2>1. Does(a, [q EXCEPT !.at = "sent"])
    BY <1>1, <1>4 DEF Sends
  <2> QED
    BY <1>1, <1>2, <1>3, <2>1, ActComes
<1>5. CASE AnswersAuth(a)
  <2>1. Does(a, [q EXCEPT !.at = "refused"]) /\ q.verb # "login"
    BY <1>1, <1>5 DEF AnswersAuth
  <2> QED
    BY <1>1, <1>2, <1>3, <2>1, ActComes
<1> QED
  BY <1>4, <1>5

\* What the server did while the action's call was with it.
LEMMA ServedKeeps ==
  ASSUME ClientSafe, NEW a \in Actions, act[a].at # "shown", NEW r \in ActRecs, act' = [act EXCEPT ![a] = r],
         mintedTok' \in [1..MaxToken -> Tokens], TokensKeep, ActOf(r)',
         UNCHANGED <<cs, clientLink, dialer, instOf, card>>
  PROVE  ClientSafe' /\ LoginMovesEpoch
<1> USE DEF ClientSafe
<1>1. cs \in SessionRecs
  BY DEF ClientTypes
<1>2. AtHome'
  BY HomeStays DEF AtHome
<1>3. \A e \in Actions \ {a} : act'[e] = act[e]
  BY DEF ClientTypes
<1>4. CardsStand'
  BY <1>3 DEF CardsStand
<1>5. ClientSafe'
  BY <1>1, <1>2, <1>4, ActionKeeps
<1> QED
  BY <1>5 DEF LoginMovesEpoch

\* A logout ends a token where it stands.
LEMMA TokenEnds ==
  ASSUME ClientSafe, NEW n \in 1..MaxToken, mintedTok' = [mintedTok EXCEPT ![n].ended = TRUE]
  PROVE  mintedTok' \in [1..MaxToken -> Tokens] /\ TokensKeep
<1>1. PICK t \in [1..MaxToken -> Tokens] : t = mintedTok
  BY DEF ClientSafe, ClientTypes
<1>2. PICK m : m = [t[n] EXCEPT !.ended = TRUE]
  OBVIOUS
<1>3. t[n] \in Tokens
  OBVIOUS
<1>4. m \in Tokens /\ m.server = t[n].server
  BY <1>2, <1>3 DEF Tokens
<1>5. mintedTok' = [t EXCEPT ![n] = m]
  BY <1>1, <1>2
<1> QED
  BY <1>1, <1>4, <1>5 DEF TokensKeep

LEMMA ServerDoesKeeps ==
  ASSUME ClientSafe, NEW a \in Actions, ServerDoes(a)
  PROVE  ClientSafe' /\ LoginMovesEpoch
<1> USE DEF ClientSafe
<1>1. PICK q \in ActRecs : q = act[a] /\ q.at = "sent"
  BY DEF ClientTypes, ServerDoes
<1>2. UNCHANGED <<cs, clientLink, dialer, instOf, card>> /\ cs \in SessionRecs /\ ActOf(q)
  BY <1>1 DEF ServerDoes, ClientTypes
<1>3. Onward /\ LinksKeep
  BY <1>2 DEF Onward, LinksKeep
<1>4. "answered" \in ActStages /\ "minted" \in ActStages /\ "compensating" \in ActStages
  BY DEF ActStages
<1>5. q.conn \in 1..MaxConn /\ q.token \in 0..MaxToken /\ MaxToken \in Nat
  BY <1>1, <1>2, ClientAssumption DEF ActOf, ActRecs
<1>6. NoAct \in ActRecs /\ ActOf(NoAct)'
  BY <1>2, IdleAct, IdleActOf DEF ActOf
<1>7. CASE q.verb = "login"
  <2>1. PICK n \in 1..MaxToken : n = Lowest(FreeTokens) /\ mintedTok[n].server = "none"
    BY <1>1, <1>7, FreeTokenIsUnused DEF ServerDoes
  <2>2. PICK l \in Links : l = clientLink[q.conn]
    BY <1>5 DEF ClientTypes
  <2>3. l.server \in Servers /\ l.inst \in Nat
    BY <1>1, <1>2, <2>2 DEF ActOf, Links
  <2>4. mintedTok' = [mintedTok EXCEPT ![n] = [server |-> l.server, inst |-> l.inst, ended |-> FALSE]]
    BY <1>1, <1>7, <2>1, <2>2 DEF ServerDoes
  <2>5. mintedTok' \in [1..MaxToken -> Tokens] /\ TokensKeep /\ mintedTok'[n].server = l.server
    BY <2>1, <2>3, <2>4, TokenMinted
  <2>6. ActOf(q)'
    BY <1>2, <1>3, <2>5, ActFrame
  <2>7. PICK r : r = [q EXCEPT !.at = "answered", !.got = n]
    OBVIOUS
  <2>8. n \in 0..MaxToken /\ n # 0
    BY <1>5
  <2>9. /\ r \in ActRecs /\ r.at = "answered" /\ r.gen = q.gen /\ r.conn = q.conn /\ r.token = q.token
        /\ r.verb = q.verb /\ r.got = n /\ r.pat = q.pat
    BY <1>4, <2>7, <2>8 DEF ActRecs
  <2>10. ActOf(r)'
    BY <1>1, <1>2, <2>2, <2>5, <2>6, <2>8, <2>9 DEF ActOf
  <2>11. act' = [act EXCEPT ![a] = r] \/ act' = [act EXCEPT ![a] = NoAct]
    BY <1>1, <1>7, <2>1, <2>7 DEF ServerDoes, Does
  <2> QED
    BY <1>1, <1>2, <1>6, <2>5, <2>9, <2>10, <2>11, ServedKeeps
<1>8. CASE q.verb = "logout"
  <2>1. /\ TokenWorks(q.token, q.conn) /\ mintedTok' = [mintedTok EXCEPT ![q.token].ended = TRUE]
        /\ Does(a, [q EXCEPT !.at = "answered"])
    BY <1>1, <1>8 DEF ServerDoes
  <2>2. q.token \in 1..MaxToken
    BY <1>5, <2>1 DEF TokenWorks
  <2>3. mintedTok' \in [1..MaxToken -> Tokens] /\ TokensKeep
    BY <2>1, <2>2, TokenEnds
  <2>4. ActOf(q)'
    BY <1>2, <1>3, <2>3, ActFrame
  <2>5. PICK r : r = [q EXCEPT !.at = "answered"]
    OBVIOUS
  <2>6. /\ r \in ActRecs /\ r.at = "answered" /\ r.gen = q.gen /\ r.conn = q.conn /\ r.token = q.token
        /\ r.verb = q.verb /\ r.got = q.got /\ r.pat = q.pat
    BY <1>4, <2>5 DEF ActRecs
  <2>7. ActOf(r)'
    BY <1>1, <1>8, <2>4, <2>6 DEF ActOf
  <2>8. act' = [act EXCEPT ![a] = r]
    BY <2>1, <2>5 DEF Does
  <2> QED
    BY <1>1, <1>2, <2>3, <2>6, <2>7, <2>8, ServedKeeps
<1>9. CASE q.verb = "mint"
  <2>1. PICK at \in {"minted", "compensating"} : Does(a, [q EXCEPT !.at = at, !.pat = "live"])
    BY <1>1, <1>9 DEF ServerDoes
  <2>2. PICK r : r = [q EXCEPT !.at = at, !.pat = "live"]
    OBVIOUS
  <2>3. /\ r \in ActRecs /\ r.at = at /\ r.gen = q.gen /\ r.conn = q.conn /\ r.token = q.token
        /\ r.verb = q.verb /\ r.got = q.got /\ r.pat = "live"
    BY <1>4, <2>2 DEF ActRecs
  <2>4. ActOf(r)
    BY <1>1, <1>2, <2>3 DEF ActOf
  <2>5. act' = [act EXCEPT ![a] = r] /\ UNCHANGED mintedTok
    BY <1>1, <1>9, <2>1, <2>2 DEF Does, ServerDoes
  <2> QED
    BY <1>1, <1>2, <2>3, <2>4, <2>5, ActMoves
<1>10. CASE q.verb = "role"
  <2>1. UNCHANGED mintedTok /\ (Does(a, [q EXCEPT !.at = "answered"]) \/ Does(a, NoAct))
    BY <1>1, <1>10 DEF ServerDoes
  <2>2. CASE Does(a, [q EXCEPT !.at = "answered"])
    BY <1>1, <1>2, <1>4, <1>10, <2>1, <2>2, ActComes
  <2>3. CASE Does(a, NoAct)
    BY <1>1, <1>2, <2>1, <2>3, ActRests
  <2> QED
    BY <2>1, <2>2, <2>3
<1>11. q.verb \in AllVerbs
  BY <1>1, <1>2 DEF ActOf
<1> QED
  BY <1>7, <1>8, <1>9, <1>10, <1>11 DEF AllVerbs

LEMMA AppliesKeeps ==
  ASSUME ClientSafe, NEW a \in Actions, Applies(a)
  PROVE  ClientSafe' /\ LoginMovesEpoch
<1> USE DEF ClientSafe
<1>1. PICK q \in ActRecs : q = act[a] /\ q.at \in {"answered", "refused"}
  BY DEF ClientTypes, Applies
<1>2. /\ act' = [act EXCEPT ![a] = NoAct] /\ UNCHANGED <<clientLink, mintedTok, dialer, instOf, card>>
      /\ cs \in SessionRecs /\ cs.epoch \in Nat /\ cs.gen \in Nat /\ ActOf(q)
  BY <1>1 DEF Applies, Does, ClientTypes, SessionRecs
<1>3. q.gen \in Nat /\ q.got \in 0..MaxToken
  BY DEF ActRecs
<1>4. PICK c : c = [cs EXCEPT !.epoch = cs.epoch + 1]
  OBVIOUS
<1>5. /\ c \in SessionRecs /\ c.gen = cs.gen /\ c.client = cs.client /\ c.mode = cs.mode
      /\ c.token = cs.token
  <2>1. cs.epoch + 1 \in Nat
    BY <1>2
  <2> QED
    BY <1>2, <1>4, <2>1 DEF SessionRecs
<1>6. PICK b : b = AdoptLogin(cs, q.gen, q.got)
  OBVIOUS
<1>7. Adopted(b, cs, q.gen, q.got)
  BY <1>2, <1>3, <1>6, AdoptIs
<1>8. PICK f : f = ForgetLogin(cs)
  OBVIOUS
<1>9. /\ f \in SessionRecs /\ f.gen = cs.gen /\ f.client = cs.client /\ f.mode = cs.mode
      /\ f.token = 0 /\ f.epoch = cs.epoch + 1
  BY <1>2, <1>8, ForgetIs
<1>10. (q.verb = "login" /\ cs' = b) \/ cs' \in {c, f, cs}
  <2>1. CASE q.verb = "login"
    <3>1. q.at # "refused"
      BY <1>2, <2>1 DEF ActOf
    <3> QED
      BY <1>1, <1>6, <2>1, <3>1 DEF Applies
  <2>2. CASE q.verb # "login" /\ (q.verb = "logout" \/ q.at = "refused")
    BY <1>1, <1>8, <2>2 DEF Applies
  <2>3. CASE q.verb # "login" /\ ~(q.verb = "logout" \/ q.at = "refused")
    <3>1. cs' = IF CurrentIdentity(a) THEN [cs EXCEPT !.epoch = @ + 1] ELSE cs
      BY <1>1, <2>3 DEF Applies
    <3>2. [cs EXCEPT !.epoch = @ + 1] = c
      BY <1>2, <1>4 DEF SessionRecs
    <3> QED
      BY <3>1, <3>2
  <2> QED
    BY <2>1, <2>2, <2>3
<1>11. cs' \in SessionRecs /\ cs'.gen = cs.gen /\ cs'.mode = cs.mode /\ cs'.client = cs.client
  BY <1>2, <1>5, <1>7, <1>9, <1>10 DEF Adopted
<1>12. AtHome'
  <2>1. CASE q.verb = "login" /\ cs' = b
    <3>1. q.at = "answered"
      BY <1>1, <1>2, <2>1 DEF ActOf
    <3>2. CASE cs.gen = q.gen
      <4>1. cs'.token = q.got /\ mintedTok[q.got].server = cs.mode
        BY <1>2, <1>7, <2>1, <3>1, <3>2 DEF ActOf, Adopted
      <4> QED
        BY <1>2, <1>11, <4>1 DEF AtHome
    <3>3. CASE cs.gen # q.gen
      <4>1. cs'.token = cs.token
        BY <1>7, <2>1, <3>3 DEF Adopted
      <4> QED
        BY <1>2, <1>11, <4>1 DEF AtHome
    <3> QED
      BY <3>2, <3>3
  <2>2. CASE cs' \in {c, f, cs}
    <3>1. cs'.token \in {0, cs.token}
      BY <1>5, <1>9, <2>2
    <3> QED
      BY <1>2, <1>11, <3>1 DEF AtHome
  <2> QED
    BY <1>10, <2>1, <2>2
<1>13. NoAct \in ActRecs /\ ActOf(NoAct)'
  BY <1>2, <1>11, IdleAct DEF ActOf
<1>14. TokensKeep /\ mintedTok' \in [1..MaxToken -> Tokens]
  BY <1>2 DEF TokensKeep, ClientTypes
<1>15. \A e \in Actions \ {a} : act'[e] = act[e]
  BY <1>2 DEF ClientTypes
<1>16. CardsStand'
  BY <1>1, <1>2, <1>15 DEF CardsStand
<1>17. ClientSafe'
  BY <1>2, <1>11, <1>12, <1>13, <1>14, <1>16, ActionKeeps
<1>18. LoginMovesEpoch
  <2>1. CASE q.verb = "login" /\ cs' = b
    BY <1>2, <1>7, <2>1 DEF LoginMovesEpoch, Adopted
  <2>2. CASE cs' \in {c, f, cs}
    BY <1>2, <1>5, <1>9, <2>2 DEF LoginMovesEpoch
  <2> QED
    BY <1>10, <2>1, <2>2
<1> QED
  BY <1>17, <1>18

LEMMA MintVerifiesKeeps ==
  ASSUME ClientSafe, NEW a \in Actions, MintVerifies(a) \/ MintAbandons(a)
  PROVE  ClientSafe' /\ LoginMovesEpoch
<1> USE DEF ClientSafe
<1>1. PICK q \in ActRecs : q = act[a] /\ q.at \in {"minted", "posted"} /\ ActOf(q)
  BY DEF ClientTypes, MintVerifies, MintAbandons
<1>2. UNCHANGED <<cs, clientLink, mintedTok, dialer, instOf, card>>
  BY DEF MintVerifies, MintAbandons
<1>3. PICK at \in {"posted", "compensating"} : Does(a, [q EXCEPT !.at = at])
  <2>1. CASE MintVerifies(a)
    <3>1. PICK at \in {"posted", "compensating"} : at = IF CurrentIdentity(a) THEN "posted" ELSE "compensating"
      OBVIOUS
    <3> QED
      BY <1>1, <2>1, <3>1 DEF MintVerifies
  <2>2. CASE MintAbandons(a)
    BY <1>1, <2>2 DEF MintAbandons
  <2> QED
    BY <2>1, <2>2
<1>4. at \in ActStages \ {"idle"} /\ q.pat = "live"
  BY <1>1 DEF ActStages, ActOf
<1> QED
  BY <1>1, <1>2, <1>3, <1>4, ActComes

LEMMA MintShowsKeeps ==
  ASSUME ClientSafe, NEW a \in Actions, MintShows(a)
  PROVE  ClientSafe' /\ LoginMovesEpoch
<1> USE DEF ClientSafe
<1>1. PICK q \in ActRecs : q = act[a] /\ q.at = "posted" /\ ActOf(q)
  BY DEF ClientTypes, MintShows
<1>2. UNCHANGED <<cs, clientLink, mintedTok, dialer, instOf>> /\ cs \in SessionRecs
  BY DEF MintShows, ClientTypes
<1>3. q.pat = "live" /\ "compensating" \in ActStages /\ "shown" \in ActStages
  BY <1>1 DEF ActOf, ActStages
<1>4. CASE Does(a, [q EXCEPT !.at = "compensating"]) /\ UNCHANGED card
  BY <1>1, <1>2, <1>3, <1>4, ActComes
<1>5. CASE /\ CurrentIdentity(a) /\ Does(a, [q EXCEPT !.at = "shown"])
           /\ card' = card \union {[owner |-> q.token, signedIn |-> cs.token, by |-> a]}
  <2>1. PICK r : r = [q EXCEPT !.at = "shown"]
    OBVIOUS
  <2>2. /\ r \in ActRecs /\ r.at = "shown" /\ r.gen = q.gen /\ r.conn = q.conn /\ r.token = q.token
        /\ r.verb = q.verb /\ r.got = q.got /\ r.pat = q.pat
    BY <1>3, <2>1 DEF ActRecs
  <2>3. act' = [act EXCEPT ![a] = r]
    BY <1>5, <2>1 DEF Does
  <2>4. ActOf(r)'
    BY <1>1, <1>2, <1>3, <2>2 DEF ActOf
  <2>5. act'[a] = r /\ \A e \in Actions \ {a} : act'[e] = act[e]
    BY <2>3 DEF ClientTypes
  <2>6. q.token = cs.token
    BY <1>1, <1>5 DEF CurrentIdentity
  <2>7. CardsStand'
    <3> SUFFICES ASSUME NEW c \in card'
                 PROVE  c.owner = c.signedIn /\ \A e \in Actions : c.by = e => act'[e].at = "shown"
      BY DEF CardsStand
    <3>1. CASE c \in card
      BY <1>1, <2>5, <3>1 DEF CardsStand
    <3>2. CASE c = [owner |-> q.token, signedIn |-> cs.token, by |-> a]
      BY <2>2, <2>5, <2>6, <3>2
    <3> QED
      BY <1>5, <3>1, <3>2
  <2>8. AtHome' /\ TokensKeep /\ mintedTok' \in [1..MaxToken -> Tokens]
    BY <1>2 DEF AtHome, TokensKeep, ClientTypes
  <2>9. ClientSafe'
    BY <1>2, <2>2, <2>3, <2>4, <2>7, <2>8, ActionKeeps
  <2> QED
    BY <1>2, <2>9 DEF LoginMovesEpoch
<1> QED
  BY <1>1, <1>4, <1>5 DEF MintShows

LEMMA CompensatesKeeps ==
  ASSUME ClientSafe, NEW a \in Actions, Compensates(a)
  PROVE  ClientSafe' /\ LoginMovesEpoch
<1> USE DEF ClientSafe
<1>1. PICK q \in ActRecs : q = act[a] /\ q.at = "compensating" /\ ActOf(q)
  BY DEF ClientTypes, Compensates
<1>2. UNCHANGED <<cs, clientLink, mintedTok, dialer, instOf, card>>
  BY DEF Compensates
<1>3. "undone" \in ActStages /\ "reported" \in ActStages
  BY DEF ActStages
<1>4. CASE Does(a, [q EXCEPT !.at = "reported"])
  BY <1>1, <1>2, <1>3, <1>4, ActComes
<1>5. CASE Does(a, [q EXCEPT !.at = "undone", !.pat = IF @ = "live" THEN "revoked" ELSE @])
  <2>1. PICK p \in {"none", "revoked"} : p = IF q.pat = "live" THEN "revoked" ELSE q.pat
    BY DEF ActRecs
  <2>2. PICK r : r = [q EXCEPT !.at = "undone", !.pat = p]
    OBVIOUS
  <2>3. /\ r \in ActRecs /\ r.at = "undone" /\ r.gen = q.gen /\ r.conn = q.conn /\ r.token = q.token
        /\ r.verb = q.verb /\ r.got = q.got /\ r.pat = p
    BY <1>3, <2>2 DEF ActRecs
  <2>4. ActOf(r)
    BY <1>1, <2>3 DEF ActOf
  <2>5. act' = [act EXCEPT ![a] = r]
    <3>1. [q EXCEPT !.at = "undone", !.pat = IF @ = "live" THEN "revoked" ELSE @] = r
      BY <2>1, <2>2 DEF ActRecs
    <3> QED
      BY <1>5, <3>1 DEF Does
  <2> QED
    BY <1>1, <1>2, <2>3, <2>4, <2>5, ActMoves
<1> QED
  BY <1>1, <1>4, <1>5 DEF Compensates

-----------------------------------------------------------------------------
(* The session. *)

LEMMA ClientStarts == ClientInit => ClientSafe
<1> SUFFICES ASSUME ClientInit PROVE ClientSafe
  OBVIOUS
<1>1. PICK v \in Servers :
        /\ cs = [mode |-> v, gen |-> 1, client |-> 1, inst |-> 1, token |-> 1, epoch |-> 1,
                 rs |-> IF v = "remote" THEN 1 ELSE 0, keyed |-> v = "remote"]
        /\ clientLink = [k \in 1..MaxConn |-> IF k = 1 THEN [server |-> v, inst |-> 1, st |-> "open"] ELSE NoLink]
        /\ mintedTok = [n \in 1..MaxToken |-> IF n = 1 THEN [server |-> v, inst |-> 1, ended |-> FALSE] ELSE NoToken]
  BY DEF ClientInit
<1>2. MaxConn \in Nat /\ MaxToken \in Nat /\ 1 \in 1..MaxConn /\ 1 \in 1..MaxToken
      /\ 1 \in 0..MaxConn /\ 1 \in 0..MaxToken
  BY ClientAssumption
<1>3. PICK n \in Nat : n = IF v = "remote" THEN 1 ELSE 0
  OBVIOUS
<1>4. PICK b \in BOOLEAN : b = (v = "remote")
  OBVIOUS
<1>5. cs = [mode |-> v, gen |-> 1, client |-> 1, inst |-> 1, token |-> 1, epoch |-> 1, rs |-> n, keyed |-> b]
  BY <1>1, <1>3, <1>4
<1>6. cs \in SessionRecs /\ cs.mode = v /\ cs.gen = 1 /\ cs.client = 1 /\ cs.token = 1
  BY <1>2, <1>5 DEF SessionRecs
<1>7. PICK l : l = [server |-> v, inst |-> 1, st |-> "open"]
  OBVIOUS
<1>8. l \in Links /\ l.server = v /\ l.st = "open" /\ NoLink \in Links /\ NoLink.st = "none" /\ NoLink.server = "none"
  BY <1>7 DEF Links, LinkStates, NoLink
<1>9. clientLink \in [1..MaxConn -> Links] /\ clientLink[1] = l /\ \A k \in 1..MaxConn : k # 1 => clientLink[k] = NoLink
  BY <1>1, <1>2, <1>7, <1>8
<1>10. PICK m : m = [server |-> v, inst |-> 1, ended |-> FALSE]
  OBVIOUS
<1>11. m \in Tokens /\ m.server = v /\ NoToken \in Tokens
  BY <1>10 DEF Tokens, NoToken
<1>12. mintedTok \in [1..MaxToken -> Tokens] /\ mintedTok[1] = m
  BY <1>1, <1>2, <1>10, <1>11
<1>13. /\ dialer = [d \in Dialers |-> NoDial] /\ act = [a \in Actions |-> NoAct]
       /\ instOf \in [Servers -> Nat] /\ card = {}
  BY DEF ClientInit
<1>14. ClientTypes
  BY <1>6, <1>9, <1>12, <1>13, IdleDial, IdleAct DEF ClientTypes
<1>15. AtHome /\ UnusedLinks
  BY <1>6, <1>8, <1>9, <1>11, <1>12 DEF AtHome, UnusedLinks
<1>16. OpenIsInUse
  <2>1. DOMAIN clientLink = 1..MaxConn
    BY <1>1
  <2> QED
    BY <1>6, <1>8, <1>9, <2>1 DEF OpenIsInUse
<1>17. (\A d \in Dialers : DialOf(dialer[d])) /\ (\A a \in Actions : ActOf(act[a])) /\ DialsApart /\ CardsStand
  BY <1>6, <1>13, IdleDialOf, IdleActOf DEF DialsApart, CardsStand
<1> QED
  BY <1>14, <1>15, <1>16, <1>17 DEF ClientSafe

LEMMA ClientMoves == ClientSafe /\ [ClientNext]_clientVars => ClientSafe' /\ LoginMovesEpoch
<1> SUFFICES ASSUME ClientSafe, [ClientNext]_clientVars PROVE ClientSafe' /\ LoginMovesEpoch
  OBVIOUS
<1>1. CASE UNCHANGED clientVars
  <2>1. UNCHANGED <<cs, clientLink, mintedTok, dialer, act, instOf, card>>
    BY <1>1 DEF clientVars
  <2>2. ClientTypes' /\ AtHome' /\ UnusedLinks' /\ OpenIsInUse' /\ DialsApart' /\ CardsStand'
    BY <2>1 DEF ClientSafe, ClientTypes, AtHome, UnusedLinks, OpenIsInUse, DialsApart, DialsOut, CardsStand
  <2>3. (\A d \in Dialers : DialOf(dialer[d]))' /\ (\A a \in Actions : ActOf(act[a]))'
    BY <2>1 DEF ClientSafe, DialOf, DialsOut, ActOf
  <2> QED
    BY <2>1, <2>2, <2>3 DEF ClientSafe, LoginMovesEpoch
<1>2. ASSUME NEW d \in Dialers,
             \/ ConnectLocal(d) \/ ConnectRemote(d) \/ ReadsLogin(d) \/ Reconnects(d)
             \/ DialAnswers(d) \/ DialFails(d) \/ NotesInstance(d) \/ ResumeAnswers(d) \/ DropsLogin(d)
             \/ RemoteSignsIn(d) \/ AdoptsKey(d) \/ AdoptsSignIn(d)
      PROVE  ClientSafe' /\ LoginMovesEpoch
  BY <1>2, ConnectKeeps, ReadsLoginKeeps, ReconnectsKeeps, DialAnswersKeeps, DialFailsKeeps, NotesInstanceKeeps,
     ResumeAnswersKeeps, DropsLoginKeeps, RemoteSignsInKeeps, AdoptsKeyKeeps, AdoptsSignInKeeps
<1>3. CASE SwitchToRemote \/ SwitchToLocal \/ ForgetRemote \/ Disconnect
  BY <1>3, SwitchKeeps, ForgetRemoteKeeps, DisconnectKeeps
<1>4. ASSUME NEW v \in Servers, ServerRestarts(v) PROVE ClientSafe' /\ LoginMovesEpoch
  BY <1>4, RestartsKeeps
<1>5. ASSUME NEW a \in Actions,
             \/ \E verb \in Verbs : Binds(a, verb)
             \/ Sends(a) \/ CallFails(a) \/ AnswersAuth(a) \/ ServerDoes(a) \/ Applies(a)
             \/ MintVerifies(a) \/ MintShows(a) \/ MintAbandons(a) \/ Compensates(a)
      PROVE  ClientSafe' /\ LoginMovesEpoch
  BY <1>5, BindsKeeps, SendsKeeps, CallFailsKeeps, ServerDoesKeeps, AppliesKeeps, MintVerifiesKeeps,
     MintShowsKeeps, CompensatesKeeps
<1> QED
  BY <1>1, <1>2, <1>3, <1>4, <1>5 DEF ClientNext

LEMMA ClientSafeStands == ClientSafe => ClientStands
<1> SUFFICES ASSUME ClientSafe PROVE ClientStands
  OBVIOUS
<1> USE DEF ClientSafe
<1>1. TokenStaysHome
  BY DEF TokenStaysHome, AtHome, ActOf, DialOf
<1>2. CardIsOwners /\ MintShownOrUndone
  BY DEF CardIsOwners, MintShownOrUndone, CardsStand, ActOf
<1> QED
  BY <1>1, <1>2 DEF ClientStands

\* A frontend's session: whatever switches, dials, restarts and late answers overlap, a token is
\* presented only to the server that minted it, every open connection is the session's, a token's
\* secret is shown only while the login that minted it is signed in, and a mint that ended was
\* shown, revoked or reported.
THEOREM ClientAlwaysStands == ClientSpec => []ClientStands
<1>1. ClientInit => ClientSafe
  BY ClientStarts
<1>2. ClientSafe /\ [ClientNext]_clientVars => ClientSafe'
  BY ClientMoves
<1> QED
  BY <1>1, <1>2, ClientSafeStands, PTL DEF ClientSpec

\* The identity epoch moves with every login, so that what was issued under one is never taken for
\* the next one's (ensure, withCurrentIdentity).
THEOREM LoginsMoveEpochs == ClientSpec => [][LoginMovesEpoch]_clientVars
<1>1. ClientInit => ClientSafe
  BY ClientStarts
<1>2. ClientSafe /\ [ClientNext]_clientVars => ClientSafe' /\ LoginMovesEpoch
  BY ClientMoves
<1>3. ClientSafe /\ [ClientNext]_clientVars => [LoginMovesEpoch]_clientVars
  BY <1>2
<1>4. ClientSafe /\ [ClientNext]_clientVars => ClientSafe'
  BY <1>2
<1> QED
  BY <1>1, <1>3, <1>4, PTL DEF ClientSpec

-----------------------------------------------------------------------------
(* Remote access. *)

AllPubs == Pubs \cup {NoPub, RotatedPub}
CallStages == {"idle", "gate", "attest", "prove", "commit", "claim", "undo", "register", "close", "read", "take"}
ConnRecs ==
  [at : {"none", "auth", "open", "over"}, gen : Nat, hung : BOOLEAN, end : {"none", "kept", "run", "done"},
   dev : 0..MaxDevice, pend : AllPubs, sess : 0..MaxSession, busy : BOOLEAN, ending : BOOLEAN,
   violated : BOOLEAN, enrolled : BOOLEAN]
SignInRecs ==
  [at : CallStages, p : Peers \cup {NoPeer}, verb : SignInVerbs \cup {""}, s : 0..MaxSession, d : 0..MaxDevice,
   pub : AllPubs, old : Peers \cup {NoPeer}]
DeviceRows == [st : {"none", "live", "revoked"}, pub : AllPubs]
SessionRows == [st : {"none", "live", "ended", "revoked"}, dev : 0..MaxDevice, conn : Peers \cup {NoPeer}, grace : BOOLEAN]
SwitchRecs == [listener : Nat, closed : SUBSET Nat, at : {"on", "closing", "off"}]
OperatorRecs == [at : {"idle", "hangup"}, match : 0..MaxDevice]

RemoteTyped ==
  /\ peer \in [Peers -> ConnRecs] /\ rcall \in [RCalls -> SignInRecs]
  /\ device \in [Devices -> DeviceRows] /\ session \in [Sessions -> SessionRows]
  /\ sshKey \in BOOLEAN /\ account \in BOOLEAN /\ remoteHeld \in Int /\ eventsLeft \in Int
  /\ control \in SwitchRecs /\ operator \in OperatorRecs /\ unwritten \subseteq Peers

\* A call is of a connection that was opened, names a session that was made where it has one, and takes it from another.
CallsSound ==
  \A k \in RCalls : LET c == rcall[k] IN
    /\ c.at # "idle" => c.p \in Peers /\ peer[c.p].at \in {"open", "over"} /\ c.verb \in SignInVerbs
    /\ c.at \in {"claim", "undo", "register", "take"} => c.s \in Sessions /\ session[c.s].st # "none"
    /\ c.at \in {"claim", "take"} => c.d = session[c.s].dev /\ c.d \in Devices
    /\ c.at = "read" \/ c.old # NoPeer => c.verb = "resume"
    /\ c.old # NoPeer => c.old # c.p
    /\ c.at = "register" => peer[c.p].sess = c.s /\ peer[c.p].end = "none"

\* One call registers what the end of a connection must do.
OneRegisters ==
  \A j, k \in RCalls : rcall[j].at = "register" /\ rcall[k].at = "register" /\ rcall[j].p = rcall[k].p => j = k

\* Before sign-in a connection that is there runs one call.
OneCallAtATime ==
  \A p \in Peers : peer[p].at = "open" /\ peer[p].sess = 0 =>
    /\ \A k \in RCalls : rcall[k].p = p /\ rcall[k].at \notin {"idle", "gate"} => peer[p].busy
    /\ \A j, k \in RCalls : rcall[j].p = p /\ rcall[j].at \notin {"idle", "gate"}
                            /\ rcall[k].p = p /\ rcall[k].at \notin {"idle", "gate"} => j = k

PeersSound ==
  \A p \in Peers : LET q == peer[p] IN
    /\ q.at \in {"none", "auth"} => q.sess = 0
    /\ q.sess = 0 => q.end = "none" /\ ~q.enrolled
    /\ q.sess # 0 => session[q.sess].st # "none" /\ session[q.sess].dev = q.dev
    /\ q.end \in {"run", "done"} => q.at = "over"
    /\ q.at = "over" => q.end # "kept"

\* Who is attached is being served, or is being worked on, or could not be detached.
AttachedHeld ==
  \A s \in Sessions : session[s].st = "live" /\ session[s].conn # NoPeer =>
    LET p == session[s].conn IN
    \/ p \in unwritten
    \/ peer[p].sess = s /\ peer[p].end \in {"kept", "run"}
    \/ \E k \in RCalls : rcall[k].p = p /\ rcall[k].s = s /\ rcall[k].at \in {"claim", "undo", "register"}

SessionsSound ==
  /\ \A s \in Sessions : session[s].st = "live" =>
       session[s].dev \in Devices /\ device[session[s].dev].st = "live" /\ sshKey /\ account
  /\ \A d, e \in LiveDevices : d = e

\* No connection comes in through a listener that is gone.
ListenersSound ==
  /\ control.at # "on" => control.listener \in control.closed
  /\ \A p \in Peers : peer[p].at = "auth" => peer[p].gen \in control.closed \cup {control.listener}
  /\ OffLeavesNone

Doomed(p) ==
  \/ peer[p].hung \/ peer[p].ending \/ peer[p].violated
  \/ operator # Quiet /\ Matches(p, operator.match)

\* Who works on a revoked session is about to be hung up.
RevocationReaches ==
  \A p \in Peers : peer[p].at = "open" =>
    /\ peer[p].sess # 0 /\ session[peer[p].sess].st = "revoked" => Doomed(p) \/ peer[p].enrolled
    /\ \A k \in RCalls : peer[p].sess = 0 /\ rcall[k].p = p /\ rcall[k].pub = NoPub =>
         /\ rcall[k].at \in {"commit", "take", "claim"} => rcall[k].d = peer[p].dev
         /\ rcall[k].at \in {"take", "claim"} /\ session[rcall[k].s].st = "revoked" => Doomed(p)

\* The inductive invariant of remote access.
RemoteSafe ==
  /\ RemoteTyped /\ CallsSound /\ OneRegisters /\ OneCallAtATime /\ PeersSound /\ AdmissionBalanced
  /\ AttachedHeld /\ SessionsSound /\ ListenersSound /\ RevocationReaches

ToldOff(p) == peer[p].hung \/ peer[p].at = "over"
Apart(p) == \/ ToldOff(p) \/ p \in leftBehind
            \/ \E k \in RCalls : rcall[k].at \in {"claim", "register", "close"} /\ rcall[k].old = p

\* Until a restart, who was left behind stays so.
LeftKept == leftBehind \subseteq leftBehind'

\* Who holds a session is attached to it, or was told to hang up, or is about to be, or
\* was left behind by a resume that was undone.
HolderAttached ==
  /\ \A p \in Peers : peer[p].sess # 0 => Apart(p) \/ session[peer[p].sess].conn = p
  /\ \A k \in RCalls : rcall[k].at = "claim" => Apart(rcall[k].p) \/ session[rcall[k].s].conn = rcall[k].p

\* What the end of a connection keeps, however it moves.
Calm(q, r) ==
  /\ r.at = q.at /\ r.gen = q.gen /\ r.end = q.end /\ r.dev = q.dev /\ r.pend = q.pend /\ r.sess = q.sess
  /\ r.enrolled = q.enrolled
  /\ q.at = "open" => (q.hung => r.hung) /\ (q.ending => r.ending) /\ (q.violated => r.violated)

\* The end of a connection has run.
Settles(q, r) ==
  /\ r.at = q.at /\ r.gen = q.gen /\ r.dev = q.dev /\ r.pend = q.pend /\ r.sess = q.sess /\ r.enrolled = q.enrolled
  /\ q.at = "over" /\ q.end = "run" /\ r.end = "done"

LEMMA ConnEdits ==
  ASSUME NEW q \in ConnRecs, NEW b \in BOOLEAN
  PROVE  /\ [q EXCEPT !.hung = b] \in ConnRecs /\ [q EXCEPT !.ending = b] \in ConnRecs
         /\ [q EXCEPT !.violated = b] \in ConnRecs /\ [q EXCEPT !.busy = b] \in ConnRecs
         /\ q.hung \in BOOLEAN /\ q.ending \in BOOLEAN /\ q.violated \in BOOLEAN /\ q.busy \in BOOLEAN
         /\ q.enrolled \in BOOLEAN
  BY DEF ConnRecs

LEMMA SetIs ==
  ASSUME RemoteTyped, NEW p \in Peers, NEW r \in ConnRecs, Set(p, r)
  PROVE  /\ peer' \in [Peers -> ConnRecs]
         /\ \A q \in Peers \ {p} : peer'[q] = peer[q]
         /\ peer'[p].at = r.at /\ peer'[p].gen = r.gen /\ peer'[p].end = r.end /\ peer'[p].dev = r.dev
         /\ peer'[p].pend = r.pend /\ peer'[p].sess = r.sess /\ peer'[p].enrolled = r.enrolled
         /\ r.at # "over" => peer'[p] = r
<1> DEFINE z == [r EXCEPT !.hung = FALSE, !.ending = FALSE, !.violated = FALSE, !.busy = FALSE]
           w == IF r.at # "over" THEN r ELSE z
<1>1. z \in ConnRecs
  BY DEF ConnRecs
<1>2. /\ z.at = r.at /\ z.gen = r.gen /\ z.end = r.end /\ z.dev = r.dev
      /\ z.pend = r.pend /\ z.sess = r.sess /\ z.enrolled = r.enrolled
  BY DEF ConnRecs
<1>3. peer' = [peer EXCEPT ![p] = w]
  BY DEF Set
<1>4. w \in ConnRecs
  BY <1>1
<1>5. peer \in [Peers -> ConnRecs]
  BY DEF RemoteTyped
<1> HIDE DEF z
<1> QED
  BY <1>2, <1>3, <1>4, <1>5

LEMMA CallEdit ==
  ASSUME RemoteTyped, NEW k \in RCalls, NEW c \in SignInRecs, rcall' = [rcall EXCEPT ![k] = c]
  PROVE  rcall' \in [RCalls -> SignInRecs] /\ rcall'[k] = c /\ \A j \in RCalls \ {k} : rcall'[j] = rcall[j]
  BY DEF RemoteTyped

LEMMA IdleIs == IdleCall \in SignInRecs /\ IdleCall.at = "idle" /\ IdleCall.old = NoPeer
  BY RemoteAssumption DEF RemoteAssumption, IdleCall, SignInRecs, CallStages, AllPubs, NoPeer, NoPub

LEMMA RefusalIs ==
  ASSUME NEW p \in Peers, peer[p] \in ConnRecs
  PROVE  Refusal(p) \in ConnRecs /\ Calm(peer[p], Refusal(p)) /\ Refusal(p).busy = peer[p].busy
<1> PICK q \in ConnRecs : q = peer[p]
  OBVIOUS
<1>1. [q EXCEPT !.violated = TRUE, !.hung = q.hung \/ q.violated] \in ConnRecs
  BY DEF ConnRecs
<1>2. Calm(q, [q EXCEPT !.violated = TRUE, !.hung = q.hung \/ q.violated])
  BY DEF ConnRecs, Calm
<1> QED
  BY <1>1, <1>2 DEF Refusal, ConnRecs

\* What the return of a handler leaves.
LEMMA ReturnsIs ==
  ASSUME RemoteTyped, NEW k \in RCalls, rcall[k].p \in Peers, NEW refused \in BOOLEAN, Returns(k, refused)
  PROVE  /\ peer' \in [Peers -> ConnRecs] /\ rcall' \in [RCalls -> SignInRecs]
         /\ \A q \in Peers : Calm(peer[q], peer'[q])
         /\ \A q \in Peers \ {rcall[k].p} : peer'[q] = peer[q]
         /\ rcall'[k] = IdleCall /\ \A j \in RCalls \ {k} : rcall'[j] = rcall[j]
<1> DEFINE p == rcall[k].p
           a == IF refused THEN Refusal(p) ELSE peer[p]
           r == [a EXCEPT !.busy = FALSE]
<1>1. peer[p] \in ConnRecs
  BY DEF RemoteTyped
<1>2. a \in ConnRecs /\ Calm(peer[p], a)
  BY <1>1, RefusalIs DEF Calm
<1>3. r \in ConnRecs /\ Calm(a, r)
  BY <1>2 DEF ConnRecs, Calm
<1>4. Set(p, r) /\ rcall' = [rcall EXCEPT ![k] = IdleCall]
  BY DEF Returns
<1>5. Calm(peer[p], r)
  BY <1>2, <1>3 DEF Calm
<1> HIDE DEF a, r, p
<1>6. p \in Peers /\ p = rcall[k].p
  BY DEF p
<1>7. peer' \in [Peers -> ConnRecs] /\ \A q \in Peers \ {p} : peer'[q] = peer[q]
  BY <1>3, <1>4, <1>6, SetIs
<1>8. Calm(peer[p], peer'[p])
  BY <1>3, <1>4, <1>5, <1>6, SetIs DEF Calm
<1>9. \A q \in Peers : Calm(peer[q], peer[q])
  BY DEF Calm
<1> QED
  BY <1>4, <1>6, <1>7, <1>8, <1>9, CallEdit, IdleIs

Unfinished == {"claim", "undo", "register"}
Busied == {k \in RCalls : rcall[k].at \in {"commit", "claim", "undo", "register", "read", "take"}}
Kept == {p \in Peers : peer[p].end \in {"kept", "run"}}
Works(k) == rcall[k].at \notin {"idle", "gate"}

\* The sessions that were made stay, and none comes alive.
SessionsGoOn ==
  \A s \in Sessions :
    /\ session[s].st # "none" => session'[s].st # "none" /\ session'[s].dev = session[s].dev
    /\ session'[s].st = "live" => session[s].st = "live" /\ session'[s].dev = session[s].dev
    /\ session'[s].st = "live" /\ session'[s].conn # NoPeer => session'[s].conn = session[s].conn
    /\ session'[s].st = "revoked" => session[s].st = "revoked"

\* The slot is given back by the call that has it.
SlotsHold ==
  \A q \in Peers : peer[q].at = "open" /\ peer[q].busy =>
    peer'[q].busy \/ \E k \in RCalls : rcall[k].p = q /\ Works(k) /\ rcall'[k].at = "idle"

\* No live session is left attached to the connection, or that could not be written.
LetsGo(q) == q \in unwritten' \/ \A s \in Sessions : session'[s].st = "live" => session'[s].conn # q

\* A call that leaves a claimed session has detached it, or could not.
LeavesDetached ==
  \A k \in RCalls : rcall'[k] # rcall[k] /\ rcall[k].at \in Unfinished => LetsGo(rcall[k].p)

LEMMA CountsIs == AdmissionBalanced <=> remoteHeld = Cardinality(Busied) + Cardinality(Kept)
  BY DEF AdmissionBalanced, Busied, Kept

LEMMA CountsFinite ==
  /\ IsFiniteSet(Busied) /\ IsFiniteSet(Kept) /\ Cardinality(Busied) \in Nat /\ Cardinality(Kept) \in Nat
  /\ IsFiniteSet(Busied') /\ IsFiniteSet(Kept') /\ Cardinality(Busied') \in Nat /\ Cardinality(Kept') \in Nat
<1>1. IsFiniteSet(RCalls) /\ IsFiniteSet(Peers)
  BY RemoteAssumption DEF RemoteAssumption
<1>2. Busied \subseteq RCalls /\ Kept \subseteq Peers /\ Busied' \subseteq RCalls /\ Kept' \subseteq Peers
  BY DEF Busied, Kept
<1> QED
  BY <1>1, <1>2, FS_Subset, FS_CardinalityType

\* The count moves with the call that takes or gives back an admission.
LEMMA CountsMove ==
  ASSUME AdmissionBalanced, remoteHeld \in Int, NEW k, NEW p,
         \/ Busied' = Busied /\ Kept' = Kept /\ remoteHeld' = remoteHeld
         \/ k \notin Busied /\ Busied' = Busied \union {k} /\ Kept' = Kept /\ remoteHeld' = remoteHeld + 1
         \/ k \in Busied /\ Busied' = Busied \ {k} /\ Kept' = Kept /\ remoteHeld' = remoteHeld - 1
         \/ p \in Kept /\ Kept' = Kept \ {p} /\ Busied' = Busied /\ remoteHeld' = remoteHeld - 1
         \/ /\ k \in Busied /\ p \notin Kept /\ Busied' = Busied \ {k} /\ Kept' = Kept \union {p}
            /\ remoteHeld' = remoteHeld
  PROVE  AdmissionBalanced'
<1>1. remoteHeld = Cardinality(Busied) + Cardinality(Kept)
  BY CountsIs
<1>2. k \notin Busied => Cardinality(Busied \union {k}) = Cardinality(Busied) + 1
  BY CountsFinite, FS_AddElement
<1>3. k \in Busied => Cardinality(Busied \ {k}) = Cardinality(Busied) - 1
  BY CountsFinite, FS_RemoveElement
<1>4. p \notin Kept => Cardinality(Kept \union {p}) = Cardinality(Kept) + 1
  BY CountsFinite, FS_AddElement
<1>5. p \in Kept => Cardinality(Kept \ {p}) = Cardinality(Kept) - 1
  BY CountsFinite, FS_RemoveElement
<1>6. remoteHeld' = Cardinality(Busied') + Cardinality(Kept')
  <2> DEFINE b == Cardinality(Busied)
             e == Cardinality(Kept)
  <2>1. b \in Nat /\ e \in Nat
    BY CountsFinite
  <2>2. CASE Busied' = Busied /\ Kept' = Kept /\ remoteHeld' = remoteHeld
    BY <2>2, <1>1
  <2>3. CASE k \notin Busied /\ Busied' = Busied \union {k} /\ Kept' = Kept /\ remoteHeld' = remoteHeld + 1
    BY <2>1, <2>3, <1>1, <1>2
  <2>4. CASE k \in Busied /\ Busied' = Busied \ {k} /\ Kept' = Kept /\ remoteHeld' = remoteHeld - 1
    BY <2>1, <2>4, <1>1, <1>3
  <2>5. CASE p \in Kept /\ Kept' = Kept \ {p} /\ Busied' = Busied /\ remoteHeld' = remoteHeld - 1
    BY <2>1, <2>5, <1>1, <1>5
  <2>6. CASE /\ k \in Busied /\ p \notin Kept /\ Busied' = Busied \ {k} /\ Kept' = Kept \union {p}
             /\ remoteHeld' = remoteHeld
    BY <2>1, <2>6, <1>1, <1>3, <1>4
  <2> QED
    BY <2>2, <2>3, <2>4, <2>5, <2>6
<1> QED
  BY <1>6 DEF AdmissionBalanced, Busied, Kept

\* What a step keeps that opens, revokes and enrols nothing: calls may return, sessions may end.
LEMMA QuietKeeps ==
  ASSUME RemoteSafe, RemoteTyped', AdmissionBalanced', SessionsGoOn, SlotsHold, LeavesDetached,
         \A q \in Peers : Calm(peer[q], peer'[q])
                          \/ (Settles(peer[q], peer'[q]) /\ LetsGo(q)),
         \A k \in RCalls : rcall'[k] = rcall[k] \/ rcall'[k] = IdleCall,
         UNCHANGED <<device, sshKey, account, control, operator>>, unwritten \subseteq unwritten'
  PROVE  RemoteSafe'
<1> USE DEF RemoteSafe
<1>1. CallsSound'
  <2> SUFFICES ASSUME NEW k \in RCalls, rcall'[k] = rcall[k], rcall[k].at # "idle"
               PROVE  /\ rcall'[k].p \in Peers /\ peer'[rcall'[k].p].at \in {"open", "over"} /\ rcall'[k].verb \in SignInVerbs
                      /\ rcall'[k].at \in {"claim", "undo", "register", "take"} =>
                           rcall'[k].s \in Sessions /\ session'[rcall'[k].s].st # "none"
                      /\ rcall'[k].at \in {"claim", "take"} =>
                           rcall'[k].d = session'[rcall'[k].s].dev /\ rcall'[k].d \in Devices
                      /\ rcall'[k].at = "register" =>
                           peer'[rcall'[k].p].sess = rcall'[k].s /\ peer'[rcall'[k].p].end = "none"
    BY IdleIs DEF CallsSound
  <2>1. rcall[k].p \in Peers /\ peer[rcall[k].p].at \in {"open", "over"} /\ rcall[k].verb \in SignInVerbs
    BY DEF CallsSound
  <2> QED
    BY <2>1 DEF CallsSound, SessionsGoOn, Calm, Settles
<1>2. OneRegisters'
  BY IdleIs DEF OneRegisters
<1>3. OneCallAtATime'
  <2> SUFFICES ASSUME NEW p \in Peers, peer[p].at = "open", peer[p].sess = 0, NEW k \in RCalls, rcall'[k].p = p, Works(k)'
               PROVE  /\ peer'[p].busy
                      /\ \A j \in RCalls : rcall'[j].p = p /\ Works(j)' => j = k
    BY DEF OneCallAtATime, Calm, Settles, Works
  <2>1. \A j \in RCalls : Works(j)' => rcall'[j] = rcall[j] /\ Works(j)
    BY IdleIs DEF Works
  <2>2. peer[p].busy /\ \A j \in RCalls : rcall[j].p = p /\ Works(j) => j = k
    BY <2>1 DEF OneCallAtATime, Works
  <2>3. peer'[p].busy
    BY <2>1, <2>2 DEF SlotsHold, Works
  <2> QED
    BY <2>1, <2>2, <2>3
<1>4. PeersSound'
  <2> SUFFICES ASSUME NEW p \in Peers
               PROVE  /\ peer'[p].at \in {"none", "auth"} => peer'[p].sess = 0
                      /\ peer'[p].sess = 0 => peer'[p].end = "none" /\ ~peer'[p].enrolled
                      /\ peer'[p].sess # 0 => /\ session'[peer'[p].sess].st # "none"
                                              /\ session'[peer'[p].sess].dev = peer'[p].dev
                      /\ peer'[p].end \in {"run", "done"} => peer'[p].at = "over"
                      /\ peer'[p].at = "over" => peer'[p].end # "kept"
    BY DEF PeersSound
  <2>1. peer[p].sess # 0 => peer[p].sess \in Sessions
    BY DEF RemoteTyped, ConnRecs, Sessions
  <2>2. Calm(peer[p], peer'[p]) \/ Settles(peer[p], peer'[p])
    OBVIOUS
  <2> QED
    BY <2>1, <2>2 DEF PeersSound, Calm, Settles, SessionsGoOn
<1>5. AttachedHeld'
  <2> SUFFICES ASSUME NEW s \in Sessions, session'[s].st = "live", session'[s].conn # NoPeer
               PROVE  \/ session'[s].conn \in unwritten'
                      \/ peer'[session'[s].conn].sess = s /\ peer'[session'[s].conn].end \in {"kept", "run"}
                      \/ \E k \in RCalls : rcall'[k].p = session'[s].conn /\ rcall'[k].s = s /\ rcall'[k].at \in Unfinished
    BY DEF AttachedHeld, Unfinished
  <2>1. session[s].st = "live" /\ session'[s].conn = session[s].conn
    BY DEF SessionsGoOn
  <2> DEFINE p == session[s].conn
  <2>2. p \in Peers
    BY <2>1 DEF RemoteTyped, SessionRows
  <2>3. CASE p \in unwritten
    BY <2>1, <2>3
  <2>4. CASE peer[p].sess = s /\ peer[p].end \in {"kept", "run"}
    BY <2>1, <2>2, <2>4 DEF Calm, LetsGo
  <2>5. CASE \E k \in RCalls : rcall[k].p = p /\ rcall[k].s = s /\ rcall[k].at \in Unfinished
    BY <2>1, <2>5 DEF LeavesDetached, LetsGo
  <2> QED
    BY <2>1, <2>3, <2>4, <2>5 DEF AttachedHeld, Unfinished
<1>6. SessionsSound'
  BY DEF SessionsSound, SessionsGoOn, LiveDevices
<1>7. ListenersSound'
  BY DEF ListenersSound, OffLeavesNone, Calm, Settles
<1>8. RevocationReaches'
  <2> SUFFICES ASSUME NEW p \in Peers, peer[p].at = "open"
               PROVE  /\ peer'[p].sess # 0 /\ session'[peer'[p].sess].st = "revoked" => Doomed(p)' \/ peer'[p].enrolled
                      /\ \A k \in RCalls : peer'[p].sess = 0 /\ rcall'[k].p = p /\ rcall'[k].pub = NoPub =>
                           /\ rcall'[k].at \in {"commit", "take", "claim"} => rcall'[k].d = peer'[p].dev
                           /\ rcall'[k].at \in {"take", "claim"} /\ session'[rcall'[k].s].st = "revoked" => Doomed(p)'
    BY DEF RevocationReaches, Calm, Settles
  <2>1. Doomed(p) => Doomed(p)'
    BY DEF Doomed, Matches, Calm, Settles
  <2>2. peer[p].sess # 0 => peer[p].sess \in Sessions
    BY DEF RemoteTyped, ConnRecs, Sessions
  <2>3. \A k \in RCalls : rcall[k].at \in {"take", "claim"} => rcall[k].s \in Sessions
    BY DEF CallsSound
  <2> QED
    BY <2>1, <2>2, <2>3, IdleIs DEF RevocationReaches, Calm, Settles, SessionsGoOn
<1> QED
  BY <1>1, <1>2, <1>3, <1>4, <1>5, <1>6, <1>7, <1>8

LEMMA CallOf ==
  ASSUME RemoteSafe, NEW k \in RCalls, rcall[k].at # "idle"
  PROVE  rcall[k].p \in Peers /\ peer[rcall[k].p] \in ConnRecs /\ rcall[k] \in SignInRecs
         /\ peer[rcall[k].p].at \in {"open", "over"} /\ rcall[k].verb \in SignInVerbs
  BY DEF RemoteSafe, RemoteTyped, CallsSound

\* What the registers of a connection keep is kept of it.
LEMMA CalmCounts ==
  ASSUME \A q \in Peers : Calm(peer[q], peer'[q])
  PROVE  Kept' = Kept
  BY DEF Kept, Calm

LEMMA CallRests ==
  ASSUME NEW k \in RCalls, rcall'[k] = IdleCall, \A j \in RCalls \ {k} : rcall'[j] = rcall[j]
  PROVE  Busied' = Busied \ {k}
  BY IdleIs DEF Busied

\* A sign-in that ends without a session, or has answered.
LEMMA ReturnKeeps ==
  ASSUME RemoteSafe, NEW k \in RCalls, NEW refused \in BOOLEAN, Returns(k, refused),
         rcall[k].at \notin {"idle"} \union Unfinished, rcall[k].at = "gate" => ~peer[rcall[k].p].busy,
         remoteHeld' = remoteHeld - (IF k \in Busied THEN 1 ELSE 0), eventsLeft' \in Int,
         UNCHANGED <<store, others, unwritten>>
  PROVE  RemoteSafe'
<1>1. RemoteTyped /\ rcall[k].p \in Peers
  BY CallOf DEF RemoteSafe
<1>2. /\ peer' \in [Peers -> ConnRecs] /\ rcall' \in [RCalls -> SignInRecs]
      /\ \A q \in Peers : Calm(peer[q], peer'[q])
      /\ \A q \in Peers \ {rcall[k].p} : peer'[q] = peer[q]
      /\ rcall'[k] = IdleCall /\ \A j \in RCalls \ {k} : rcall'[j] = rcall[j]
  BY <1>1, ReturnsIs
<1>3. RemoteTyped'
  BY <1>1, <1>2 DEF RemoteTyped, store, others
<1>4. Busied' = Busied \ {k} /\ Kept' = Kept
  BY <1>2, CallRests, CalmCounts
<1>5. AdmissionBalanced'
  <2>1. AdmissionBalanced /\ remoteHeld \in Int
    BY <1>1 DEF RemoteSafe, RemoteTyped
  <2>2. CASE k \in Busied
    BY <2>1, <2>2, <1>4, CountsMove
  <2>3. CASE k \notin Busied
    <3>1. Busied' = Busied /\ remoteHeld' = remoteHeld
      BY <2>1, <2>3, <1>4
    <3> QED
      BY <2>1, <3>1, <1>4, CountsMove
  <2> QED
    BY <2>2, <2>3
<1>6. SessionsGoOn
  BY DEF SessionsGoOn, store
<1>7. SlotsHold
  <2> SUFFICES ASSUME NEW q \in Peers, peer[q].busy, ~peer'[q].busy PROVE rcall[k].p = q /\ Works(k) /\ rcall'[k].at = "idle"
    BY DEF SlotsHold
  <2>1. rcall[k].p = q
    BY <1>2
  <2> QED
    BY <2>1, <1>2, IdleIs DEF Works
<1>8. LeavesDetached
  BY <1>2 DEF LeavesDetached
<1>9. \A j \in RCalls : rcall'[j] = rcall[j] \/ rcall'[j] = IdleCall
  BY <1>2
<1>10. UNCHANGED <<device, sshKey, account, control, operator>> /\ unwritten \subseteq unwritten'
  BY DEF store, others
<1> QED
  BY <1>2, <1>3, <1>5, <1>6, <1>7, <1>8, <1>9, <1>10, QuietKeeps

\* Only what is said of a connection, or of its session, changes.
LEMMA FlagsKeep ==
  ASSUME RemoteSafe, RemoteTyped', SessionsGoOn, \A q \in Peers : Calm(peer[q], peer'[q]),
         \A q \in Peers : peer'[q].busy = peer[q].busy,
         UNCHANGED <<rcall, device, sshKey, account, control, operator, remoteHeld, unwritten>>
  PROVE  RemoteSafe'
<1>1. Kept' = Kept /\ Busied' = Busied
  BY CalmCounts DEF Busied
<1>2. AdmissionBalanced /\ remoteHeld \in Int
  BY DEF RemoteSafe, RemoteTyped
<1>3. AdmissionBalanced'
  BY <1>1, <1>2, CountsMove
<1>4. SlotsHold /\ LeavesDetached
  BY DEF SlotsHold, LeavesDetached
<1> QED
  BY <1>3, <1>4, QuietKeeps

LEMMA GraceLapsesKeeps ==
  ASSUME RemoteSafe, NEW s \in Sessions, GraceLapses(s)
  PROVE  RemoteSafe'
<1>1. RemoteTyped
  BY DEF RemoteSafe
<1>2. session' \in [Sessions -> SessionRows] /\ SessionsGoOn
  <2>1. PICK r \in SessionRows : r = session[s]
    BY <1>1 DEF RemoteTyped
  <2>2. session' = [session EXCEPT ![s] = [r EXCEPT !.grace = FALSE]]
    BY <2>1 DEF GraceLapses
  <2>3. [r EXCEPT !.grace = FALSE] \in SessionRows
    BY DEF SessionRows
  <2>4. \A x \in Sessions : /\ x # s => session'[x] = session[x]
                            /\ x = s => session'[x] = [r EXCEPT !.grace = FALSE]
    BY <2>2, <1>1 DEF RemoteTyped
  <2>5. /\ [r EXCEPT !.grace = FALSE].st = r.st /\ [r EXCEPT !.grace = FALSE].dev = r.dev
        /\ [r EXCEPT !.grace = FALSE].conn = r.conn
    BY DEF SessionRows
  <2>6. session' \in [Sessions -> SessionRows]
    BY <2>2, <2>3, <1>1 DEF RemoteTyped
  <2> QED
    BY <2>1, <2>4, <2>5, <2>6 DEF SessionsGoOn
<1>3. eventsLeft' \in Int
  BY <1>1 DEF GraceLapses, Event, RemoteTyped
<1>4. /\ UNCHANGED <<peer, rcall, device, sshKey, account, control, operator, remoteHeld, unwritten>>
      /\ \A q \in Peers : Calm(peer[q], peer'[q])
  BY DEF GraceLapses, others, Calm
<1>5. RemoteTyped'
  BY <1>1, <1>2, <1>3, <1>4 DEF RemoteTyped
<1> QED
  BY <1>2, <1>4, <1>5, FlagsKeep

LEMMA LogoutKeeps ==
  ASSUME RemoteSafe, NEW p \in Peers, Logout(p)
  PROVE  RemoteSafe'
<1>1. RemoteTyped /\ peer[p] \in ConnRecs /\ peer[p].at = "open" /\ peer[p].sess \in Sessions
  BY DEF RemoteSafe, RemoteTyped, Logout, SignedIn, ConnRecs, Sessions
<1> PICK q \in ConnRecs : q = peer[p]
  BY <1>1
<1>2. [q EXCEPT !.ending = TRUE] \in ConnRecs /\ Calm(q, [q EXCEPT !.ending = TRUE])
      /\ [q EXCEPT !.ending = TRUE].busy = q.busy /\ [q EXCEPT !.ending = TRUE].at = "open"
  BY <1>1 DEF ConnRecs, Calm
<1>3. Set(p, [q EXCEPT !.ending = TRUE])
  BY DEF Logout
<1>4. peer' \in [Peers -> ConnRecs] /\ \A r \in Peers \ {p} : peer'[r] = peer[r]
  BY <1>1, <1>2, <1>3, SetIs
<1>5. peer'[p] = [q EXCEPT !.ending = TRUE]
  <2>1. [q EXCEPT !.ending = TRUE].at # "over"
    BY <1>2
  <2> QED
    BY <1>1, <1>2, <1>3, <2>1, SetIs
<1>6. \A r \in Peers : Calm(peer[r], peer'[r]) /\ peer'[r].busy = peer[r].busy
  <2>1. \A r \in Peers : Calm(peer[r], peer[r])
    BY DEF Calm
  <2> QED
    BY <2>1, <1>2, <1>4, <1>5
<1>7. session' \in [Sessions -> SessionRows] /\ SessionsGoOn
  <2>1. PICK s \in Sessions, r \in SessionRows : s = q.sess /\ r = session[s]
    BY <1>1 DEF RemoteTyped
  <2>2. session' = [session EXCEPT ![s] = [r EXCEPT !.st = "ended"]]
    BY <2>1 DEF Logout
  <2>3. [r EXCEPT !.st = "ended"] \in SessionRows
    BY DEF SessionRows
  <2>4. \A x \in Sessions : /\ x # s => session'[x] = session[x]
                            /\ x = s => session'[x] = [r EXCEPT !.st = "ended"]
    BY <2>2, <1>1 DEF RemoteTyped
  <2>5. /\ [r EXCEPT !.st = "ended"].st = "ended" /\ [r EXCEPT !.st = "ended"].dev = r.dev
    BY DEF SessionRows
  <2>6. session' \in [Sessions -> SessionRows]
    BY <2>2, <2>3, <1>1 DEF RemoteTyped
  <2> QED
    BY <2>1, <2>4, <2>5, <2>6 DEF SessionsGoOn
<1>8. eventsLeft' \in Int
  BY <1>1 DEF Logout, Event, RemoteTyped
<1>9. UNCHANGED <<rcall, device, sshKey, account, control, operator, remoteHeld, unwritten>>
  BY DEF Logout, others
<1>10. RemoteTyped'
  BY <1>1, <1>4, <1>7, <1>8, <1>9 DEF RemoteTyped
<1> QED
  BY <1>6, <1>7, <1>9, <1>10, FlagsKeep

\* A flag of one connection goes up.
LEMMA FlagKeeps ==
  ASSUME RemoteSafe, NEW p \in Peers, NEW r \in ConnRecs, Set(p, r), Calm(peer[p], r), r.at = "open", r.busy = peer[p].busy,
         UNCHANGED <<rcall, store, remoteHeld, others, unwritten, eventsLeft>>
  PROVE  RemoteSafe'
<1>1. RemoteTyped
  BY DEF RemoteSafe
<1>2. peer' \in [Peers -> ConnRecs] /\ (\A q \in Peers \ {p} : peer'[q] = peer[q]) /\ peer'[p] = r
  BY <1>1, SetIs
<1>3. \A q \in Peers : Calm(peer[q], peer'[q]) /\ peer'[q].busy = peer[q].busy
  <2>1. \A q \in Peers : Calm(peer[q], peer[q])
    BY DEF Calm
  <2> QED
    BY <2>1, <1>2
<1>4. SessionsGoOn /\ UNCHANGED <<rcall, device, sshKey, account, control, operator, remoteHeld, unwritten>>
  BY DEF SessionsGoOn, store, others
<1>5. RemoteTyped'
  BY <1>1, <1>2 DEF RemoteTyped, store, others
<1> QED
  BY <1>3, <1>4, <1>5, FlagsKeep

\* One call moves on, by what it read; no row is written.
LEMMA CallKeeps ==
  ASSUME RemoteSafe, RemoteTyped', AdmissionBalanced', NEW k \in RCalls, NEW c \in SignInRecs,
         rcall'[k] = c, \A j \in RCalls \ {k} : rcall'[j] = rcall[j],
         rcall[k].at \notin Unfinished, c.p \in Peers,
         peer[c.p].at \in {"open", "over"}, c.verb \in SignInVerbs,
         c.at \in {"gate", "attest", "commit", "read", "prove", "take"},
         c.at = "read" \/ c.old # NoPeer => c.verb = "resume", c.old # NoPeer => c.old # c.p,
         c.at = "take" => c.s \in Sessions /\ session[c.s].st = "live" /\ c.d = session[c.s].dev /\ c.d \in Devices,
         c.at \in {"commit", "take"} /\ peer[c.p].sess = 0 => c.d = peer[c.p].dev,
         c.at = "gate" \/ (Works(k) /\ rcall[k].p = c.p) \/ peer[c.p].sess # 0
                       \/ (~peer[c.p].busy /\ (peer[c.p].at = "open" => peer'[c.p].busy)),
         \A q \in Peers : Calm(peer[q], peer'[q]),
         \A q \in Peers : peer[q].at = "open" /\ peer[q].busy => peer'[q].busy,
         UNCHANGED <<store, others, unwritten>>
  PROVE  RemoteSafe'
<1> USE DEF RemoteSafe
<1>1. CallsSound'
  <2> SUFFICES ASSUME NEW j \in RCalls
               PROVE  /\ rcall'[j].at # "idle" => rcall'[j].p \in Peers /\ peer'[rcall'[j].p].at \in {"open", "over"}
                                                  /\ rcall'[j].verb \in SignInVerbs
                      /\ rcall'[j].at \in {"claim", "undo", "register", "take"} =>
                           rcall'[j].s \in Sessions /\ session[rcall'[j].s].st # "none"
                      /\ rcall'[j].at \in {"claim", "take"} =>
                           rcall'[j].d = session[rcall'[j].s].dev /\ rcall'[j].d \in Devices
                      /\ rcall'[j].at = "read" \/ rcall'[j].old # NoPeer => rcall'[j].verb = "resume"
                      /\ rcall'[j].old # NoPeer => rcall'[j].old # rcall'[j].p
                      /\ rcall'[j].at = "register" =>
                           peer'[rcall'[j].p].sess = rcall'[j].s /\ peer'[rcall'[j].p].end = "none"
    BY DEF CallsSound, store
  <2>1. CASE j = k
    BY <2>1 DEF Calm
  <2>2. CASE j # k
    <3>1. rcall'[j] = rcall[j] /\ (rcall[j].at # "idle" => rcall[j].p \in Peers)
      BY <2>2 DEF CallsSound
    <3> QED
      BY <3>1 DEF CallsSound, Calm
  <2> QED
    BY <2>1, <2>2
<1>2. OneRegisters'
  BY DEF OneRegisters
<1>3. OneCallAtATime'
  <2> SUFFICES ASSUME NEW p \in Peers, peer[p].at = "open", peer[p].sess = 0, NEW j \in RCalls, rcall'[j].p = p, Works(j)'
               PROVE  /\ peer'[p].busy
                      /\ \A i \in RCalls : rcall'[i].p = p /\ Works(i)' => i = j
    BY DEF OneCallAtATime, Calm, Works
  <2>1. CASE rcall'[k].p # p \/ ~Works(k)'
    <3>1. \A i \in RCalls : rcall'[i].p = p /\ Works(i)' => rcall[i].p = p /\ Works(i)
      BY <2>1 DEF Works
    <3> QED
      BY <3>1 DEF OneCallAtATime, Works
  <2>2. CASE rcall'[k].p = p /\ Works(k)' /\ Works(k) /\ rcall[k].p = p
    <3>1. \A i \in RCalls : rcall'[i].p = p /\ Works(i)' => rcall[i].p = p /\ Works(i)
      BY <2>2 DEF Works
    <3> QED
      BY <3>1 DEF OneCallAtATime, Works
  <2>3. CASE rcall'[k].p = p /\ Works(k)' /\ ~peer[p].busy /\ peer'[p].busy
    <3>1. \A i \in RCalls : ~(rcall[i].p = p /\ Works(i))
      BY <2>3 DEF OneCallAtATime, Works
    <3>2. \A i \in RCalls : rcall'[i].p = p /\ Works(i)' => i = k
      BY <3>1 DEF Works
    <3> QED
      BY <2>3, <3>2
  <2> QED
    BY <2>1, <2>2, <2>3 DEF Works
<1>4. PeersSound'
  <2> SUFFICES ASSUME NEW p \in Peers
               PROVE  /\ peer'[p].at \in {"none", "auth"} => peer'[p].sess = 0
                      /\ peer'[p].sess = 0 => peer'[p].end = "none" /\ ~peer'[p].enrolled
                      /\ peer'[p].sess # 0 => /\ session[peer'[p].sess].st # "none"
                                              /\ session[peer'[p].sess].dev = peer'[p].dev
                      /\ peer'[p].end \in {"run", "done"} => peer'[p].at = "over"
                      /\ peer'[p].at = "over" => peer'[p].end # "kept"
    BY DEF PeersSound, store
  <2>1. Calm(peer[p], peer'[p])
    OBVIOUS
  <2> QED
    BY <2>1 DEF PeersSound, Calm
<1>5. AttachedHeld'
  <2> SUFFICES ASSUME NEW s \in Sessions, session[s].st = "live", session[s].conn # NoPeer
               PROVE  \/ session[s].conn \in unwritten
                      \/ peer'[session[s].conn].sess = s /\ peer'[session[s].conn].end \in {"kept", "run"}
                      \/ \E j \in RCalls : rcall'[j].p = session[s].conn /\ rcall'[j].s = s /\ rcall'[j].at \in Unfinished
    BY DEF AttachedHeld, Unfinished, store
  <2>1. session[s].conn \in Peers
    BY DEF RemoteTyped, SessionRows
  <2>2. \A j \in RCalls : rcall[j].at \in Unfinished => rcall'[j] = rcall[j]
    OBVIOUS
  <2> QED
    BY <2>1, <2>2 DEF AttachedHeld, Unfinished, Calm
<1>6. SessionsSound'
  BY DEF SessionsSound, LiveDevices, store
<1>7. ListenersSound'
  BY DEF ListenersSound, OffLeavesNone, Calm, others
<1>8. RevocationReaches'
  <2> SUFFICES ASSUME NEW p \in Peers, peer[p].at = "open"
               PROVE  /\ peer'[p].sess # 0 /\ session[peer'[p].sess].st = "revoked" => Doomed(p)' \/ peer'[p].enrolled
                      /\ \A j \in RCalls : peer'[p].sess = 0 /\ rcall'[j].p = p /\ rcall'[j].pub = NoPub =>
                           /\ rcall'[j].at \in {"commit", "take", "claim"} => rcall'[j].d = peer'[p].dev
                           /\ rcall'[j].at \in {"take", "claim"} /\ session[rcall'[j].s].st = "revoked" => Doomed(p)'
    BY DEF RevocationReaches, Calm, store
  <2>1. Doomed(p) => Doomed(p)'
    BY DEF Doomed, Matches, Calm, others
  <2>2. Calm(peer[p], peer'[p])
    OBVIOUS
  <2>3. /\ peer[p].sess # 0 /\ session[peer[p].sess].st = "revoked" => Doomed(p) \/ peer[p].enrolled
        /\ \A j \in RCalls : peer[p].sess = 0 /\ rcall[j].p = p /\ rcall[j].pub = NoPub =>
             /\ rcall[j].at \in {"commit", "take", "claim"} => rcall[j].d = peer[p].dev
             /\ rcall[j].at \in {"take", "claim"} /\ session[rcall[j].s].st = "revoked" => Doomed(p)
    BY DEF RevocationReaches
  <2> QED
    BY <2>1, <2>2, <2>3 DEF Calm
<1> QED
  BY <1>1, <1>2, <1>3, <1>4, <1>5, <1>6, <1>7, <1>8

LEMMA GateKeeps ==
  ASSUME RemoteSafe, NEW k \in RCalls, NEW p \in Peers, NEW verb, Gate(k, p, verb)
  PROVE  RemoteSafe'
<1>1. RemoteTyped /\ peer[p] \in ConnRecs /\ peer[p].at = "open" /\ rcall[k].at = "idle"
  BY DEF RemoteSafe, RemoteTyped, Gate
<1> PICK q \in ConnRecs : q = peer[p]
  BY <1>1
<1>2. UNCHANGED <<store, remoteHeld, others, unwritten, eventsLeft>>
  BY DEF Gate
<1>3. CASE Set(p, [q EXCEPT !.hung = TRUE]) /\ UNCHANGED rcall
  <2>1. [q EXCEPT !.hung = TRUE] \in ConnRecs /\ Calm(q, [q EXCEPT !.hung = TRUE])
        /\ [q EXCEPT !.hung = TRUE].busy = q.busy /\ [q EXCEPT !.hung = TRUE].at = "open"
    BY <1>1 DEF ConnRecs, Calm
  <2> QED
    BY <1>2, <1>3, <2>1, FlagKeeps
<1>4. CASE Set(p, Refusal(p)) /\ UNCHANGED rcall
  <2>1. Refusal(p) \in ConnRecs /\ Calm(peer[p], Refusal(p)) /\ Refusal(p).busy = peer[p].busy
    BY <1>1, RefusalIs
  <2>2. Refusal(p).at = "open"
    BY <1>1, <2>1 DEF Calm
  <2> QED
    BY <1>2, <1>4, <2>1, <2>2, FlagKeeps
<1>5. CASE verb \in SignInVerbs /\ UNCHANGED peer
           /\ rcall' = [rcall EXCEPT ![k] = [IdleCall EXCEPT !.p = p, !.verb = verb, !.at = "gate"]]
  <2> DEFINE c == [IdleCall EXCEPT !.p = p, !.verb = verb, !.at = "gate"]
  <2>1. c \in SignInRecs /\ c.at = "gate" /\ c.p = p /\ c.verb = verb /\ c.old = NoPeer
    BY <1>5, IdleIs DEF SignInRecs, CallStages, IdleCall
  <2> HIDE DEF c
  <2>2. rcall' \in [RCalls -> SignInRecs] /\ rcall'[k] = c /\ \A j \in RCalls \ {k} : rcall'[j] = rcall[j]
    BY <1>1, <1>5, <2>1, CallEdit DEF c
  <2>3. RemoteTyped'
    BY <1>1, <1>2, <1>5, <2>2 DEF RemoteTyped, store, others
  <2>4. Busied' = Busied /\ Kept' = Kept
    BY <1>1, <1>5, <2>1, <2>2 DEF Busied, Kept
  <2>5. AdmissionBalanced'
    BY <1>1, <1>2, <2>4, CountsMove DEF RemoteSafe, RemoteTyped
  <2>6. \A x \in Peers : Calm(peer[x], peer'[x])
    BY <1>5 DEF Calm
  <2> QED
    BY <1>1, <1>2, <1>5, <2>1, <2>2, <2>3, <2>5, <2>6, CallKeeps DEF Unfinished
<1> QED
  BY <1>3, <1>4, <1>5 DEF Gate

LEMMA GateClaimsKeeps ==
  ASSUME RemoteSafe, NEW k \in RCalls, GateClaims(k)
  PROVE  RemoteSafe'
<1> DEFINE p == rcall[k].p
           verb == rcall[k].verb
<1>1. RemoteTyped /\ rcall[k].at = "gate" /\ peer[p] \in ConnRecs /\ p \in Peers /\ rcall[k] \in SignInRecs
      /\ peer[p].at \in {"open", "over"} /\ verb \in SignInVerbs /\ k \notin Busied
  BY CallOf DEF RemoteSafe, GateClaims, Busied
<1>2. UNCHANGED <<store, others, unwritten, eventsLeft>>
  BY DEF GateClaims
<1>3. CASE Set(p, Refusal(p)) /\ rcall' = [rcall EXCEPT ![k] = IdleCall] /\ UNCHANGED remoteHeld
  <2>1. Refusal(p) \in ConnRecs /\ Calm(peer[p], Refusal(p)) /\ Refusal(p).busy = peer[p].busy
    BY <1>1, RefusalIs
  <2>2. rcall' \in [RCalls -> SignInRecs] /\ rcall'[k] = IdleCall /\ \A j \in RCalls \ {k} : rcall'[j] = rcall[j]
    BY <1>1, <1>3, CallEdit, IdleIs
  <2>3. /\ peer' \in [Peers -> ConnRecs] /\ \A q \in Peers \ {p} : peer'[q] = peer[q]
        /\ Calm(peer[p], peer'[p]) /\ (peer[p].at # "over" => peer'[p].busy = peer[p].busy)
    BY <1>1, <1>3, <2>1, SetIs DEF Calm
  <2>4. RemoteTyped'
    BY <1>1, <1>2, <1>3, <2>2, <2>3 DEF RemoteTyped, store, others
  <2>5. \A q \in Peers : Calm(peer[q], peer'[q])
    BY <2>3 DEF Calm
  <2>6. Busied' = Busied /\ Kept' = Kept
    BY <1>1, <2>2, <2>5, CallRests, CalmCounts
  <2>7. AdmissionBalanced'
    BY <1>1, <1>3, <2>6, CountsMove DEF RemoteSafe, RemoteTyped
  <2>8. SessionsGoOn /\ SlotsHold /\ LeavesDetached
    <3>1. SessionsGoOn
      BY <1>2 DEF SessionsGoOn, store
    <3>2. SlotsHold
      BY <2>3 DEF SlotsHold
    <3>3. LeavesDetached
      BY <1>1, <2>2 DEF LeavesDetached, Unfinished
    <3> QED
      BY <3>1, <3>2, <3>3
  <2>9. /\ \A j \in RCalls : rcall'[j] = rcall[j] \/ rcall'[j] = IdleCall
        /\ UNCHANGED <<device, sshKey, account, control, operator>> /\ unwritten \subseteq unwritten'
    BY <1>2, <2>2 DEF store, others
  <2> QED
    BY <2>4, <2>5, <2>7, <2>8, <2>9, QuietKeeps
<1>4. CASE /\ ~peer[p].busy /\ Returns(k, TRUE) /\ UNCHANGED remoteHeld
  <2>1. remoteHeld' = remoteHeld - (IF k \in Busied THEN 1 ELSE 0) /\ eventsLeft' \in Int
    BY <1>1, <1>2, <1>4 DEF RemoteTyped
  <2> QED
    BY <1>1, <1>2, <1>4, <2>1, ReturnKeeps DEF Unfinished
<1>5. CASE /\ peer[p].sess = 0 => ~peer[p].busy
           /\ Set(p, [peer[p] EXCEPT !.busy = @ \/ peer[p].sess = 0])
           /\ rcall' = [rcall EXCEPT ![k].at = Begins(verb), ![k].d = peer[p].dev, ![k].pub = peer[p].pend]
           /\ remoteHeld' = remoteHeld + IF verb = "attest" THEN 0 ELSE 1
  <2> PICK q \in ConnRecs, o \in SignInRecs : q = peer[p] /\ o = rcall[k]
    BY <1>1
  <2> DEFINE r == [q EXCEPT !.busy = q.busy \/ q.sess = 0]
             c == [o EXCEPT !.at = Begins(verb), !.d = q.dev, !.pub = q.pend]
  <2>1. r \in ConnRecs /\ Calm(q, r) /\ (q.busy => r.busy) /\ (q.sess = 0 => r.busy)
    BY DEF ConnRecs, Calm
  <2>2. /\ verb = "attest" => Begins(verb) = "attest"
        /\ verb = "login" => Begins(verb) = "commit"
        /\ verb = "resume" => Begins(verb) = "read"
    BY DEF Begins
  <2>3. Begins(verb) \in {"attest", "commit", "read"}
    BY <1>1, <2>2 DEF SignInVerbs
  <2>4. c \in SignInRecs /\ c.at = Begins(verb) /\ c.p = p /\ c.verb = verb /\ c.old = o.old /\ c.d = q.dev
    BY <2>3 DEF SignInRecs, CallStages, ConnRecs
  <2>5. Set(p, r)
    BY <1>5
  <2>6. rcall' = [rcall EXCEPT ![k] = c]
    BY <1>1, <1>5 DEF RemoteTyped
  <2> HIDE DEF c, r
  <2>7. rcall' \in [RCalls -> SignInRecs] /\ rcall'[k] = c /\ \A j \in RCalls \ {k} : rcall'[j] = rcall[j]
    BY <1>1, <2>4, <2>6, CallEdit
  <2>8. /\ peer' \in [Peers -> ConnRecs] /\ \A x \in Peers \ {p} : peer'[x] = peer[x]
        /\ Calm(peer[p], peer'[p]) /\ (peer[p].at # "over" => peer'[p] = r)
    BY <1>1, <2>1, <2>5, SetIs DEF Calm
  <2>9. \A x \in Peers : Calm(peer[x], peer'[x])
    BY <2>8 DEF Calm
  <2>10. remoteHeld' \in Int /\ remoteHeld \in Int
    BY <1>1, <1>5 DEF RemoteTyped
  <2>11. RemoteTyped'
    BY <1>1, <1>2, <2>7, <2>8, <2>10 DEF RemoteTyped, store, others
  <2>12. /\ verb = "attest" => Busied' = Busied
         /\ verb # "attest" => Busied' = Busied \union {k}
    <3>1. verb # "attest" => c.at \in {"commit", "read"}
      BY <1>1, <2>2, <2>4 DEF SignInVerbs
    <3>2. verb = "attest" => c.at = "attest"
      BY <2>2, <2>4
    <3> QED
      BY <1>1, <2>7, <3>1, <3>2 DEF Busied
  <2>13. Kept' = Kept
    BY <2>9, CalmCounts
  <2>14. AdmissionBalanced'
    <3>1. AdmissionBalanced
      BY DEF RemoteSafe
    <3>2. CASE verb = "attest"
      BY <3>1, <3>2, <2>10, <2>12, <2>13, <1>5, CountsMove
    <3>3. CASE verb # "attest"
      BY <1>1, <3>1, <3>3, <2>10, <2>12, <2>13, <1>5, CountsMove
    <3> QED
      BY <3>2, <3>3
  <2>15. o.old # NoPeer => o.verb = "resume" /\ o.old # p
    BY DEF RemoteSafe, CallsSound
  <2>16. \A x \in Peers : peer[x].at = "open" /\ peer[x].busy => peer'[x].busy
    BY <2>1, <2>8
  <2>17. peer[c.p].sess # 0 \/ (~peer[c.p].busy /\ (peer[c.p].at = "open" => peer'[c.p].busy))
    BY <1>1, <1>5, <2>1, <2>4, <2>8
  <2>18. c.at \in {"gate", "attest", "commit", "read", "prove", "take"} /\ c.at # "take"
         /\ (c.at = "read" => c.verb = "resume")
    BY <1>1, <2>2, <2>3, <2>4 DEF SignInVerbs
  <2> QED
    BY <1>1, <1>2, <2>4, <2>7, <2>9, <2>11, <2>14, <2>15, <2>16, <2>17, <2>18, CallKeeps DEF Unfinished
<1> QED
  BY <1>3, <1>4, <1>5 DEF GateClaims

LEMMA LeastIsIn ==
  ASSUME NEW S, S \subseteq Nat, S # {}
  PROVE  Min(S) \in S
<1> DEFINE R == {p \in Nat \X Nat : p[1] < p[2]}
<1>1. R = OpToRel(<, Nat)
  BY DEF OpToRel
<1>2. IsWellFoundedOn(R, Nat)
  BY <1>1, NatLessThanWellFounded
<1>3. PICK x \in S : \A y \in S : ~ (<<y, x>> \in R)
  BY <1>2, WFMin
<1>4. ASSUME NEW y \in S PROVE x <= y
  <2>1. ~ (<<y, x>> \in R) /\ y \in Nat /\ x \in Nat
    BY <1>3
  <2>2. ~ (y < x)
    BY <2>1
  <2> QED
    BY <2>1, <2>2
<1> QED
  BY <1>4 DEF Min

LEMMA AttestReadsKeeps ==
  ASSUME RemoteSafe, NEW k \in RCalls, NEW pub \in AllPubs, AttestReads(k, pub)
  PROVE  RemoteSafe'
<1> DEFINE p == rcall[k].p
           mine == {d \in LiveDevices : device[d].pub = pub}
<1>1. RemoteTyped /\ rcall[k].at = "attest" /\ p \in Peers /\ rcall[k] \in SignInRecs
      /\ peer[p].at \in {"open", "over"} /\ rcall[k].verb \in SignInVerbs /\ k \notin Busied
  BY CallOf DEF RemoteSafe, AttestReads, Busied
<1>2. UNCHANGED <<store, remoteHeld, others, unwritten>>
  BY DEF AttestReads
<1>3. CASE Returns(k, TRUE) /\ eventsLeft' \in Int
  <2>1. remoteHeld' = remoteHeld - (IF k \in Busied THEN 1 ELSE 0)
    BY <1>1, <1>2 DEF RemoteTyped
  <2> QED
    BY <1>1, <1>2, <1>3, <2>1, ReturnKeeps DEF Unfinished
<1>4. CASE /\ rcall' = [rcall EXCEPT ![k].at = "prove", ![k].pub = pub,
                                     ![k].d = IF mine = {} THEN 0 ELSE Min(mine)]
           /\ UNCHANGED <<peer, eventsLeft>>
  <2> PICK o \in SignInRecs : o = rcall[k]
    BY <1>1
  <2> DEFINE d == IF mine = {} THEN 0 ELSE Min(mine)
             c == [o EXCEPT !.at = "prove", !.pub = pub, !.d = d]
  <2>1. d \in 0..MaxDevice
    <3>1. mine \subseteq Nat /\ mine \subseteq 1..MaxDevice
      BY DEF LiveDevices, Devices
    <3>2. mine # {} => Min(mine) \in 1..MaxDevice
      BY <3>1, LeastIsIn
    <3> QED
      BY <3>2, RemoteAssumption DEF RemoteAssumption
  <2>2. rcall' = [rcall EXCEPT ![k] = c]
    BY <1>1, <1>4 DEF RemoteTyped
  <2> HIDE DEF d
  <2>3. c \in SignInRecs /\ c.at = "prove" /\ c.p = p /\ c.verb = o.verb /\ c.old = o.old
    BY <2>1 DEF SignInRecs, CallStages
  <2> HIDE DEF c
  <2>4. rcall' \in [RCalls -> SignInRecs] /\ rcall'[k] = c /\ \A j \in RCalls \ {k} : rcall'[j] = rcall[j]
    BY <1>1, <2>2, <2>3, CallEdit
  <2>5. RemoteTyped'
    BY <1>1, <1>2, <1>4, <2>4 DEF RemoteTyped, store, others
  <2>6. Busied' = Busied /\ Kept' = Kept
    BY <1>1, <1>4, <2>3, <2>4 DEF Busied, Kept
  <2>7. AdmissionBalanced'
    BY <1>2, <2>6, CountsMove DEF RemoteSafe, RemoteTyped
  <2>8. \A x \in Peers : Calm(peer[x], peer'[x])
    BY <1>4 DEF Calm
  <2>9. /\ c.old # NoPeer => c.verb = "resume" /\ c.old # c.p
        /\ c.at \in {"gate", "attest", "commit", "read", "prove", "take"} /\ c.at \notin {"read", "take", "commit"}
    BY <2>3 DEF RemoteSafe, CallsSound
  <2>10. Works(k) /\ rcall[k].p = c.p /\ rcall[k].at \notin Unfinished
    BY <1>1, <2>3 DEF Works, Unfinished
  <2>11. /\ c.p \in Peers /\ peer[c.p].at \in {"open", "over"} /\ c.verb \in SignInVerbs
         /\ \A x \in Peers : peer[x].at = "open" /\ peer[x].busy => peer'[x].busy
    BY <1>1, <1>4, <2>3
  <2> QED
    BY <1>2, <2>3, <2>4, <2>5, <2>7, <2>8, <2>9, <2>10, <2>11, CallKeeps
<1> QED
  <2>1. Event => eventsLeft' \in Int
    BY <1>1 DEF Event, RemoteTyped
  <2>2. UNCHANGED eventsLeft => eventsLeft' \in Int
    BY <1>1 DEF RemoteTyped
  <2> DEFINE proves == /\ rcall' = [rcall EXCEPT ![k].at = "prove", ![k].pub = pub,
                                                 ![k].d = IF mine = {} THEN 0 ELSE Min(mine)]
                       /\ UNCHANGED <<peer, eventsLeft>>
  <2>3. \/ Event /\ Returns(k, TRUE)
        \/ Returns(k, TRUE) /\ UNCHANGED eventsLeft
        \/ proves
    BY DEF AttestReads
  <2>4. proves => RemoteSafe'
    BY <1>4
  <2> HIDE DEF proves
  <2> QED
    BY <1>3, <2>1, <2>2, <2>3, <2>4

LEMMA LoginRefusedKeeps ==
  ASSUME RemoteSafe, NEW k \in RCalls, LoginRefused(k)
  PROVE  RemoteSafe'
<1>1. rcall[k].at = "commit" /\ k \in Busied
  BY DEF LoginRefused, Busied
<1>2. remoteHeld' = remoteHeld - 1 /\ Returns(k, TRUE) /\ UNCHANGED <<store, others, unwritten>>
  BY DEF LoginRefused
<1>3. eventsLeft' \in Int
  BY DEF LoginRefused, Event, RemoteSafe, RemoteTyped
<1> QED
  BY <1>1, <1>2, <1>3, ReturnKeeps DEF Unfinished

LEMMA ResumeReadsKeeps ==
  ASSUME RemoteSafe, NEW k \in RCalls, NEW s \in Sessions, ResumeReads(k, s)
  PROVE  RemoteSafe'
<1> DEFINE p == rcall[k].p
<1>1. RemoteTyped /\ rcall[k].at = "read" /\ p \in Peers /\ rcall[k] \in SignInRecs
      /\ peer[p].at \in {"open", "over"} /\ rcall[k].verb \in SignInVerbs /\ k \in Busied
      /\ peer[p] \in ConnRecs
  BY CallOf DEF RemoteSafe, ResumeReads, Busied
<1>2. UNCHANGED <<store, others, unwritten, eventsLeft>> /\ eventsLeft' \in Int
  BY <1>1 DEF ResumeReads, RemoteTyped
<1>3. ASSUME NEW b \in BOOLEAN, Returns(k, b), remoteHeld' = remoteHeld - 1 PROVE RemoteSafe'
  BY <1>1, <1>2, <1>3, ReturnKeeps DEF Unfinished
<1>4. CASE /\ session[s].dev = peer[p].dev /\ Standing(s) /\ session[s].conn # p
           /\ rcall' = [rcall EXCEPT ![k].at = "take", ![k].s = s, ![k].d = peer[p].dev, ![k].old = session[s].conn]
           /\ UNCHANGED <<peer, remoteHeld>>
  <2> PICK o \in SignInRecs : o = rcall[k]
    BY <1>1
  <2> DEFINE c == [o EXCEPT !.at = "take", !.s = s, !.d = peer[p].dev, !.old = session[s].conn]
  <2>1. peer[p].dev \in 0..MaxDevice /\ session[s].conn \in Peers \union {NoPeer} /\ s \in 0..MaxSession
    BY <1>1 DEF ConnRecs, RemoteTyped, SessionRows, Sessions
  <2>2. rcall' = [rcall EXCEPT ![k] = c]
    BY <1>1, <1>4 DEF RemoteTyped
  <2>3. c \in SignInRecs /\ c.at = "take" /\ c.p = p /\ c.verb = o.verb /\ c.old = session[s].conn
        /\ c.s = s /\ c.d = peer[p].dev
    BY <2>1 DEF SignInRecs, CallStages
  <2> HIDE DEF c
  <2>4. rcall' \in [RCalls -> SignInRecs] /\ rcall'[k] = c /\ \A j \in RCalls \ {k} : rcall'[j] = rcall[j]
    BY <1>1, <2>2, <2>3, CallEdit
  <2>5. RemoteTyped'
    BY <1>1, <1>2, <1>4, <2>4 DEF RemoteTyped, store, others
  <2>6. Busied' = Busied /\ Kept' = Kept
    BY <1>1, <1>4, <2>3, <2>4 DEF Busied, Kept
  <2>7. AdmissionBalanced'
    BY <1>4, <2>6, CountsMove DEF RemoteSafe, RemoteTyped
  <2>8. \A x \in Peers : Calm(peer[x], peer'[x])
    BY <1>4 DEF Calm
  <2>9. c.verb = "resume" /\ c.old # c.p /\ c.at = "take"
    BY <1>1, <1>4, <2>3 DEF RemoteSafe, CallsSound
  <2>10. Works(k) /\ rcall[k].p = c.p /\ rcall[k].at \notin Unfinished
    BY <1>1, <2>3 DEF Works, Unfinished
  <2>11. /\ c.p \in Peers /\ peer[c.p].at \in {"open", "over"} /\ c.verb \in SignInVerbs
         /\ c.d = peer[c.p].dev
         /\ \A x \in Peers : peer[x].at = "open" /\ peer[x].busy => peer'[x].busy
    BY <1>1, <1>4, <2>3
  <2>12. c.s \in Sessions /\ session[c.s].st = "live" /\ c.d = session[c.s].dev /\ c.d \in Devices
    BY <1>4, <2>3 DEF Standing, RemoteSafe, SessionsSound
  <2> QED
    BY <1>2, <2>4, <2>5, <2>7, <2>8, <2>9, <2>10, <2>11, <2>12, CallKeeps
<1>5. \/ Returns(k, TRUE) /\ remoteHeld' = remoteHeld - 1
      \/ Returns(k, FALSE) /\ remoteHeld' = remoteHeld - 1
      \/ /\ session[s].dev = peer[p].dev /\ Standing(s) /\ session[s].conn # p
         /\ rcall' = [rcall EXCEPT ![k].at = "take", ![k].s = s, ![k].d = peer[p].dev, ![k].old = session[s].conn]
         /\ UNCHANGED <<peer, remoteHeld>>
  BY DEF ResumeReads
<1>6. Returns(k, TRUE) /\ remoteHeld' = remoteHeld - 1 => RemoteSafe'
  BY <1>3
<1>7. Returns(k, FALSE) /\ remoteHeld' = remoteHeld - 1 => RemoteSafe'
  BY <1>3
<1> QED
  BY <1>4, <1>5, <1>6, <1>7

LEMMA SignInReturnsKeeps ==
  ASSUME RemoteSafe, NEW k \in RCalls, SignInReturns(k)
  PROVE  RemoteSafe'
<1> DEFINE p == rcall[k].p
           o == rcall[k].old
<1>1. RemoteTyped /\ rcall[k].at = "close" /\ p \in Peers /\ k \notin Busied
  BY CallOf DEF RemoteSafe, SignInReturns, Busied
<1>2. /\ rcall' = [rcall EXCEPT ![k] = IdleCall]
      /\ peer' = [q \in Peers |-> CASE q = p -> [peer[p] EXCEPT !.busy = FALSE]
                                    [] q # p /\ q = o /\ peer[q].at = "open" -> [peer[q] EXCEPT !.hung = TRUE]
                                    [] OTHER -> peer[q]]
      /\ UNCHANGED <<store, remoteHeld, others, unwritten, eventsLeft>>
  BY DEF SignInReturns
<1>3. rcall' \in [RCalls -> SignInRecs] /\ rcall'[k] = IdleCall /\ \A j \in RCalls \ {k} : rcall'[j] = rcall[j]
  BY <1>1, <1>2, CallEdit, IdleIs
<1>4. ASSUME NEW q \in Peers PROVE peer'[q] \in ConnRecs /\ Calm(peer[q], peer'[q]) /\ (q # p => peer'[q].busy = peer[q].busy)
  <2> PICK r \in ConnRecs : r = peer[q]
    BY <1>1 DEF RemoteTyped
  <2>1. /\ [r EXCEPT !.busy = FALSE] \in ConnRecs /\ Calm(r, [r EXCEPT !.busy = FALSE])
        /\ [r EXCEPT !.hung = TRUE] \in ConnRecs /\ Calm(r, [r EXCEPT !.hung = TRUE])
        /\ [r EXCEPT !.hung = TRUE].busy = r.busy /\ Calm(r, r)
    BY DEF ConnRecs, Calm
  <2>2. /\ q = p => peer'[q] = [r EXCEPT !.busy = FALSE]
        /\ q # p => peer'[q] = r \/ peer'[q] = [r EXCEPT !.hung = TRUE]
    BY <1>2
  <2> QED
    BY <2>1, <2>2
<1>5. peer' \in [Peers -> ConnRecs]
  BY <1>2, <1>4
<1>6. RemoteTyped'
  BY <1>1, <1>2, <1>3, <1>5 DEF RemoteTyped, store, others
<1>7. Busied' = Busied /\ Kept' = Kept
  BY <1>1, <1>3, <1>4, CallRests, CalmCounts
<1>8. AdmissionBalanced'
  BY <1>2, <1>7, CountsMove DEF RemoteSafe, RemoteTyped
<1>9. SessionsGoOn /\ LeavesDetached
  BY <1>1, <1>2, <1>3 DEF SessionsGoOn, LeavesDetached, Unfinished, store
<1>10. SlotsHold
  BY <1>1, <1>3, <1>4, IdleIs DEF SlotsHold, Works
<1>11. /\ \A j \in RCalls : rcall'[j] = rcall[j] \/ rcall'[j] = IdleCall
       /\ UNCHANGED <<device, sshKey, account, control, operator>> /\ unwritten \subseteq unwritten'
  BY <1>2, <1>3 DEF store, others
<1> QED
  BY <1>4, <1>6, <1>8, <1>9, <1>10, <1>11, QuietKeeps

\* What the end of connection p writes of the sessions: none stays live and attached to it, or
\* the write failed.
DetachedOf(p) ==
  /\ session' \in [Sessions -> SessionRows] /\ SessionsGoOn /\ unwritten \subseteq unwritten' /\ unwritten' \subseteq Peers
  /\ eventsLeft' \in Int
  /\ LetsGo(p)
  /\ \A r \in Sessions : session'[r].conn = session[r].conn
                         \/ (r = peer[p].sess /\ session[r].conn = p /\ session'[r].conn = NoPeer /\ peer[p].end = "run")

LEMMA DetachIs ==
  ASSUME RemoteTyped, NEW p \in Peers, NEW s \in 0..MaxSession, DetachWrite(s, p),
         s = 0 \/ (s = peer[p].sess /\ peer[p].end = "run")
  PROVE  DetachedOf(p)
<1>1. CASE session' = Detached(s, p) /\ UNCHANGED <<unwritten, eventsLeft>>
  <2>1. ASSUME NEW r \in Sessions
        PROVE  /\ session'[r] \in SessionRows
               /\ session'[r].dev = session[r].dev
               /\ session'[r].st = session[r].st \/ (session'[r].st = "ended" /\ session[r].conn = p)
               /\ session'[r].conn = session[r].conn \/ (r = s /\ session[r].conn = p /\ session'[r].conn = NoPeer)
               /\ session'[r].st = "live" => session'[r].conn # p
    <3> PICK q \in SessionRows : q = session[r]
      BY DEF RemoteTyped
    <3>1. /\ [q EXCEPT !.conn = NoPeer, !.grace = TRUE] \in SessionRows
          /\ [q EXCEPT !.conn = NoPeer, !.grace = TRUE].dev = q.dev
          /\ [q EXCEPT !.conn = NoPeer, !.grace = TRUE].st = q.st
          /\ [q EXCEPT !.conn = NoPeer, !.grace = TRUE].conn = NoPeer
          /\ [q EXCEPT !.st = "ended"] \in SessionRows
          /\ [q EXCEPT !.st = "ended"].dev = q.dev
          /\ [q EXCEPT !.st = "ended"].conn = q.conn
          /\ [q EXCEPT !.st = "ended"].st = "ended"
      BY DEF SessionRows
    <3>2. /\ r = s /\ q.conn = p => session'[r] = [q EXCEPT !.conn = NoPeer, !.grace = TRUE]
          /\ r # s /\ q.conn = p => session'[r] = [q EXCEPT !.st = "ended"]
          /\ q.conn # p => session'[r] = q
      BY <1>1 DEF Detached
    <3>3. p # NoPeer
      BY RemoteAssumption DEF RemoteAssumption, NoPeer
    <3> QED
      BY <3>1, <3>2, <3>3
  <2>2. session' = [r \in Sessions |-> session'[r]]
    BY <1>1 DEF Detached
  <2>3. session' \in [Sessions -> SessionRows]
    BY <2>1, <2>2
  <2>4. SessionsGoOn
    BY <2>1 DEF SessionsGoOn
  <2>5. \A r \in Sessions : r # 0
    BY DEF Sessions
  <2>6. unwritten' = unwritten /\ unwritten \subseteq Peers /\ eventsLeft' \in Int
    BY <1>1 DEF RemoteTyped
  <2> QED
    BY <2>1, <2>3, <2>4, <2>5, <2>6 DEF DetachedOf, LetsGo
<1>2. CASE Event /\ unwritten' = unwritten \union {p} /\ UNCHANGED session
  <2>1. eventsLeft' \in Int
    BY <1>2 DEF Event, RemoteTyped
  <2>2. SessionsGoOn
    BY <1>2 DEF SessionsGoOn
  <2> QED
    BY <1>2, <2>1, <2>2 DEF DetachedOf, LetsGo, RemoteTyped
<1> QED
  BY <1>1, <1>2 DEF DetachWrite

LEMMA EndRunsKeeps ==
  ASSUME RemoteSafe, NEW p \in Peers, EndRuns(p)
  PROVE  RemoteSafe' /\ DetachedOf(p)
<1>1. /\ RemoteTyped /\ peer[p] \in ConnRecs /\ peer[p].end = "run" /\ peer[p].sess \in 0..MaxSession
      /\ peer[p].at = "over" /\ p \in Kept
  BY DEF RemoteSafe, RemoteTyped, EndRuns, ConnRecs, PeersSound, Kept
<1> PICK q \in ConnRecs : q = peer[p]
  BY <1>1
<1>2. /\ remoteHeld' = remoteHeld - 1 /\ DetachWrite(q.sess, p) /\ Set(p, [q EXCEPT !.end = "done"])
      /\ UNCHANGED <<rcall, device, sshKey, account, control, operator>>
  BY DEF EndRuns, others
<1>3. DetachedOf(p)
  BY <1>1, <1>2, DetachIs
<1>4. [q EXCEPT !.end = "done"] \in ConnRecs /\ Settles(q, [q EXCEPT !.end = "done"])
  BY <1>1 DEF ConnRecs, Settles
<1>5. /\ peer' \in [Peers -> ConnRecs] /\ \A x \in Peers \ {p} : peer'[x] = peer[x]
      /\ Settles(peer[p], peer'[p])
  BY <1>1, <1>2, <1>4, SetIs DEF Settles
<1>6. \A x \in Peers : Calm(peer[x], peer'[x]) \/ (Settles(peer[x], peer'[x]) /\ LetsGo(x))
  BY <1>3, <1>5 DEF Calm, DetachedOf
<1>7. RemoteTyped'
  BY <1>1, <1>2, <1>3, <1>5 DEF RemoteTyped, DetachedOf
<1>8. Busied' = Busied
  BY <1>2 DEF Busied
<1>9. Kept' = Kept \ {p}
  BY <1>5 DEF Kept, Settles
<1>10. AdmissionBalanced'
  BY <1>1, <1>2, <1>8, <1>9, CountsMove DEF RemoteSafe, RemoteTyped
<1>11. SlotsHold
  BY <1>1, <1>5 DEF SlotsHold
<1>12. LeavesDetached /\ \A j \in RCalls : rcall'[j] = rcall[j]
  BY <1>2 DEF LeavesDetached
<1>13. SessionsGoOn /\ unwritten \subseteq unwritten'
  BY <1>3 DEF DetachedOf
<1> QED
  BY <1>2, <1>3, <1>6, <1>7, <1>10, <1>11, <1>12, <1>13, QuietKeeps

LEMMA SignInUndoneKeeps ==
  ASSUME RemoteSafe, NEW k \in RCalls, SignInUndone(k)
  PROVE  RemoteSafe' /\ DetachedOf(rcall[k].p)
<1> DEFINE p == rcall[k].p
<1>1. RemoteTyped /\ rcall[k].at = "undo" /\ p \in Peers /\ k \in Busied /\ 0 \in 0..MaxSession
  BY CallOf, RemoteAssumption DEF RemoteSafe, SignInUndone, Busied, RemoteAssumption
<1>2. /\ remoteHeld' = remoteHeld - 1 /\ DetachWrite(0, p) /\ Returns(k, TRUE)
      /\ UNCHANGED <<device, sshKey, account, control, operator>>
  BY DEF SignInUndone, others
<1>3. DetachedOf(p)
  BY <1>1, <1>2, DetachIs
<1>4. /\ peer' \in [Peers -> ConnRecs] /\ rcall' \in [RCalls -> SignInRecs]
      /\ \A q \in Peers : Calm(peer[q], peer'[q])
      /\ \A q \in Peers \ {p} : peer'[q] = peer[q]
      /\ rcall'[k] = IdleCall /\ \A j \in RCalls \ {k} : rcall'[j] = rcall[j]
  BY <1>1, <1>2, ReturnsIs
<1>5. RemoteTyped'
  BY <1>1, <1>2, <1>3, <1>4 DEF RemoteTyped, DetachedOf
<1>6. Busied' = Busied \ {k} /\ Kept' = Kept
  BY <1>4, CallRests, CalmCounts
<1>7. AdmissionBalanced'
  BY <1>1, <1>2, <1>6, CountsMove DEF RemoteSafe, RemoteTyped
<1>8. SlotsHold
  BY <1>1, <1>4, IdleIs DEF SlotsHold, Works
<1>9. LeavesDetached
  BY <1>3, <1>4 DEF LeavesDetached, DetachedOf
<1>10. SessionsGoOn /\ unwritten \subseteq unwritten' /\ \A j \in RCalls : rcall'[j] = rcall[j] \/ rcall'[j] = IdleCall
  BY <1>3, <1>4 DEF DetachedOf
<1> QED
  BY <1>2, <1>3, <1>4, <1>5, <1>7, <1>8, <1>9, <1>10, QuietKeeps

\* A session is claimed for the connection of call k, whose connection is not written.
LEMMA ClaimKeeps ==
  ASSUME RemoteSafe, RemoteTyped', NEW k \in RCalls, NEW c \in SignInRecs, NEW s \in Sessions,
         rcall[k].at \in {"commit", "take"}, c.p = rcall[k].p, c.pub = rcall[k].pub, c.verb = rcall[k].verb,
         c.old = rcall[k].old, c.at = "claim", c.s = s, c.d \in Devices,
         rcall'[k] = c, \A j \in RCalls \ {k} : rcall'[j] = rcall[j],
         session'[s].conn = c.p, session'[s].st # "none", session'[s].dev = c.d,
         session[s].st # "none" => session'[s].st = session[s].st /\ session'[s].dev = session[s].dev,
         session'[s].st = "revoked" => rcall[k].at = "take" /\ rcall[k].s = s,
         c.pub = NoPub => c.d = rcall[k].d,
         \A r \in Sessions \ {s} : session'[r] = session[r],
         SessionsSound', UNCHANGED <<peer, remoteHeld, others, unwritten>>
  PROVE  RemoteSafe'
<1> USE DEF RemoteSafe
<1>1. rcall[k].p \in Peers /\ peer[rcall[k].p].at \in {"open", "over"} /\ rcall[k].verb \in SignInVerbs
  BY CallOf
<1>2. CallsSound'
  <2> SUFFICES ASSUME NEW j \in RCalls
               PROVE  /\ rcall'[j].at # "idle" => rcall'[j].p \in Peers /\ peer[rcall'[j].p].at \in {"open", "over"}
                                                  /\ rcall'[j].verb \in SignInVerbs
                      /\ rcall'[j].at \in {"claim", "undo", "register", "take"} =>
                           rcall'[j].s \in Sessions /\ session'[rcall'[j].s].st # "none"
                      /\ rcall'[j].at \in {"claim", "take"} =>
                           rcall'[j].d = session'[rcall'[j].s].dev /\ rcall'[j].d \in Devices
                      /\ rcall'[j].at = "read" \/ rcall'[j].old # NoPeer => rcall'[j].verb = "resume"
                      /\ rcall'[j].old # NoPeer => rcall'[j].old # rcall'[j].p
                      /\ rcall'[j].at = "register" =>
                           peer[rcall'[j].p].sess = rcall'[j].s /\ peer[rcall'[j].p].end = "none"
    BY DEF CallsSound
  <2>1. CASE j = k
    BY <2>1, <1>1 DEF CallsSound
  <2>2. CASE j # k
    <3>1. rcall'[j] = rcall[j]
      BY <2>2
    <3>2. \A r \in Sessions : session[r].st # "none" => session'[r].st # "none" /\ session'[r].dev = session[r].dev
      OBVIOUS
    <3> QED
      BY <3>1, <3>2 DEF CallsSound
  <2> QED
    BY <2>1, <2>2
<1>3. OneRegisters'
  BY DEF OneRegisters
<1>4. OneCallAtATime'
  <2>1. \A i \in RCalls : /\ rcall'[i].p = rcall[i].p
                          /\ rcall'[i].at \notin {"idle", "gate"} => rcall[i].at \notin {"idle", "gate"}
    OBVIOUS
  <2> QED
    BY <2>1 DEF OneCallAtATime
<1>5. PeersSound'
  <2>1. \A p \in Peers : peer[p].sess # 0 => peer[p].sess \in Sessions
    BY DEF RemoteTyped, ConnRecs, Sessions
  <2>2. \A r \in Sessions : session[r].st # "none" => session'[r].st # "none" /\ session'[r].dev = session[r].dev
    OBVIOUS
  <2> QED
    BY <2>1, <2>2 DEF PeersSound
<1>6. AdmissionBalanced'
  <2>1. Busied' = Busied /\ Kept' = Kept
    BY DEF Busied, Kept
  <2> QED
    BY <2>1, CountsMove DEF RemoteTyped
<1>7. AttachedHeld'
  <2> SUFFICES ASSUME NEW r \in Sessions, session'[r].st = "live", session'[r].conn # NoPeer
               PROVE  \/ session'[r].conn \in unwritten
                      \/ peer[session'[r].conn].sess = r /\ peer[session'[r].conn].end \in {"kept", "run"}
                      \/ \E j \in RCalls : rcall'[j].p = session'[r].conn /\ rcall'[j].s = r /\ rcall'[j].at \in Unfinished
    BY DEF AttachedHeld, Unfinished
  <2>1. CASE r = s
    BY <2>1 DEF Unfinished
  <2>2. CASE r # s
    <3>1. session'[r] = session[r] /\ \A j \in RCalls : rcall[j].at \in Unfinished => rcall'[j] = rcall[j]
      BY <2>2 DEF Unfinished
    <3> QED
      BY <3>1 DEF AttachedHeld, Unfinished
  <2> QED
    BY <2>1, <2>2
<1>8. ListenersSound'
  BY DEF ListenersSound, OffLeavesNone, others
<1>9. RevocationReaches'
  <2> SUFFICES ASSUME NEW p \in Peers, peer[p].at = "open"
               PROVE  /\ peer[p].sess # 0 /\ session'[peer[p].sess].st = "revoked" => Doomed(p)' \/ peer[p].enrolled
                      /\ \A j \in RCalls : peer[p].sess = 0 /\ rcall'[j].p = p /\ rcall'[j].pub = NoPub =>
                           /\ rcall'[j].at \in {"commit", "take", "claim"} => rcall'[j].d = peer[p].dev
                           /\ rcall'[j].at \in {"take", "claim"} /\ session'[rcall'[j].s].st = "revoked" => Doomed(p)'
    BY DEF RevocationReaches
  <2>1. Doomed(p)' <=> Doomed(p)
    BY DEF Doomed, Matches, others
  <2>2. \A r \in Sessions : session[r].st # "none" /\ session'[r].st = "revoked" => session[r].st = "revoked"
    OBVIOUS
  <2>3. peer[p].sess # 0 => peer[p].sess \in Sessions /\ session[peer[p].sess].st # "none"
    BY DEF RemoteTyped, ConnRecs, Sessions, PeersSound
  <2>4. ASSUME NEW j \in RCalls, peer[p].sess = 0, rcall'[j].p = p, rcall'[j].pub = NoPub
        PROVE  /\ rcall'[j].at \in {"commit", "take", "claim"} => rcall'[j].d = peer[p].dev
               /\ rcall'[j].at \in {"take", "claim"} /\ session'[rcall'[j].s].st = "revoked" => Doomed(p)
    <3>1. /\ rcall[j].p = p /\ rcall[j].pub = NoPub
          /\ rcall[j].at \in {"commit", "take", "claim"} => rcall[j].d = peer[p].dev
          /\ rcall[j].at \in {"take", "claim"} /\ session[rcall[j].s].st = "revoked" => Doomed(p)
          /\ rcall[j].at \in {"take", "claim"} => rcall[j].s \in Sessions /\ session[rcall[j].s].st # "none"
      BY <2>4 DEF RevocationReaches, CallsSound
    <3>2. CASE j = k
      BY <2>4, <2>2, <3>1, <3>2
    <3>3. CASE j # k
      BY <2>4, <2>2, <3>1, <3>3
    <3> QED
      BY <3>2, <3>3
  <2> QED
    BY <2>1, <2>2, <2>3, <2>4 DEF RevocationReaches
<1> QED
  BY <1>2, <1>3, <1>4, <1>5, <1>6, <1>7, <1>8, <1>9

LEMMA ResumeTakesKeeps ==
  ASSUME RemoteSafe, NEW k \in RCalls, ResumeTakes(k)
  PROVE  RemoteSafe'
<1>1. RemoteTyped /\ rcall[k].at = "take" /\ rcall[k].p \in Peers /\ rcall[k] \in SignInRecs /\ k \in Busied
  BY CallOf DEF RemoteSafe, ResumeTakes, Busied
<1> PICK o \in SignInRecs : o = rcall[k]
  BY <1>1
<1>2. o.s \in Sessions /\ session[o.s] \in SessionRows /\ session[o.s].st # "none" /\ o.d = session[o.s].dev /\ o.d \in Devices
  BY <1>1 DEF RemoteSafe, CallsSound, RemoteTyped
<1>3. UNCHANGED <<device, sshKey, account, others, unwritten, eventsLeft>> /\ eventsLeft' \in Int
  BY <1>1 DEF ResumeTakes, RemoteTyped
<1>4. CASE Returns(k, FALSE) /\ remoteHeld' = remoteHeld - 1 /\ UNCHANGED session
  BY <1>1, <1>3, <1>4, ReturnKeeps DEF Unfinished, store
<1>5. CASE /\ session' = [session EXCEPT ![o.s].conn = o.p, ![o.s].grace = FALSE]
           /\ At(k, "claim") /\ UNCHANGED <<peer, remoteHeld>>
  <2> PICK r \in SessionRows : r = session[o.s]
    BY <1>2
  <2> DEFINE c == [o EXCEPT !.at = "claim"]
             z == [r EXCEPT !.conn = o.p, !.grace = FALSE]
  <2>1. c \in SignInRecs /\ c.at = "claim" /\ c.p = o.p /\ c.pub = o.pub /\ c.verb = o.verb /\ c.old = o.old
        /\ c.s = o.s /\ c.d = o.d
    BY DEF SignInRecs, CallStages
  <2>2. z \in SessionRows /\ z.conn = o.p /\ z.st = r.st /\ z.dev = r.dev
    BY <1>1 DEF SessionRows
  <2>3. rcall' = [rcall EXCEPT ![k] = c]
    BY <1>1, <1>5 DEF RemoteTyped, At
  <2>4. session' = [session EXCEPT ![o.s] = z]
    BY <1>1, <1>2, <1>5 DEF RemoteTyped
  <2> HIDE DEF c, z
  <2>5. rcall' \in [RCalls -> SignInRecs] /\ rcall'[k] = c /\ \A j \in RCalls \ {k} : rcall'[j] = rcall[j]
    BY <1>1, <2>1, <2>3, CallEdit
  <2>6. /\ session' \in [Sessions -> SessionRows] /\ session'[o.s] = z
        /\ \A x \in Sessions \ {o.s} : session'[x] = session[x]
    BY <1>1, <1>2, <2>2, <2>4 DEF RemoteTyped
  <2>7. RemoteTyped'
    BY <1>1, <1>3, <1>5, <2>5, <2>6 DEF RemoteTyped, others
  <2>8. SessionsSound'
    <3>1. \A x \in Sessions : session'[x].st = session[x].st /\ session'[x].dev = session[x].dev
      BY <2>2, <2>6
    <3> QED
      BY <1>3, <3>1 DEF RemoteSafe, SessionsSound, LiveDevices
  <2>9. /\ rcall[k].at \in {"commit", "take"} /\ c.p = rcall[k].p /\ c.pub = rcall[k].pub /\ c.verb = rcall[k].verb
        /\ c.old = rcall[k].old /\ c.d \in Devices /\ c.d = rcall[k].d /\ rcall[k].at = "take" /\ rcall[k].s = o.s
    BY <1>1, <1>2, <2>1
  <2>10. /\ session'[o.s].conn = c.p /\ session'[o.s].st = session[o.s].st /\ session'[o.s].dev = c.d
         /\ session'[o.s].dev = session[o.s].dev /\ session'[o.s].st # "none"
    BY <1>2, <2>1, <2>2, <2>6
  <2>11. UNCHANGED <<peer, remoteHeld, others, unwritten>>
    BY <1>3, <1>5
  <2>12. c.at = "claim" /\ c.s = o.s /\ c \in SignInRecs /\ o.s \in Sessions
    BY <1>2, <2>1
  <2> QED
    BY <2>5, <2>6, <2>7, <2>8, <2>9, <2>10, <2>11, <2>12, ClaimKeeps
<1> QED
  BY <1>4, <1>5 DEF ResumeTakes

LEMMA FreeSessionIs ==
  ASSUME FreeSession \in Sessions
  PROVE  session[FreeSession].st = "none"
<1> DEFINE S == {s \in Sessions : session[s].st = "none"}
<1>1. MaxSession \in Nat
  BY RemoteAssumption DEF RemoteAssumption
<1>2. S \union {MaxSession + 1} \subseteq Nat
  BY <1>1 DEF Sessions
<1>3. FreeSession \in S \union {MaxSession + 1}
  BY <1>2, LeastIsIn DEF FreeSession
<1>4. FreeSession # MaxSession + 1
  BY <1>1 DEF Sessions
<1> QED
  BY <1>3, <1>4

LEMMA LoginCommitsKeeps ==
  ASSUME RemoteSafe, NEW k \in RCalls, LoginCommits(k)
  PROVE  RemoteSafe'
<1>1. RemoteTyped /\ rcall[k].at = "commit" /\ rcall[k].p \in Peers /\ rcall[k] \in SignInRecs
  BY CallOf DEF RemoteSafe, LoginCommits
<1> PICK o \in SignInRecs : o = rcall[k]
  BY <1>1
<1> DEFINE d == IF o.d = 0 THEN FreeDevice ELSE o.d
           row == [st |-> "live", pub |-> o.pub]
           z == [st |-> "live", dev |-> d, conn |-> o.p, grace |-> FALSE]
           c == [o EXCEPT !.at = "claim", !.s = FreeSession, !.d = d]
<1>2. /\ LoginStands(o) /\ FreeSession \in Sessions /\ d \in Devices
      /\ device' = IF o.d = 0 THEN [device EXCEPT ![d] = row] ELSE device
      /\ session' = [session EXCEPT ![FreeSession] = z]
      /\ rcall' = [rcall EXCEPT ![k].at = "claim", ![k].s = FreeSession, ![k].d = d]
      /\ UNCHANGED <<peer, sshKey, account, remoteHeld, others, unwritten, eventsLeft>>
  BY DEF LoginCommits
<1> HIDE DEF d
<1> PICK s \in Sessions : s = FreeSession
  BY <1>2
<1>3. session[s].st = "none"
  BY <1>2, FreeSessionIs
<1>4. row \in DeviceRows /\ z \in SessionRows /\ z.st = "live" /\ z.dev = d /\ z.conn = o.p /\ row.st = "live"
  <2>1. d \in 0..MaxDevice
    BY <1>2 DEF Devices
  <2> QED
    BY <1>1, <2>1 DEF DeviceRows, SessionRows, SignInRecs
<1>5. c \in SignInRecs /\ c.at = "claim" /\ c.p = o.p /\ c.pub = o.pub /\ c.verb = o.verb /\ c.old = o.old
      /\ c.s = s /\ c.d = d
  <2>1. d \in 0..MaxDevice /\ s \in 0..MaxSession
    BY <1>2 DEF Devices, Sessions
  <2> QED
    BY <2>1 DEF SignInRecs, CallStages
<1>6. rcall' = [rcall EXCEPT ![k] = c]
  BY <1>1, <1>2 DEF RemoteTyped
<1> HIDE DEF c, z, row
<1>7. rcall' \in [RCalls -> SignInRecs] /\ rcall'[k] = c /\ \A j \in RCalls \ {k} : rcall'[j] = rcall[j]
  BY <1>1, <1>5, <1>6, CallEdit
<1>8. /\ session' \in [Sessions -> SessionRows] /\ session'[s] = z
      /\ \A x \in Sessions \ {s} : session'[x] = session[x]
  BY <1>1, <1>2, <1>4 DEF RemoteTyped
<1>9. /\ device' \in [Devices -> DeviceRows]
      /\ \A e \in Devices \ {d} : device'[e] = device[e]
      /\ device'[d] = IF o.d = 0 THEN row ELSE device[d]
  BY <1>1, <1>2, <1>4 DEF RemoteTyped
<1>10. RemoteTyped'
  BY <1>1, <1>2, <1>7, <1>8, <1>9 DEF RemoteTyped, others
<1>11. SessionsSound'
  <2>1. account /\ sshKey /\ SessionsSound
    BY <1>2 DEF LoginStands, RemoteSafe
  <2>2. device'[d].st = "live"
    BY <1>2, <1>4, <1>9 DEF LoginStands, d
  <2>3. o.d = 0 => LiveDevices = {}
    BY <1>2 DEF LoginStands
  <2>4. CASE o.d = 0
    <3>1. \A e \in Devices : device[e].st # "live"
      BY <2>3, <2>4 DEF LiveDevices
    <3>2. \A r \in Sessions : session[r].st # "live"
      BY <2>1, <3>1 DEF SessionsSound
    <3>3. \A e \in Devices : device'[e].st = "live" => e = d
      BY <1>9, <3>1
    <3> QED
      BY <1>2, <1>4, <1>8, <2>1, <2>2, <3>2, <3>3 DEF SessionsSound, LiveDevices
  <2>5. CASE o.d # 0
    <3>1. \A e \in Devices : device'[e] = device[e]
      BY <1>9, <2>5
    <3>2. LiveDevices' = LiveDevices
      BY <3>1 DEF LiveDevices
    <3> QED
      BY <1>2, <1>4, <1>8, <2>1, <2>2, <3>1, <3>2 DEF SessionsSound
  <2> QED
    BY <2>4, <2>5
<1>12. o.pub = NoPub => d = o.d
  BY <1>2 DEF LoginStands, d
<1>13. /\ session'[s].conn = c.p /\ session'[s].st = "live" /\ session'[s].dev = c.d /\ c.d \in Devices
       /\ UNCHANGED <<peer, remoteHeld, others, unwritten>>
  BY <1>2, <1>4, <1>5, <1>8
<1> QED
  BY <1>1, <1>3, <1>5, <1>7, <1>8, <1>10, <1>11, <1>12, <1>13, ClaimKeeps

\* One connection and its call move on, with the sessions, devices and switches as they were.
LEMMA PeerKeeps ==
  ASSUME RemoteSafe, RemoteTyped', AdmissionBalanced', NEW k \in RCalls, NEW p \in Peers, NEW c \in SignInRecs,
         rcall[k].p = p, Works(k), rcall[k].at # "idle",
         rcall'[k] = c, \A j \in RCalls \ {k} : rcall'[j] = rcall[j], c = IdleCall \/ c.p = p,
         \A q \in Peers \ {p} : peer'[q] = peer[q],
         peer'[p].at = peer[p].at, peer'[p].gen = peer[p].gen,
         peer[p].at = "open" => /\ peer[p].hung => peer'[p].hung
                                /\ peer[p].ending => peer'[p].ending
                                /\ peer[p].violated => peer'[p].violated,
         \* the call
         c = IdleCall \/ (c.at \in {"undo", "register", "close"} /\ c.verb = rcall[k].verb /\ c.old = rcall[k].old
                          /\ c.s = rcall[k].s /\ rcall[k].at = IF c.at = "close" THEN "register" ELSE "claim"),
         c.at = "register" => peer'[p].sess = c.s /\ peer'[p].end = "none" /\ peer[p].sess = 0,
         \* the connection
         peer'[p].end = peer[p].end \/ (rcall[k].at = "register" /\ peer'[p].end \in {"kept", "run"}),
         peer'[p].sess = peer[p].sess \/ (rcall[k].at = "claim" /\ peer[p].sess = 0 /\ peer'[p].sess = rcall[k].s),
         peer'[p].sess = 0 => peer'[p].end = "none" /\ ~peer'[p].enrolled
                              /\ (c = IdleCall \/ (peer[p].at = "open" => peer'[p].busy)),
         peer'[p].sess # 0 => session[peer'[p].sess].st # "none" /\ session[peer'[p].sess].dev = peer'[p].dev,
         peer'[p].end \in {"run", "done"} => peer[p].at = "over", peer[p].at = "over" => peer'[p].end # "kept",
         peer[p].at = "open" /\ peer'[p].sess # 0 /\ session[peer'[p].sess].st = "revoked" => Doomed(p)' \/ peer'[p].enrolled,
         rcall[k].at \in Unfinished => c # IdleCall,
         rcall[k].at = "register" => peer'[p].sess = rcall[k].s /\ peer'[p].end \in {"kept", "run"},
         UNCHANGED <<store, others, unwritten>>
  PROVE  RemoteSafe'
<1> USE DEF RemoteSafe
<1>0. peer[p].at \in {"open", "over"} /\ rcall[k].verb \in SignInVerbs
  BY CallOf
<1>1. CallsSound'
  <2> SUFFICES ASSUME NEW j \in RCalls
               PROVE  /\ rcall'[j].at # "idle" => rcall'[j].p \in Peers /\ peer'[rcall'[j].p].at \in {"open", "over"}
                                                  /\ rcall'[j].verb \in SignInVerbs
                      /\ rcall'[j].at \in {"claim", "undo", "register", "take"} =>
                           rcall'[j].s \in Sessions /\ session[rcall'[j].s].st # "none"
                      /\ rcall'[j].at \in {"claim", "take"} =>
                           rcall'[j].d = session[rcall'[j].s].dev /\ rcall'[j].d \in Devices
                      /\ rcall'[j].at = "read" \/ rcall'[j].old # NoPeer => rcall'[j].verb = "resume"
                      /\ rcall'[j].old # NoPeer => rcall'[j].old # rcall'[j].p
                      /\ rcall'[j].at = "register" =>
                           peer'[rcall'[j].p].sess = rcall'[j].s /\ peer'[rcall'[j].p].end = "none"
    BY DEF CallsSound, store
  <2>1. CASE j = k
    <3>1. CASE c = IdleCall
      BY <2>1, <3>1, IdleIs
    <3>2. CASE c # IdleCall
      BY <2>1, <3>2, <1>0 DEF CallsSound
    <3> QED
      BY <3>1, <3>2
  <2>2. CASE j # k
    <3>1. rcall'[j] = rcall[j] /\ (rcall[j].at # "idle" => rcall[j].p \in Peers)
      BY <2>2 DEF CallsSound
    <3>2. \A q \in Peers : peer'[q].at = peer[q].at
      OBVIOUS
    <3>3. ASSUME rcall[j].at = "register"
          PROVE peer'[rcall[j].p].sess = rcall[j].s /\ peer'[rcall[j].p].end = "none"
      <4>1. peer[rcall[j].p].sess = rcall[j].s /\ peer[rcall[j].p].end = "none" /\ rcall[j].s \in Sessions /\ rcall[j].p \in Peers
        BY <3>3 DEF CallsSound
      <4>2. CASE rcall[j].p # p
        BY <4>1, <4>2
      <4>3. CASE rcall[j].p = p
        <5>1. rcall[k].at # "register"
          BY <2>2, <3>3, <4>3 DEF OneRegisters
        <5>2. peer[p].sess # 0
          BY <4>1, <4>3 DEF Sessions
        <5> QED
          BY <4>1, <4>3, <5>1, <5>2
      <4> QED
        BY <4>2, <4>3
    <3> QED
      BY <3>1, <3>2, <3>3 DEF CallsSound
  <2> QED
    BY <2>1, <2>2
<1>2. OneRegisters'
  <2> SUFFICES ASSUME NEW i \in RCalls, NEW j \in RCalls, rcall'[i].at = "register", rcall'[j].at = "register",
                      rcall'[i].p = rcall'[j].p
               PROVE  i = j
    BY DEF OneRegisters
  <2>1. ASSUME NEW x \in RCalls, x # k, rcall'[x].at = "register", rcall'[x].p = p, c.at = "register" PROVE FALSE
    <3>1. rcall[x].at = "register" /\ rcall[x].p = p
      BY <2>1
    <3>2. peer[p].sess = rcall[x].s /\ rcall[x].s \in Sessions
      BY <3>1 DEF CallsSound
    <3> QED
      BY <2>1, <3>2 DEF Sessions
  <2>2. c.at = "register" => c.p = p
    BY IdleIs
  <2> QED
    BY <2>1, <2>2 DEF OneRegisters
<1>3. OneCallAtATime'
  <2> SUFFICES ASSUME NEW q \in Peers, peer'[q].at = "open", peer'[q].sess = 0, NEW j \in RCalls, rcall'[j].p = q, Works(j)'
               PROVE  /\ peer'[q].busy
                      /\ \A i \in RCalls : rcall'[i].p = q /\ Works(i)' => i = j
    BY DEF OneCallAtATime, Works
  <2>1. \A i \in RCalls : rcall'[i].p = q /\ Works(i)' => rcall[i].p = q /\ Works(i)
    BY IdleIs DEF Works
  <2>2. peer[q].at = "open" /\ peer[q].sess = 0
    <3>1. rcall[k].at = "claim" => rcall[k].s # 0
      BY DEF CallsSound, Sessions
    <3> QED
      BY <3>1
  <2>3. peer[q].busy /\ \A i \in RCalls : rcall[i].p = q /\ Works(i) => i = j
    BY <2>1, <2>2 DEF OneCallAtATime, Works
  <2>4. peer'[q].busy
    <3>1. CASE q # p
      BY <2>3, <3>1
    <3>2. CASE q = p
      <4>1. j = k
        BY <2>3, <3>2
      <4> QED
        BY <4>1, <3>2, <2>2, IdleIs DEF Works
    <3> QED
      BY <3>1, <3>2
  <2> QED
    BY <2>1, <2>3, <2>4
<1>4. PeersSound'
  <2> SUFFICES ASSUME NEW q \in Peers
               PROVE  /\ peer'[q].at \in {"none", "auth"} => peer'[q].sess = 0
                      /\ peer'[q].sess = 0 => peer'[q].end = "none" /\ ~peer'[q].enrolled
                      /\ peer'[q].sess # 0 => /\ session[peer'[q].sess].st # "none"
                                              /\ session[peer'[q].sess].dev = peer'[q].dev
                      /\ peer'[q].end \in {"run", "done"} => peer'[q].at = "over"
                      /\ peer'[q].at = "over" => peer'[q].end # "kept"
    BY DEF PeersSound, store
  <2>1. CASE q = p
    BY <2>1, <1>0
  <2>2. CASE q # p
    BY <2>2 DEF PeersSound
  <2> QED
    BY <2>1, <2>2
<1>5. AttachedHeld'
  <2> SUFFICES ASSUME NEW s \in Sessions, session[s].st = "live", session[s].conn # NoPeer
               PROVE  \/ session[s].conn \in unwritten
                      \/ peer'[session[s].conn].sess = s /\ peer'[session[s].conn].end \in {"kept", "run"}
                      \/ \E j \in RCalls : rcall'[j].p = session[s].conn /\ rcall'[j].s = s /\ rcall'[j].at \in Unfinished
    BY DEF AttachedHeld, Unfinished, store
  <2> DEFINE x == session[s].conn
  <2>1. x \in Peers
    BY DEF RemoteTyped, SessionRows
  <2>2. CASE x \in unwritten
    BY <2>2
  <2>3. CASE peer[x].sess = s /\ peer[x].end \in {"kept", "run"}
    <3>1. s # 0
      BY DEF Sessions
    <3> QED
      BY <2>1, <2>3, <3>1
  <2>4. ASSUME NEW j \in RCalls, rcall[j].p = x, rcall[j].s = s, rcall[j].at \in Unfinished
        PROVE  \/ peer'[x].sess = s /\ peer'[x].end \in {"kept", "run"}
               \/ \E i \in RCalls : rcall'[i].p = x /\ rcall'[i].s = s /\ rcall'[i].at \in Unfinished
    <3>1. CASE j # k
      BY <2>4, <3>1
    <3>2. CASE j = k /\ rcall[k].at = "register"
      BY <2>4, <3>2
    <3>3. CASE j = k /\ rcall[k].at # "register"
      <4>1. c # IdleCall /\ c.p = x /\ c.s = s
        BY <2>4, <3>3
      <4>2. c.at \in Unfinished
        BY <3>3, <4>1 DEF Unfinished
      <4> QED
        BY <4>1, <4>2
    <3> QED
      BY <3>1, <3>2, <3>3
  <2> QED
    BY <2>2, <2>3, <2>4 DEF AttachedHeld, Unfinished
<1>6. SessionsSound'
  BY DEF SessionsSound, LiveDevices, store
<1>7. ListenersSound'
  <2>1. ListenersSound /\ UNCHANGED control
    BY DEF others
  <2>2. \A q \in Peers : peer'[q].at = peer[q].at /\ peer'[q].gen = peer[q].gen /\ (peer[q].at = "open" /\ peer[q].hung => peer'[q].hung)
    OBVIOUS
  <2> QED
    BY <2>1, <2>2 DEF ListenersSound, OffLeavesNone
<1>8. RevocationReaches'
  <2> SUFFICES ASSUME NEW q \in Peers, peer[q].at = "open"
               PROVE  /\ peer'[q].sess # 0 /\ session[peer'[q].sess].st = "revoked" => Doomed(q)' \/ peer'[q].enrolled
                      /\ \A j \in RCalls : peer'[q].sess = 0 /\ rcall'[j].p = q /\ rcall'[j].pub = NoPub =>
                           /\ rcall'[j].at \in {"commit", "take", "claim"} => rcall'[j].d = peer'[q].dev
                           /\ rcall'[j].at \in {"take", "claim"} /\ session[rcall'[j].s].st = "revoked" => Doomed(q)'
    BY DEF RevocationReaches, store
  <2>1. CASE q # p
    <3>1. peer'[q] = peer[q] /\ (Doomed(q)' <=> Doomed(q))
      BY <2>1 DEF Doomed, Matches, others
    <3>2. \A j \in RCalls : rcall'[j].p = q /\ rcall'[j].at \in {"commit", "take", "claim"} => rcall'[j] = rcall[j]
      BY <2>1, IdleIs
    <3> QED
      BY <3>1, <3>2 DEF RevocationReaches
  <2>2. CASE q = p
    <3>1. ASSUME NEW j \in RCalls, peer'[p].sess = 0, rcall'[j].p = p, rcall'[j].at \in {"commit", "take", "claim"} PROVE FALSE
      <4>1. j # k
        BY <3>1, IdleIs
      <4>2. rcall[j].p = p /\ Works(j)
        BY <3>1, <4>1 DEF Works
      <4>3. rcall[k].at = "claim" => rcall[k].s # 0
        BY DEF CallsSound, Sessions
      <4>4. peer[p].sess = 0
        BY <3>1, <4>3
      <4> QED
        BY <2>2, <4>1, <4>2, <4>4 DEF OneCallAtATime, Works
    <3> QED
      BY <2>2, <3>1
  <2> QED
    BY <2>1, <2>2
<1> QED
  BY <1>1, <1>2, <1>3, <1>4, <1>5, <1>6, <1>7, <1>8

LEMMA AttestProvesKeeps ==
  ASSUME RemoteSafe, NEW k \in RCalls, AttestProves(k)
  PROVE  RemoteSafe'
<1> DEFINE p == rcall[k].p
<1>1. /\ RemoteTyped /\ rcall[k].at = "prove" /\ p \in Peers /\ rcall[k] \in SignInRecs /\ k \notin Busied
      /\ peer[p] \in ConnRecs /\ peer[p].at \in {"open", "over"} /\ rcall[k].verb \in SignInVerbs
  BY CallOf DEF RemoteSafe, AttestProves, Busied
<1> PICK q \in ConnRecs, o \in SignInRecs : q = peer[p] /\ o = rcall[k]
  BY <1>1
<1>2. UNCHANGED <<store, remoteHeld, others, unwritten, eventsLeft>> /\ remoteHeld' \in Int /\ eventsLeft' \in Int
  BY <1>1 DEF AttestProves, RemoteTyped
<1>3. CASE Returns(k, TRUE)
  <2>1. remoteHeld' = remoteHeld - (IF k \in Busied THEN 1 ELSE 0)
    BY <1>1, <1>2 DEF RemoteTyped
  <2> QED
    BY <1>1, <1>2, <1>3, <2>1, ReturnKeeps DEF Unfinished
<1>4. CASE /\ q.sess = 0
           /\ Set(p, [q EXCEPT !.dev = o.d, !.busy = FALSE, !.pend = IF o.d = 0 THEN o.pub ELSE NoPub])
           /\ rcall' = [rcall EXCEPT ![k] = IdleCall]
  <2> DEFINE pend == IF o.d = 0 THEN o.pub ELSE NoPub
             r == [q EXCEPT !.dev = o.d, !.busy = FALSE, !.pend = pend]
  <2>1. pend \in AllPubs /\ o.d \in 0..MaxDevice
    BY DEF SignInRecs, AllPubs
  <2> HIDE DEF pend
  <2>2. /\ r \in ConnRecs /\ r.at = q.at /\ r.gen = q.gen /\ r.end = q.end /\ r.sess = q.sess /\ r.enrolled = q.enrolled
        /\ (q.hung => r.hung) /\ (q.ending => r.ending) /\ (q.violated => r.violated)
    BY <2>1 DEF ConnRecs
  <2>3. Set(p, r)
    BY <1>4 DEF pend
  <2> HIDE DEF r
  <2>4. rcall' \in [RCalls -> SignInRecs] /\ rcall'[k] = IdleCall /\ \A j \in RCalls \ {k} : rcall'[j] = rcall[j]
    BY <1>1, <1>4, CallEdit, IdleIs
  <2>5. /\ peer' \in [Peers -> ConnRecs] /\ \A x \in Peers \ {p} : peer'[x] = peer[x]
        /\ peer'[p].at = q.at /\ peer'[p].gen = q.gen /\ peer'[p].end = q.end /\ peer'[p].sess = q.sess
        /\ peer'[p].enrolled = q.enrolled
    BY <1>1, <2>2, <2>3, SetIs
  <2>6. peer[p].at = "open" => /\ peer[p].hung => peer'[p].hung
                               /\ peer[p].ending => peer'[p].ending
                               /\ peer[p].violated => peer'[p].violated
    <3>1. q.at = "open" => peer'[p] = r
      BY <1>1, <2>2, <2>3, SetIs
    <3> QED
      BY <2>2, <3>1
  <2>7. RemoteTyped'
    BY <1>1, <1>2, <2>4, <2>5 DEF RemoteTyped, store, others
  <2>8. Busied' = Busied /\ Kept' = Kept
    <3>1. \A x \in Peers : peer'[x].end = peer[x].end
      BY <2>5
    <3> QED
      BY <1>1, <2>4, <3>1, CallRests DEF Kept
  <2>9. AdmissionBalanced'
    BY <1>2, <2>8, CountsMove DEF RemoteSafe, RemoteTyped
  <2>10. q.end = "none" /\ ~q.enrolled /\ Works(k)
    BY <1>1, <1>4 DEF RemoteSafe, PeersSound, Works
  <2>11. IdleCall \in SignInRecs /\ IdleCall.at = "idle"
    BY IdleIs
  <2>12. UNCHANGED <<store, others, unwritten>> /\ rcall[k].at \notin Unfinished
    BY <1>1, <1>2 DEF Unfinished
  <2> QED
    BY <1>1, <1>4, <2>4, <2>5, <2>6, <2>7, <2>9, <2>10, <2>11, <2>12, PeerKeeps
<1> QED
  BY <1>3, <1>4 DEF AttestProves

LEMMA SignInClaimsKeeps ==
  ASSUME RemoteSafe, NEW k \in RCalls, SignInClaims(k)
  PROVE  RemoteSafe'
<1>p. rcall[k].p \in Peers
  BY CallOf DEF SignInClaims
<1> PICK p \in Peers : p = rcall[k].p
  BY <1>p
<1>1. /\ RemoteTyped /\ rcall[k].at = "claim" /\ p \in Peers /\ rcall[k] \in SignInRecs /\ k \in Busied
      /\ peer[p] \in ConnRecs /\ peer[p].at \in {"open", "over"} /\ rcall[k].verb \in SignInVerbs
  BY CallOf DEF RemoteSafe, SignInClaims, Busied
<1> PICK q \in ConnRecs, o \in SignInRecs : q = peer[p] /\ o = rcall[k]
  BY <1>1
<1>2. UNCHANGED <<store, remoteHeld, others, unwritten, eventsLeft>> /\ remoteHeld' \in Int /\ eventsLeft' \in Int
      /\ Works(k)
  BY <1>1 DEF SignInClaims, RemoteTyped, Works
<1>3. ASSUME NEW at \in {"undo", "register"}, At(k, at), peer' \in [Peers -> ConnRecs],
             \A x \in Peers : peer'[x].end = peer[x].end
      PROVE  /\ rcall' \in [RCalls -> SignInRecs] /\ rcall'[k] = [o EXCEPT !.at = at]
             /\ \A j \in RCalls \ {k} : rcall'[j] = rcall[j]
             /\ RemoteTyped' /\ AdmissionBalanced'
  <2>1. [o EXCEPT !.at = at] \in SignInRecs /\ [o EXCEPT !.at = at].at = at
    BY DEF SignInRecs, CallStages
  <2>2. rcall' = [rcall EXCEPT ![k] = [o EXCEPT !.at = at]]
    BY <1>1, <1>3 DEF RemoteTyped, At
  <2>3. /\ rcall' \in [RCalls -> SignInRecs] /\ rcall'[k] = [o EXCEPT !.at = at]
        /\ \A j \in RCalls \ {k} : rcall'[j] = rcall[j]
    BY <1>1, <2>1, <2>2, CallEdit
  <2>4. RemoteTyped'
    BY <1>1, <1>2, <1>3, <2>3 DEF RemoteTyped, store, others
  <2>5. Kept' = Kept
    BY <1>3 DEF Kept
  <2>6. Busied' = Busied
    BY <1>1, <2>1, <2>3 DEF Busied
  <2>7. AdmissionBalanced'
    BY <1>2, <2>5, <2>6, CountsMove DEF RemoteSafe, RemoteTyped
  <2> QED
    BY <2>3, <2>4, <2>7
<1>4. CASE q.sess # 0 /\ At(k, "undo") /\ UNCHANGED peer
  <2> DEFINE c == [o EXCEPT !.at = "undo"]
  <2>1. rcall'[k] = c /\ (\A j \in RCalls \ {k} : rcall'[j] = rcall[j]) /\ RemoteTyped' /\ AdmissionBalanced'
    BY <1>1, <1>3, <1>4 DEF RemoteTyped
  <2>2. /\ c \in SignInRecs /\ c.at = "undo" /\ c.p = p /\ c.verb = o.verb /\ c.old = o.old /\ c.s = o.s
    BY DEF SignInRecs, CallStages
  <2> HIDE DEF c
  <2>0. c # IdleCall
    BY <2>2, IdleIs
  <2>3. /\ session[q.sess].st # "none" /\ session[q.sess].dev = q.dev
        /\ q.end \in {"run", "done"} => q.at = "over"
        /\ q.at = "over" => q.end # "kept"
    BY <1>4, <1>1 DEF RemoteSafe, PeersSound
  <2>4. q.at = "open" /\ session[q.sess].st = "revoked" => Doomed(p)' \/ q.enrolled
    <3>1. Doomed(p)' <=> Doomed(p)
      BY <1>2, <1>4 DEF Doomed, Matches, others
    <3> QED
      BY <1>1, <1>4, <3>1 DEF RemoteSafe, RevocationReaches
  <2>5. UNCHANGED <<store, others, unwritten>> /\ rcall[k].at # "idle" /\ rcall[k].at # "register"
    BY <1>1, <1>2
  <2>6. c.at # "close" /\ c.at # "register" /\ c.at \in {"undo", "register", "close"}
    BY <2>2
  <2> QED
    BY <1>1, <1>2, <1>4, <2>0, <2>1, <2>2, <2>3, <2>4, <2>5, <2>6, PeerKeeps
<1>5. CASE /\ q.sess = 0 /\ At(k, "register")
           /\ Set(p, [q EXCEPT !.sess = o.s, !.dev = o.d, !.pend = NoPub, !.enrolled = o.pub # NoPub])
  <2> DEFINE r == [q EXCEPT !.sess = o.s, !.dev = o.d, !.pend = NoPub, !.enrolled = o.pub # NoPub]
             c == [o EXCEPT !.at = "register"]
  <2>1. o.s \in Sessions /\ session[o.s].st # "none" /\ o.d = session[o.s].dev /\ o.s # 0
    BY <1>1 DEF RemoteSafe, CallsSound, Sessions
  <2>2. /\ r \in ConnRecs /\ r.at = q.at /\ r.gen = q.gen /\ r.end = q.end /\ r.sess = o.s /\ r.dev = o.d
        /\ r.enrolled = (o.pub # NoPub) /\ r.hung = q.hung /\ r.ending = q.ending /\ r.violated = q.violated
    <3> PICK s \in 0..MaxSession, d \in 0..MaxDevice, b \in BOOLEAN : s = o.s /\ d = o.d /\ b = (o.pub # NoPub)
      BY DEF SignInRecs
    <3> PICK none \in AllPubs : none = NoPub
      BY DEF AllPubs
    <3>1. r = [q EXCEPT !.sess = s, !.dev = d, !.pend = none, !.enrolled = b]
      OBVIOUS
    <3> HIDE DEF r
    <3>2. /\ r \in ConnRecs /\ r.at = q.at /\ r.gen = q.gen /\ r.end = q.end /\ r.sess = s /\ r.dev = d
          /\ r.enrolled = b /\ r.hung = q.hung /\ r.ending = q.ending /\ r.violated = q.violated
      BY <3>1 DEF ConnRecs
    <3> QED
      BY <3>2
  <2>r. Set(p, r)
    BY <1>5
  <2> HIDE DEF r
  <2>s. /\ peer' \in [Peers -> ConnRecs] /\ \A x \in Peers \ {p} : peer'[x] = peer[x]
        /\ peer'[p].at = r.at /\ peer'[p].gen = r.gen /\ peer'[p].end = r.end /\ peer'[p].sess = r.sess
        /\ peer'[p].dev = r.dev /\ peer'[p].enrolled = r.enrolled
        /\ r.at # "over" => peer'[p] = r
    BY <1>1, <2>2, <2>r, SetIs
  <2>3. /\ peer' \in [Peers -> ConnRecs] /\ \A x \in Peers \ {p} : peer'[x] = peer[x]
        /\ peer'[p].at = q.at /\ peer'[p].gen = q.gen /\ peer'[p].end = q.end /\ peer'[p].sess = o.s
        /\ peer'[p].dev = o.d /\ peer'[p].enrolled = (o.pub # NoPub)
        /\ q.at # "over" => peer'[p] = r
    BY <2>2, <2>s
  <2>4. \A x \in Peers : peer'[x].end = peer[x].end
    BY <2>3
  <2>5. rcall'[k] = c /\ (\A j \in RCalls \ {k} : rcall'[j] = rcall[j]) /\ RemoteTyped' /\ AdmissionBalanced'
    BY <1>3, <1>5, <2>3, <2>4
  <2>6. /\ c \in SignInRecs /\ c.at = "register" /\ c.p = p /\ c.verb = o.verb /\ c.old = o.old /\ c.s = o.s
    BY DEF SignInRecs, CallStages
  <2> HIDE DEF c
  <2>0. c # IdleCall
    BY <2>6, IdleIs
  <2>7. q.end = "none"
    BY <1>1, <1>5 DEF RemoteSafe, PeersSound
  <2>8. q.at = "open" => /\ q.hung => peer'[p].hung
                         /\ q.ending => peer'[p].ending
                         /\ q.violated => peer'[p].violated
    BY <2>2, <2>3
  <2>9. q.at = "open" /\ session[o.s].st = "revoked" => Doomed(p)' \/ peer'[p].enrolled
    <3> SUFFICES ASSUME q.at = "open", session[o.s].st = "revoked", o.pub = NoPub PROVE Doomed(p)'
      BY <2>3
    <3>1. Doomed(p) /\ o.d = q.dev
      BY <1>1, <1>5 DEF RemoteSafe, RevocationReaches
    <3>2. UNCHANGED operator /\ peer'[p].dev = peer[p].dev /\ peer'[p].at = peer[p].at
      BY <1>2, <2>3, <3>1 DEF others
    <3> QED
      BY <2>8, <3>1, <3>2 DEF Doomed, Matches
  <2>10. UNCHANGED <<store, others, unwritten>> /\ rcall[k].at # "idle" /\ rcall[k].at # "register"
    BY <1>1, <1>2
  <2>11. c.at # "close" /\ c.at \in {"undo", "register", "close"}
    BY <2>6
  <2>12. peer[p].sess = 0 /\ peer[p].at = q.at /\ peer[p].gen = q.gen /\ rcall[k].s = o.s /\ rcall[k].at = "claim"
         /\ p \in Peers /\ peer[p].end = "none" /\ peer'[p].end = "none" /\ peer'[p].sess # 0
         /\ session[peer'[p].sess].st # "none" /\ session[peer'[p].sess].dev = peer'[p].dev
    BY <1>1, <1>5, <2>1, <2>3, <2>7
  <2> QED
    BY <1>2, <2>0, <2>3, <2>5, <2>6, <2>8, <2>9, <2>10, <2>11, <2>12, PeerKeeps
<1> QED
  BY <1>4, <1>5 DEF SignInClaims

LEMMA OnEndKeeps ==
  ASSUME RemoteSafe, NEW k \in RCalls, OnEnd(k)
  PROVE  RemoteSafe'
<1>p. rcall[k].p \in Peers
  BY CallOf DEF OnEnd
<1> PICK p \in Peers : p = rcall[k].p
  BY <1>p
<1>1. /\ RemoteTyped /\ rcall[k].at = "register" /\ p \in Peers /\ rcall[k] \in SignInRecs /\ k \in Busied
      /\ peer[p] \in ConnRecs /\ peer[p].at \in {"open", "over"} /\ rcall[k].verb \in SignInVerbs
  BY CallOf DEF RemoteSafe, OnEnd, Busied
<1> PICK q \in ConnRecs, o \in SignInRecs : q = peer[p] /\ o = rcall[k]
  BY <1>1
<1>2. UNCHANGED <<store, remoteHeld, others, unwritten, eventsLeft>> /\ remoteHeld' \in Int /\ eventsLeft' \in Int
      /\ Works(k)
  BY <1>1 DEF OnEnd, RemoteTyped, Works
<1> DEFINE e == IF q.at = "over" THEN "run" ELSE "kept"
           r == [q EXCEPT !.end = e]
           c == [o EXCEPT !.at = "close"]
<1>3. Set(p, r) /\ At(k, "close")
  BY DEF OnEnd
<1>4. q.sess = o.s /\ q.end = "none" /\ o.s \in Sessions /\ session[o.s].st # "none" /\ o.s # 0
      /\ session[o.s].dev = q.dev
  BY <1>1 DEF RemoteSafe, CallsSound, PeersSound, Sessions
<1>5. /\ r \in ConnRecs /\ r.at = q.at /\ r.gen = q.gen /\ r.end = e /\ r.sess = q.sess /\ r.dev = q.dev
      /\ r.enrolled = q.enrolled /\ r.hung = q.hung /\ r.ending = q.ending /\ r.violated = q.violated
  BY DEF ConnRecs
<1> HIDE DEF r
<1>6. /\ peer' \in [Peers -> ConnRecs] /\ \A x \in Peers \ {p} : peer'[x] = peer[x]
      /\ peer'[p].at = q.at /\ peer'[p].gen = q.gen /\ peer'[p].end = e /\ peer'[p].sess = q.sess
      /\ peer'[p].dev = q.dev /\ peer'[p].enrolled = q.enrolled
      /\ q.at # "over" => peer'[p] = r
  BY <1>1, <1>3, <1>5, SetIs
<1>7. /\ c \in SignInRecs /\ c.at = "close" /\ c.p = p /\ c.verb = o.verb /\ c.old = o.old /\ c.s = o.s
  BY DEF SignInRecs, CallStages
<1>8. rcall' = [rcall EXCEPT ![k] = c]
  BY <1>1, <1>3 DEF RemoteTyped, At
<1> HIDE DEF c
<1>0. c # IdleCall
  BY <1>7, IdleIs
<1>9. rcall' \in [RCalls -> SignInRecs] /\ rcall'[k] = c /\ \A j \in RCalls \ {k} : rcall'[j] = rcall[j]
  BY <1>1, <1>7, <1>8, CallEdit
<1>10. RemoteTyped'
  BY <1>1, <1>2, <1>6, <1>9 DEF RemoteTyped, store, others
<1>11. Busied' = Busied \ {k}
  BY <1>7, <1>9 DEF Busied
<1>12. p \notin Kept /\ Kept' = Kept \union {p}
  BY <1>1, <1>4, <1>6 DEF Kept
<1>13. AdmissionBalanced'
  BY <1>1, <1>2, <1>11, <1>12, CountsMove DEF RemoteSafe, RemoteTyped
<1>14. q.at = "open" => /\ q.hung => peer'[p].hung
                        /\ q.ending => peer'[p].ending
                        /\ q.violated => peer'[p].violated
  BY <1>5, <1>6
<1>15. q.at = "open" /\ session[o.s].st = "revoked" => Doomed(p)' \/ peer'[p].enrolled
  <2> SUFFICES ASSUME q.at = "open", session[o.s].st = "revoked", ~q.enrolled PROVE Doomed(p)'
    BY <1>6
  <2>1. Doomed(p)
    BY <1>1, <1>4 DEF RemoteSafe, RevocationReaches
  <2>2. UNCHANGED operator /\ peer'[p].dev = peer[p].dev /\ peer'[p].at = peer[p].at
    BY <1>2, <1>6 DEF others
  <2> QED
    BY <1>14, <2>1, <2>2 DEF Doomed, Matches
<1>16. UNCHANGED <<store, others, unwritten>> /\ rcall[k].at # "idle" /\ rcall[k].at = "register" /\ rcall[k].s = o.s
       /\ rcall[k].verb = o.verb /\ rcall[k].old = o.old /\ rcall[k].p = p /\ p \in Peers
       /\ peer[p].at = q.at /\ peer[p].gen = q.gen /\ peer[p].sess = o.s /\ peer[p].end = "none"
  BY <1>1, <1>2, <1>4
<1>17. c.at # "register" /\ c.at \in {"undo", "register", "close"}
  BY <1>7
<1>18. /\ peer'[p].end \in {"kept", "run"} /\ peer'[p].sess = o.s /\ peer'[p].sess # 0
       /\ session[peer'[p].sess].st # "none" /\ session[peer'[p].sess].dev = peer'[p].dev
       /\ peer'[p].end \in {"run", "done"} => peer[p].at = "over"
       /\ peer[p].at = "over" => peer'[p].end # "kept"
  BY <1>4, <1>6, <1>16
<1> HIDE DEF e
<1>19. /\ peer'[p].at = peer[p].at /\ peer'[p].gen = peer[p].gen
       /\ peer[p].at = "open" => /\ peer[p].hung => peer'[p].hung
                                 /\ peer[p].ending => peer'[p].ending
                                 /\ peer[p].violated => peer'[p].violated
  BY <1>6, <1>14, <1>16
<1>20. /\ c.at \in {"undo", "register", "close"} /\ c.verb = rcall[k].verb /\ c.old = rcall[k].old
       /\ c.s = rcall[k].s /\ c.at = "close" /\ c.p = p
       /\ c \in SignInRecs /\ c # IdleCall
  BY <1>0, <1>7, <1>16
<1>21. peer'[p].sess = peer[p].sess /\ peer'[p].sess = rcall[k].s /\ rcall[k].at = "register"
  BY <1>16, <1>18
<1>22. peer[p].at = "open" /\ peer'[p].sess # 0 /\ session[peer'[p].sess].st = "revoked" => Doomed(p)' \/ peer'[p].enrolled
  BY <1>15, <1>16, <1>18
<1>23. /\ Works(k) /\ rcall[k].p = p /\ rcall'[k] = c /\ \A j \in RCalls \ {k} : rcall'[j] = rcall[j]
       /\ \A x \in Peers \ {p} : peer'[x] = peer[x]
       /\ UNCHANGED <<store, others, unwritten>>
  BY <1>2, <1>6, <1>9, <1>16
<1> QED
  BY <1>10, <1>13, <1>18, <1>19, <1>20, <1>21, <1>22, <1>23, PeerKeeps

\* A connection comes in, is registered or ends.
LEMMA LinkKeeps ==
  ASSUME RemoteSafe, NEW p \in Peers, NEW r \in ConnRecs, Set(p, r),
         r.dev = peer[p].dev, r.sess = peer[p].sess, r.enrolled = peer[p].enrolled,
         \/ peer[p].at \in {"none", "auth"} /\ r.at \in {"auth", "open", "over"} /\ r.end = peer[p].end
         \/ peer[p].at = "open" /\ r.at = "over" /\ r.end = IF peer[p].end = "kept" THEN "run" ELSE peer[p].end,
         r.at = "auth" => r.gen = control.listener,
         r.at = "open" => peer[p].at = "auth" /\ peer[p].gen \notin control.closed,
         UNCHANGED <<rcall, store, remoteHeld, others, unwritten, eventsLeft>>
  PROVE  RemoteSafe'
<1> USE DEF RemoteSafe
<1>1. /\ peer' \in [Peers -> ConnRecs] /\ \A x \in Peers \ {p} : peer'[x] = peer[x]
      /\ peer'[p].at = r.at /\ peer'[p].gen = r.gen /\ peer'[p].end = r.end /\ peer'[p].sess = r.sess
      /\ peer'[p].dev = r.dev /\ peer'[p].enrolled = r.enrolled
  BY SetIs
<1>2. RemoteTyped'
  BY <1>1 DEF RemoteTyped, store, others
<1>3. peer[p].at # "open" => /\ \A k \in RCalls : rcall[k].p = p => rcall[k].at = "idle"
                             /\ peer[p].sess = 0 /\ peer[p].end = "none"
  <2> SUFFICES ASSUME peer[p].at \in {"none", "auth"}
               PROVE  /\ \A k \in RCalls : rcall[k].p = p => rcall[k].at = "idle"
                      /\ peer[p].sess = 0 /\ peer[p].end = "none"
    OBVIOUS
  <2>1. peer[p].sess = 0 /\ peer[p].end = "none"
    BY DEF PeersSound
  <2>2. \A k \in RCalls : rcall[k].p = p => rcall[k].at = "idle"
    BY CallOf
  <2> QED
    BY <2>1, <2>2
<1>4. \A x \in Peers : peer'[x].sess = peer[x].sess /\ peer'[x].dev = peer[x].dev
  BY <1>1
<1>5. CallsSound'
  <2>1. UNCHANGED <<rcall, session>>
    BY DEF store
  <2> SUFFICES ASSUME NEW k \in RCalls, rcall[k].at # "idle"
               PROVE  /\ peer'[rcall[k].p].at \in {"open", "over"}
                      /\ rcall[k].at = "register" => /\ peer'[rcall[k].p].sess = rcall[k].s
                                                     /\ peer'[rcall[k].p].end = "none"
    BY <2>1, IdleIs DEF CallsSound
  <2>2. rcall[k].p \in Peers /\ peer[rcall[k].p].at \in {"open", "over"}
    BY CallOf
  <2>3. rcall[k].at = "register" => peer[rcall[k].p].sess = rcall[k].s /\ peer[rcall[k].p].end = "none"
    BY DEF CallsSound
  <2> QED
    BY <1>1, <1>3, <1>4, <2>2, <2>3
<1>6. OneRegisters'
  BY DEF OneRegisters
<1>7. OneCallAtATime'
  <2> SUFFICES ASSUME NEW q \in Peers, peer'[q].at = "open", peer'[q].sess = 0
               PROVE  /\ \A k \in RCalls : rcall[k].p = q /\ rcall[k].at \notin {"idle", "gate"} => peer'[q].busy
                      /\ \A j, k \in RCalls : rcall[j].p = q /\ rcall[j].at \notin {"idle", "gate"}
                            /\ rcall[k].p = q /\ rcall[k].at \notin {"idle", "gate"} => j = k
    BY DEF OneCallAtATime
  <2>1. CASE q = p
    BY <1>1, <1>3, <2>1
  <2>2. CASE q # p
    BY <1>1, <2>2 DEF OneCallAtATime
  <2> QED
    BY <2>1, <2>2
<1>8. PeersSound'
  <2> SUFFICES ASSUME NEW q \in Peers
               PROVE  /\ peer'[q].at \in {"none", "auth"} => peer'[q].sess = 0
                      /\ peer'[q].sess = 0 => peer'[q].end = "none" /\ ~peer'[q].enrolled
                      /\ peer'[q].sess # 0 => /\ session[peer'[q].sess].st # "none"
                                              /\ session[peer'[q].sess].dev = peer'[q].dev
                      /\ peer'[q].end \in {"run", "done"} => peer'[q].at = "over"
                      /\ peer'[q].at = "over" => peer'[q].end # "kept"
    BY DEF PeersSound, store
  <2>1. /\ peer[q].sess = 0 => peer[q].end = "none" /\ ~peer[q].enrolled
        /\ peer[q].sess # 0 => session[peer[q].sess].st # "none" /\ session[peer[q].sess].dev = peer[q].dev
        /\ peer[q].end \in {"run", "done"} => peer[q].at = "over"
        /\ peer[q].at = "over" => peer[q].end # "kept"
        /\ peer[q].at \in {"none", "auth"} => peer[q].sess = 0
    BY DEF PeersSound
  <2>2. CASE q = p
    BY <1>1, <1>3, <2>1, <2>2
  <2>3. CASE q # p
    BY <1>1, <2>1, <2>3
  <2> QED
    BY <2>2, <2>3
<1>9. AdmissionBalanced'
  <2>1. Busied' = Busied
    BY DEF Busied
  <2>2. Kept' = Kept
    BY <1>1, <1>3 DEF Kept
  <2> QED
    BY <2>1, <2>2, CountsMove DEF RemoteTyped
<1>10. AttachedHeld'
  <2>1. \A x \in Peers : peer[x].end \in {"kept", "run"} => peer'[x].end \in {"kept", "run"}
    BY <1>1, <1>3
  <2> SUFFICES ASSUME NEW s \in Sessions, session[s].st = "live", session[s].conn # NoPeer
               PROVE  \/ session[s].conn \in unwritten
                      \/ peer'[session[s].conn].sess = s /\ peer'[session[s].conn].end \in {"kept", "run"}
                      \/ \E k \in RCalls : rcall[k].p = session[s].conn /\ rcall[k].s = s /\ rcall[k].at \in {"claim", "undo", "register"}
    BY DEF AttachedHeld, store
  <2>2. session[s].conn \in Peers
    BY DEF RemoteTyped, SessionRows
  <2> QED
    BY <1>4, <2>1, <2>2 DEF AttachedHeld
<1>11. SessionsSound'
  BY DEF SessionsSound, LiveDevices, store
<1>12. ListenersSound'
  <2>1. ListenersSound /\ UNCHANGED control
    BY DEF others
  <2>2. ASSUME NEW q \in Peers PROVE /\ peer'[q].at = "auth" => peer'[q].gen \in control.closed \union {control.listener}
                                     /\ control.at = "off" /\ peer'[q].at = "open" => peer'[q].hung
    <3>1. CASE q = p
      BY <1>1, <2>1, <3>1 DEF ListenersSound, OffLeavesNone
    <3>2. CASE q # p
      BY <1>1, <2>1, <3>2 DEF ListenersSound, OffLeavesNone
    <3> QED
      BY <3>1, <3>2
  <2> QED
    BY <2>1, <2>2 DEF ListenersSound, OffLeavesNone
<1>13. RevocationReaches'
  <2> SUFFICES ASSUME NEW q \in Peers, peer'[q].at = "open"
               PROVE  /\ peer'[q].sess # 0 /\ session[peer'[q].sess].st = "revoked" => Doomed(q)' \/ peer'[q].enrolled
                      /\ \A k \in RCalls : peer'[q].sess = 0 /\ rcall[k].p = q /\ rcall[k].pub = NoPub =>
                           /\ rcall[k].at \in {"commit", "take", "claim"} => rcall[k].d = peer'[q].dev
                           /\ rcall[k].at \in {"take", "claim"} /\ session[rcall[k].s].st = "revoked" => Doomed(q)'
    BY DEF RevocationReaches, store
  <2>1. CASE q = p
    <3>1. peer[p].at # "open"
      BY <1>1, <2>1
    <3> QED
      BY <1>3, <1>4, <2>1, <3>1
  <2>2. CASE q # p
    <3>1. peer'[q] = peer[q] /\ (Doomed(q)' <=> Doomed(q))
      BY <1>1, <2>2 DEF Doomed, Matches, others
    <3> QED
      BY <3>1 DEF RevocationReaches
  <2> QED
    BY <2>1, <2>2
<1> QED
  BY <1>2, <1>5, <1>6, <1>7, <1>8, <1>9, <1>10, <1>11, <1>12, <1>13

LEMMA HandshakeKeeps ==
  ASSUME RemoteSafe, NEW p \in Peers, Handshake(p)
  PROVE  RemoteSafe'
<1>1. RemoteTyped /\ peer[p] \in ConnRecs /\ peer[p].at = "none" /\ control.listener \in Nat
  BY DEF RemoteSafe, RemoteTyped, Handshake, SwitchRecs
<1> PICK q \in ConnRecs : q = peer[p]
  BY <1>1
<1> DEFINE at == IF sshKey /\ account THEN "auth" ELSE "over"
           r == [q EXCEPT !.at = at, !.gen = control.listener]
<1>2. at \in {"auth", "over"}
  OBVIOUS
<1>3. Set(p, r) /\ UNCHANGED <<rcall, store, remoteHeld, others, unwritten, eventsLeft>>
  BY DEF Handshake
<1> HIDE DEF at
<1>4. /\ r \in ConnRecs /\ r.at = at /\ r.gen = control.listener /\ r.end = q.end /\ r.sess = q.sess /\ r.dev = q.dev
      /\ r.enrolled = q.enrolled
  BY <1>1, <1>2 DEF ConnRecs
<1> HIDE DEF r
<1> QED
  BY <1>1, <1>2, <1>3, <1>4, LinkKeeps

LEMMA RegisterKeeps ==
  ASSUME RemoteSafe, NEW p \in Peers, Register(p)
  PROVE  RemoteSafe'
<1>1. peer[p] \in ConnRecs /\ peer[p].at = "auth"
  BY DEF RemoteSafe, RemoteTyped, Register
<1> PICK q \in ConnRecs : q = peer[p]
  BY <1>1
<1> DEFINE at == IF q.gen \in control.closed THEN "over" ELSE "open"
           r == [q EXCEPT !.at = at]
<1>2. at \in {"open", "over"} /\ (at = "open" => q.gen \notin control.closed)
  OBVIOUS
<1>3. Set(p, r) /\ UNCHANGED <<rcall, store, remoteHeld, others, unwritten, eventsLeft>>
  BY DEF Register
<1> HIDE DEF at
<1>4. /\ r \in ConnRecs /\ r.at = at /\ r.end = q.end /\ r.sess = q.sess /\ r.dev = q.dev
      /\ r.enrolled = q.enrolled
  BY <1>1, <1>2 DEF ConnRecs
<1> HIDE DEF r
<1> QED
  BY <1>1, <1>2, <1>3, <1>4, LinkKeeps

LEMMA PeerEndedKeeps ==
  ASSUME RemoteSafe, NEW p \in Peers, PeerEnded(p)
  PROVE  RemoteSafe'
<1>1. peer[p] \in ConnRecs /\ peer[p].at = "open"
  BY DEF RemoteSafe, RemoteTyped, PeerEnded
<1> PICK q \in ConnRecs : q = peer[p]
  BY <1>1
<1> DEFINE e == IF q.end = "kept" THEN "run" ELSE q.end
           r == [q EXCEPT !.at = "over", !.end = e]
<1>2. e \in {"none", "kept", "run", "done"}
  BY DEF ConnRecs
<1>3. Set(p, r) /\ UNCHANGED <<rcall, store, remoteHeld, others, unwritten, eventsLeft>>
  BY DEF PeerEnded
<1>4. e = IF peer[p].end = "kept" THEN "run" ELSE peer[p].end
  OBVIOUS
<1> HIDE DEF e
<1>5. /\ r \in ConnRecs /\ r.at = "over" /\ r.end = e /\ r.sess = q.sess /\ r.dev = q.dev
      /\ r.enrolled = q.enrolled
  BY <1>1, <1>2 DEF ConnRecs
<1> HIDE DEF r
<1> QED
  BY <1>1, <1>3, <1>4, <1>5, LinkKeeps

\* An act of the operator, or of a signed-in connection, beside every sign-in: who is attached
\* stays attached, and whose session is revoked is doomed.
LEMMA ActsKeep ==
  ASSUME RemoteSafe, RemoteTyped', SessionsSound', ListenersSound',
         UNCHANGED <<rcall, remoteHeld, unwritten>>,
         \A q \in Peers : Calm(peer[q], peer'[q]) /\ peer'[q].busy = peer[q].busy,
         \A q \in Peers : peer[q].at = "open" /\ Doomed(q) => Doomed(q)',
         \A s \in Sessions : /\ session[s].st # "none" => session'[s].st # "none"
                             /\ session'[s].dev = session[s].dev /\ session'[s].conn = session[s].conn
                             /\ session'[s].st = "live" => session[s].st = "live"
                             /\ session'[s].st = "revoked" =>
                                  \/ session[s].st = "revoked"
                                  \/ \A q \in Peers : peer[q].at = "open" /\ peer[q].dev = session[s].dev => Doomed(q)'
  PROVE  RemoteSafe'
<1> USE DEF RemoteSafe
<1>1. \A q \in Peers : /\ peer'[q].at = peer[q].at /\ peer'[q].end = peer[q].end /\ peer'[q].dev = peer[q].dev
                       /\ peer'[q].sess = peer[q].sess /\ peer'[q].enrolled = peer[q].enrolled
  BY DEF Calm
<1>2. CallsSound'
  <2> SUFFICES ASSUME NEW k \in RCalls
               PROVE  /\ rcall[k].at # "idle" => rcall[k].p \in Peers /\ peer'[rcall[k].p].at \in {"open", "over"}
                                                 /\ rcall[k].verb \in SignInVerbs
                      /\ rcall[k].at \in {"claim", "undo", "register", "take"} =>
                           rcall[k].s \in Sessions /\ session'[rcall[k].s].st # "none"
                      /\ rcall[k].at \in {"claim", "take"} =>
                           rcall[k].d = session'[rcall[k].s].dev /\ rcall[k].d \in Devices
                      /\ rcall[k].at = "read" \/ rcall[k].old # NoPeer => rcall[k].verb = "resume"
                      /\ rcall[k].old # NoPeer => rcall[k].old # rcall[k].p
                      /\ rcall[k].at = "register" =>
                           peer'[rcall[k].p].sess = rcall[k].s /\ peer'[rcall[k].p].end = "none"
    BY DEF CallsSound
  <2> QED
    BY <1>1 DEF CallsSound
<1>3. OneRegisters' /\ OneCallAtATime'
  BY <1>1 DEF OneRegisters, OneCallAtATime
<1>4. PeersSound'
  <2>1. \A q \in Peers : peer[q].sess # 0 => peer[q].sess \in Sessions
    BY DEF RemoteTyped, ConnRecs, Sessions
  <2> QED
    BY <1>1, <2>1 DEF PeersSound
<1>5. AdmissionBalanced'
  <2>1. Busied' = Busied /\ Kept' = Kept
    BY <1>1 DEF Busied, Kept
  <2> QED
    BY <2>1, CountsMove DEF RemoteTyped
<1>6. AttachedHeld'
  <2> SUFFICES ASSUME NEW s \in Sessions, session[s].st = "live", session[s].conn # NoPeer
               PROVE  \/ session[s].conn \in unwritten
                      \/ peer'[session[s].conn].sess = s /\ peer'[session[s].conn].end \in {"kept", "run"}
                      \/ \E k \in RCalls : rcall[k].p = session[s].conn /\ rcall[k].s = s /\ rcall[k].at \in {"claim", "undo", "register"}
    BY DEF AttachedHeld
  <2>1. session[s].conn \in Peers
    BY DEF RemoteTyped, SessionRows
  <2> QED
    BY <1>1, <2>1 DEF AttachedHeld
<1>7. RevocationReaches'
  <2> SUFFICES ASSUME NEW p \in Peers, peer[p].at = "open"
               PROVE  /\ peer[p].sess # 0 /\ session'[peer[p].sess].st = "revoked" => Doomed(p)' \/ peer[p].enrolled
                      /\ \A k \in RCalls : peer[p].sess = 0 /\ rcall[k].p = p /\ rcall[k].pub = NoPub =>
                           /\ rcall[k].at \in {"commit", "take", "claim"} => rcall[k].d = peer[p].dev
                           /\ rcall[k].at \in {"take", "claim"} /\ session'[rcall[k].s].st = "revoked" => Doomed(p)'
    BY <1>1 DEF RevocationReaches
  <2>1. peer[p].sess # 0 => peer[p].sess \in Sessions /\ session[peer[p].sess].dev = peer[p].dev
    BY DEF RemoteTyped, ConnRecs, Sessions, PeersSound
  <2>2. ASSUME NEW k \in RCalls, peer[p].sess = 0, rcall[k].p = p, rcall[k].pub = NoPub, rcall[k].at \in {"take", "claim"}
        PROVE  rcall[k].s \in Sessions /\ session[rcall[k].s].dev = peer[p].dev
    BY <2>2 DEF CallsSound, RevocationReaches
  <2> QED
    BY <2>1, <2>2 DEF RevocationReaches
<1> QED
  BY <1>2, <1>3, <1>4, <1>5, <1>6, <1>7

\* Nobody is less doomed for what is said of others.
LEMMA DoomStays ==
  ASSUME \A q \in Peers : Calm(peer[q], peer'[q]), operator' = operator \/ operator = Quiet
  PROVE  \A q \in Peers : peer[q].at = "open" /\ Doomed(q) => Doomed(q)'
  BY DEF Doomed, Matches, Calm

LEMMA RevokedIs ==
  ASSUME RemoteTyped, NEW ds
  PROVE  /\ RevokedBy(ds) \in [Sessions -> SessionRows]
         /\ \A s \in Sessions :
              /\ RevokedBy(ds)[s].dev = session[s].dev /\ RevokedBy(ds)[s].conn = session[s].conn
              /\ RevokedBy(ds)[s].st = IF session[s].st = "live" /\ session[s].dev \in ds THEN "revoked" ELSE session[s].st
<1>1. ASSUME NEW s \in Sessions
      PROVE  /\ RevokedBy(ds)[s] \in SessionRows
             /\ RevokedBy(ds)[s].dev = session[s].dev /\ RevokedBy(ds)[s].conn = session[s].conn
             /\ RevokedBy(ds)[s].st = IF session[s].st = "live" /\ session[s].dev \in ds THEN "revoked" ELSE session[s].st
  <2> PICK r \in SessionRows : r = session[s]
    BY DEF RemoteTyped
  <2>1. RevokedBy(ds)[s] = IF r.st = "live" /\ r.dev \in ds THEN [r EXCEPT !.st = "revoked"] ELSE r
    BY DEF RevokedBy
  <2>2. /\ [r EXCEPT !.st = "revoked"] \in SessionRows /\ [r EXCEPT !.st = "revoked"].st = "revoked"
        /\ [r EXCEPT !.st = "revoked"].dev = r.dev /\ [r EXCEPT !.st = "revoked"].conn = r.conn
    BY DEF SessionRows
  <2> QED
    BY <2>1, <2>2
<1>2. RevokedBy(ds) \in [Sessions -> SessionRows]
  BY <1>1 DEF RevokedBy
<1> QED
  BY <1>1, <1>2

LEMMA RotateDeviceKeeps ==
  ASSUME RemoteSafe, NEW p \in Peers, RotateDevice(p)
  PROVE  RemoteSafe'
<1>1. RemoteTyped /\ UNCHANGED <<peer, rcall, session, sshKey, account, remoteHeld, control, operator, unwritten>>
      /\ eventsLeft' \in Int
  BY DEF RemoteSafe, RemoteTyped, RotateDevice, others, Event
<1>2. device' \in [Devices -> DeviceRows] /\ \A d \in Devices : device'[d].st = device[d].st
  <2>1. peer[p].dev \in Devices
    BY DEF RotateDevice, TokenGood, Standing, RemoteSafe, SessionsSound, SignedIn, RemoteTyped, ConnRecs, Sessions
  <2>2. PICK e \in Devices, r \in DeviceRows : e = peer[p].dev /\ r = device[e]
    BY <1>1, <2>1 DEF RemoteTyped
  <2>3. device' = [device EXCEPT ![e] = [r EXCEPT !.pub = RotatedPub]]
    BY <2>2 DEF RotateDevice
  <2>4. [r EXCEPT !.pub = RotatedPub] \in DeviceRows /\ [r EXCEPT !.pub = RotatedPub].st = r.st
    BY DEF DeviceRows, AllPubs
  <2> QED
    BY <1>1, <2>2, <2>3, <2>4 DEF RemoteTyped
<1>3. RemoteTyped'
  BY <1>1, <1>2 DEF RemoteTyped
<1>4. SessionsSound'
  BY <1>1, <1>2 DEF RemoteSafe, SessionsSound, LiveDevices
<1>5. ListenersSound'
  BY <1>1 DEF RemoteSafe, ListenersSound, OffLeavesNone
<1>6. \A q \in Peers : Calm(peer[q], peer'[q]) /\ peer'[q].busy = peer[q].busy
  BY <1>1 DEF Calm
<1>7. \A q \in Peers : peer[q].at = "open" /\ Doomed(q) => Doomed(q)'
  BY <1>1, <1>6, DoomStays
<1> QED
  BY <1>1, <1>3, <1>4, <1>5, <1>6, <1>7, ActsKeep

\* The key, a device or the user is revoked, with the sessions that stood on it.
LEMMA RevokesKeeps ==
  ASSUME RemoteSafe, RemoteTyped', SessionsSound', NEW ds, NEW m,
         operator = Quiet, operator' = [at |-> "hangup", match |-> m],
         session' = RevokedBy(ds), \A d \in ds : m = 0 \/ m = d,
         UNCHANGED <<peer, rcall, remoteHeld, control, unwritten>>
  PROVE  RemoteSafe'
<1>1. \A s \in Sessions :
        /\ session'[s].dev = session[s].dev /\ session'[s].conn = session[s].conn
        /\ session'[s].st = IF session[s].st = "live" /\ session[s].dev \in ds THEN "revoked" ELSE session[s].st
  BY RevokedIs DEF RemoteSafe
<1>2. operator' # Quiet /\ operator'.match = m
  BY DEF Quiet
<1>3. \A q \in Peers : peer[q].at = "open" /\ (m = 0 \/ peer[q].dev = m) => Doomed(q)'
  BY <1>2 DEF Doomed, Matches, Quiet
<1>4. \A q \in Peers : Calm(peer[q], peer'[q]) /\ peer'[q].busy = peer[q].busy
  BY DEF Calm
<1>5. \A q \in Peers : peer[q].at = "open" /\ Doomed(q) => Doomed(q)'
  BY <1>4, DoomStays
<1>6. ListenersSound'
  BY DEF RemoteSafe, ListenersSound, OffLeavesNone
<1>7. ASSUME NEW s \in Sessions
      PROVE  /\ session[s].st # "none" => session'[s].st # "none"
             /\ session'[s].dev = session[s].dev /\ session'[s].conn = session[s].conn
             /\ session'[s].st = "live" => session[s].st = "live"
             /\ session'[s].st = "revoked" =>
                  \/ session[s].st = "revoked"
                  \/ \A q \in Peers : peer[q].at = "open" /\ peer[q].dev = session[s].dev => Doomed(q)'
  BY <1>1, <1>3
<1> QED
  BY <1>4, <1>5, <1>6, <1>7, ActsKeep

LEMMA OperatorTyped ==
  ASSUME NEW m \in 0..MaxDevice
  PROVE  [at |-> "hangup", match |-> m] \in OperatorRecs
  BY DEF OperatorRecs

LEMMA RevokeSSHKeyKeeps ==
  ASSUME RemoteSafe, RevokeSSHKey
  PROVE  RemoteSafe'
<1>1. /\ RemoteTyped /\ operator = Quiet /\ session' = RevokedBy(LiveDevices) /\ sshKey' = FALSE
      /\ operator' = [at |-> "hangup", match |-> 0] /\ 0 \in 0..MaxDevice
      /\ UNCHANGED <<peer, rcall, account, remoteHeld, control, unwritten>> /\ eventsLeft' \in Int
  BY RemoteAssumption DEF RemoteSafe, RemoteTyped, RevokeSSHKey, Event, RemoteAssumption
<1>2. /\ session' \in [Sessions -> SessionRows]
      /\ \A s \in Sessions : session'[s].st = IF session[s].st = "live" /\ session[s].dev \in LiveDevices THEN "revoked" ELSE session[s].st
  BY <1>1, RevokedIs
<1>3. device' \in [Devices -> DeviceRows] /\ \A d \in Devices : device'[d].st # "live"
  <2>1. ASSUME NEW d \in Devices PROVE device'[d] \in DeviceRows /\ device'[d].st # "live"
    <3> PICK r \in DeviceRows : r = device[d]
      BY <1>1 DEF RemoteTyped
    <3>1. [r EXCEPT !.st = "revoked"] \in DeviceRows /\ [r EXCEPT !.st = "revoked"].st = "revoked"
      BY DEF DeviceRows
    <3>2. device'[d] = IF r.st = "live" THEN [r EXCEPT !.st = "revoked"] ELSE r
      BY DEF RevokeSSHKey, LiveDevices
    <3> QED
      BY <3>1, <3>2
  <2>2. device' = [d \in Devices |-> device'[d]]
    BY DEF RevokeSSHKey
  <2> QED
    BY <2>1, <2>2
<1>4. RemoteTyped'
  BY <1>1, <1>2, <1>3, OperatorTyped DEF RemoteTyped
<1>5. SessionsSound'
  <2>1. \A s \in Sessions : session'[s].st # "live"
    BY <1>2 DEF RemoteSafe, SessionsSound, LiveDevices
  <2> QED
    BY <1>3, <2>1 DEF SessionsSound, LiveDevices
<1> QED
  BY <1>1, <1>4, <1>5, RevokesKeeps

LEMMA RevokeDeviceKeeps ==
  ASSUME RemoteSafe, NEW d \in Devices, RevokeDevice(d)
  PROVE  RemoteSafe'
<1>1. /\ RemoteTyped /\ operator = Quiet /\ session' = RevokedBy({d}) /\ d \in LiveDevices
      /\ operator' = [at |-> "hangup", match |-> d] /\ d \in 0..MaxDevice
      /\ UNCHANGED <<peer, rcall, sshKey, account, remoteHeld, control, unwritten>> /\ eventsLeft' \in Int
  BY DEF RemoteSafe, RemoteTyped, RevokeDevice, Event, Devices
<1>2. /\ session' \in [Sessions -> SessionRows]
      /\ \A s \in Sessions : session'[s].dev = session[s].dev
      /\ \A s \in Sessions : session'[s].st = IF session[s].st = "live" /\ session[s].dev \in {d} THEN "revoked" ELSE session[s].st
  BY <1>1, RevokedIs
<1>3. /\ device' \in [Devices -> DeviceRows] /\ device'[d].st = "revoked"
      /\ \A e \in Devices \ {d} : device'[e] = device[e]
  <2> PICK r \in DeviceRows : r = device[d]
    BY <1>1 DEF RemoteTyped
  <2>1. [r EXCEPT !.st = "revoked"] \in DeviceRows /\ [r EXCEPT !.st = "revoked"].st = "revoked"
    BY DEF DeviceRows
  <2>2. device' = [device EXCEPT ![d] = [r EXCEPT !.st = "revoked"]]
    BY DEF RevokeDevice
  <2> QED
    BY <1>1, <2>1, <2>2 DEF RemoteTyped
<1>4. RemoteTyped'
  BY <1>1, <1>2, <1>3, OperatorTyped DEF RemoteTyped
<1>5. SessionsSound'
  <2>1. \A s \in Sessions : session'[s].st = "live" =>
          session'[s].dev \in Devices /\ session'[s].dev # d /\ device[session'[s].dev].st = "live" /\ sshKey /\ account
    BY <1>2 DEF RemoteSafe, SessionsSound
  <2>2. \A e \in LiveDevices' : e \in LiveDevices
    BY <1>3 DEF LiveDevices
  <2> QED
    BY <1>1, <1>3, <2>1, <2>2 DEF RemoteSafe, SessionsSound
<1> QED
  BY <1>1, <1>4, <1>5, RevokesKeeps

LEMMA DisableUserKeeps ==
  ASSUME RemoteSafe, DisableUser
  PROVE  RemoteSafe'
<1> DEFINE ds == {session[s].dev : s \in Sessions}
<1>1. /\ RemoteTyped /\ operator = Quiet /\ account' = FALSE
      /\ operator' = [at |-> "hangup", match |-> 0] /\ 0 \in 0..MaxDevice
      /\ UNCHANGED <<peer, rcall, device, sshKey, remoteHeld, control, unwritten>> /\ eventsLeft' \in Int
  BY RemoteAssumption DEF RemoteSafe, RemoteTyped, DisableUser, Event, RemoteAssumption
<1>2. session' = RevokedBy(ds)
  BY DEF DisableUser, RevokedBy
<1>3. /\ session' \in [Sessions -> SessionRows]
      /\ \A s \in Sessions : session'[s].st = IF session[s].st = "live" /\ session[s].dev \in ds THEN "revoked" ELSE session[s].st
  BY <1>1, <1>2, RevokedIs
<1>4. RemoteTyped'
  BY <1>1, <1>3, OperatorTyped DEF RemoteTyped
<1>5. SessionsSound'
  <2>1. \A s \in Sessions : session'[s].st # "live"
    BY <1>3
  <2> QED
    BY <1>1, <2>1 DEF RemoteSafe, SessionsSound, LiveDevices
<1> QED
  BY <1>1, <1>2, <1>4, <1>5, RevokesKeeps

LEMMA EndRemoteKeeps ==
  ASSUME RemoteSafe, NEW own \in Peers \union {NoPeer}, EndRemote(own)
  PROVE  RemoteSafe'
<1>1. /\ RemoteTyped /\ operator' = Quiet /\ eventsLeft' \in Int
      /\ UNCHANGED <<rcall, device, session, sshKey, account, remoteHeld, control, unwritten>>
  BY DEF RemoteSafe, RemoteTyped, EndRemote, store
<1>2. ASSUME NEW p \in Peers
      PROVE  /\ peer'[p] \in ConnRecs /\ Calm(peer[p], peer'[p]) /\ peer'[p].busy = peer[p].busy
             /\ Matches(p, operator.match) => peer'[p].hung \/ peer'[p].ending
  <2> PICK q \in ConnRecs : q = peer[p]
    BY <1>1 DEF RemoteTyped
  <2>1. /\ [q EXCEPT !.ending = TRUE] \in ConnRecs /\ Calm(q, [q EXCEPT !.ending = TRUE])
        /\ [q EXCEPT !.ending = TRUE].busy = q.busy /\ [q EXCEPT !.ending = TRUE].ending
        /\ [q EXCEPT !.hung = TRUE] \in ConnRecs /\ Calm(q, [q EXCEPT !.hung = TRUE])
        /\ [q EXCEPT !.hung = TRUE].busy = q.busy /\ [q EXCEPT !.hung = TRUE].hung /\ Calm(q, q)
    BY DEF ConnRecs, Calm
  <2>2. /\ ~Matches(p, operator.match) => peer'[p] = q
        /\ Matches(p, operator.match) => peer'[p] = [q EXCEPT !.ending = TRUE] \/ peer'[p] = [q EXCEPT !.hung = TRUE]
    BY DEF EndRemote
  <2> QED
    BY <2>1, <2>2
<1>3. peer' \in [Peers -> ConnRecs]
  <2>1. peer' = [p \in Peers |-> peer'[p]]
    BY DEF EndRemote
  <2> QED
    BY <1>2, <2>1
<1>4. Quiet \in OperatorRecs
  BY RemoteAssumption DEF RemoteAssumption, Quiet, OperatorRecs
<1>5. RemoteTyped'
  BY <1>1, <1>3, <1>4 DEF RemoteTyped
<1>6. SessionsSound'
  BY <1>1 DEF RemoteSafe, SessionsSound, LiveDevices
<1>7. ListenersSound'
  BY <1>1, <1>2 DEF RemoteSafe, ListenersSound, OffLeavesNone, Calm
<1>8. \A q \in Peers : peer[q].at = "open" /\ Doomed(q) => Doomed(q)'
  BY <1>2 DEF Doomed, Calm
<1> QED
  BY <1>1, <1>2, <1>5, <1>6, <1>7, <1>8, ActsKeep

\* The switch and the listeners, while nobody is told anything.
LEMMA SwitchesKeep ==
  ASSUME RemoteSafe, control' \in SwitchRecs, ListenersSound', eventsLeft' \in Int,
         UNCHANGED <<peer, rcall, store, remoteHeld, operator, unwritten>>
  PROVE  RemoteSafe'
<1>1. RemoteTyped'
  BY DEF RemoteSafe, RemoteTyped, store
<1>2. SessionsSound'
  BY DEF RemoteSafe, SessionsSound, LiveDevices, store
<1>3. \A q \in Peers : Calm(peer[q], peer'[q]) /\ peer'[q].busy = peer[q].busy
  BY DEF Calm
<1>4. \A q \in Peers : peer[q].at = "open" /\ Doomed(q) => Doomed(q)'
  BY <1>3, DoomStays
<1> QED
  BY <1>1, <1>2, <1>3, <1>4, ActsKeep DEF store

LEMMA TurnOffKeeps == ASSUME RemoteSafe, TurnOff PROVE RemoteSafe'
<1> PICK c \in SwitchRecs : c = control
  BY DEF RemoteSafe, RemoteTyped
<1>1. control' = [c EXCEPT !.closed = c.closed \union {c.listener}, !.at = "closing"]
  BY DEF TurnOff
<1>2. /\ control' \in SwitchRecs /\ control'.listener = c.listener /\ control'.closed = c.closed \union {c.listener}
      /\ control'.at = "closing"
  BY <1>1 DEF SwitchRecs
<1>3. UNCHANGED <<peer, rcall, store, remoteHeld, operator, unwritten>> /\ eventsLeft' \in Int
  BY DEF TurnOff, Event, RemoteSafe, RemoteTyped
<1>4. ListenersSound'
  BY <1>2, <1>3 DEF RemoteSafe, ListenersSound, OffLeavesNone
<1> QED
  BY <1>2, <1>3, <1>4, SwitchesKeep

LEMMA ListenerFailsKeeps == ASSUME RemoteSafe, ListenerFails PROVE RemoteSafe'
<1> PICK c \in SwitchRecs : c = control
  BY DEF RemoteSafe, RemoteTyped
<1>1. control' = [c EXCEPT !.closed = c.closed \union {c.listener}] /\ c.at = "on"
  BY DEF ListenerFails
<1>2. /\ control' \in SwitchRecs /\ control'.listener = c.listener /\ control'.closed = c.closed \union {c.listener}
      /\ control'.at = "on"
  BY <1>1 DEF SwitchRecs
<1>3. UNCHANGED <<peer, rcall, store, remoteHeld, operator, unwritten>> /\ eventsLeft' \in Int
  BY DEF ListenerFails, Event, RemoteSafe, RemoteTyped
<1>4. ListenersSound'
  BY <1>2, <1>3 DEF RemoteSafe, ListenersSound, OffLeavesNone
<1> QED
  BY <1>2, <1>3, <1>4, SwitchesKeep

LEMMA TurnOnKeeps == ASSUME RemoteSafe, TurnOn PROVE RemoteSafe'
<1> PICK c \in SwitchRecs : c = control
  BY DEF RemoteSafe, RemoteTyped
<1>1. control' = [c EXCEPT !.listener = c.listener + 1, !.at = "on"] /\ (c.at = "off" \/ c.listener \in c.closed)
  BY DEF TurnOn
<1>0. c.listener \in Nat /\ c.listener + 1 \in Nat
  BY DEF SwitchRecs
<1>2. /\ control' \in SwitchRecs /\ control'.listener = c.listener + 1 /\ control'.closed = c.closed
      /\ control'.at = "on"
  BY <1>0, <1>1 DEF SwitchRecs
<1>3. UNCHANGED <<peer, rcall, store, remoteHeld, operator, unwritten>> /\ eventsLeft' \in Int
  BY DEF TurnOn, RemoteSafe, RemoteTyped
<1>4. ListenersSound'
  <2>1. c.listener \in c.closed
    BY <1>1 DEF RemoteSafe, ListenersSound
  <2> QED
    BY <1>2, <1>3, <2>1 DEF RemoteSafe, ListenersSound, OffLeavesNone
<1> QED
  BY <1>2, <1>3, <1>4, SwitchesKeep

LEMMA TurnOffHangsUpKeeps == ASSUME RemoteSafe, TurnOffHangsUp PROVE RemoteSafe'
<1> PICK c \in SwitchRecs : c = control
  BY DEF RemoteSafe, RemoteTyped
<1>1. control' = [c EXCEPT !.at = "off"] /\ c.at = "closing"
  BY DEF TurnOffHangsUp
<1>2. /\ control' \in SwitchRecs /\ control'.listener = c.listener /\ control'.closed = c.closed
      /\ control'.at = "off"
  BY <1>1 DEF SwitchRecs
<1>3. RemoteTyped /\ UNCHANGED <<rcall, store, remoteHeld, operator, unwritten>> /\ eventsLeft' \in Int
  BY DEF TurnOffHangsUp, RemoteSafe, RemoteTyped
<1>4. ASSUME NEW p \in Peers
      PROVE  /\ peer'[p] \in ConnRecs /\ Calm(peer[p], peer'[p]) /\ peer'[p].busy = peer[p].busy
             /\ peer'[p].at = "open" => peer'[p].hung
  <2> PICK q \in ConnRecs : q = peer[p]
    BY <1>3 DEF RemoteTyped
  <2> DEFINE r == [q EXCEPT !.hung = q.hung \/ q.at = "open"]
  <2>1. r \in ConnRecs /\ Calm(q, r) /\ r.busy = q.busy /\ (r.at = "open" => r.hung)
    BY DEF ConnRecs, Calm
  <2>2. peer'[p] = r
    BY DEF TurnOffHangsUp
  <2> QED
    BY <2>1, <2>2
<1>5. peer' \in [Peers -> ConnRecs]
  <2>1. peer' = [p \in Peers |-> peer'[p]]
    BY DEF TurnOffHangsUp
  <2> QED
    BY <1>4, <2>1
<1>6. RemoteTyped'
  BY <1>2, <1>3, <1>5 DEF RemoteTyped, store
<1>7. SessionsSound'
  BY <1>3 DEF RemoteSafe, SessionsSound, LiveDevices, store
<1>8. ListenersSound'
  BY <1>1, <1>2, <1>4 DEF RemoteSafe, ListenersSound, OffLeavesNone, Calm
<1>9. \A q \in Peers : peer[q].at = "open" /\ Doomed(q) => Doomed(q)'
  BY <1>3, <1>4, DoomStays
<1> QED
  BY <1>3, <1>4, <1>6, <1>7, <1>8, <1>9, ActsKeep DEF store

LEMMA NewPeerIs ==
  /\ NewPeer \in ConnRecs /\ NewPeer.at = "none" /\ NewPeer.sess = 0 /\ NewPeer.end = "none" /\ ~NewPeer.enrolled
  /\ [NewPeer EXCEPT !.at = "over"] \in ConnRecs /\ [NewPeer EXCEPT !.at = "over"].at = "over"
  /\ [NewPeer EXCEPT !.at = "over"].sess = 0 /\ [NewPeer EXCEPT !.at = "over"].end = "none"
  /\ ~[NewPeer EXCEPT !.at = "over"].enrolled
<1>1. 0 \in Nat /\ 0 \in 0..MaxDevice /\ 0 \in 0..MaxSession /\ NoPub \in AllPubs
  BY RemoteAssumption DEF RemoteAssumption, AllPubs
<1>2. /\ NewPeer \in ConnRecs /\ NewPeer.at = "none" /\ NewPeer.sess = 0 /\ NewPeer.end = "none"
      /\ NewPeer.enrolled = FALSE
  BY <1>1 DEF NewPeer, ConnRecs
<1>3. PICK q \in ConnRecs : q = NewPeer
  BY <1>2
<1>4. /\ [q EXCEPT !.at = "over"] \in ConnRecs /\ [q EXCEPT !.at = "over"].at = "over"
      /\ [q EXCEPT !.at = "over"].sess = q.sess /\ [q EXCEPT !.at = "over"].end = q.end
      /\ [q EXCEPT !.at = "over"].enrolled = q.enrolled
  BY DEF ConnRecs
<1> QED
  BY <1>2, <1>3, <1>4

\* With no call and no connection there is nothing to be undone.
LEMMA NobodyThere ==
  ASSUME RemoteTyped', SessionsSound', ListenersSound', remoteHeld' = 0,
         \A k \in RCalls : rcall'[k] = IdleCall,
         \A p \in Peers : peer'[p].at \in {"none", "over"} /\ peer'[p].sess = 0 /\ peer'[p].end = "none" /\ ~peer'[p].enrolled,
         \A s \in Sessions : session'[s].st = "live" => session'[s].conn = NoPeer
  PROVE  RemoteSafe'
<1>1. CallsSound' /\ OneRegisters' /\ OneCallAtATime'
  BY IdleIs DEF CallsSound, OneRegisters, OneCallAtATime
<1>2. PeersSound'
  BY DEF PeersSound
<1>3. AdmissionBalanced'
  <2>1. Busied' = {} /\ Kept' = {}
    BY IdleIs DEF Busied, Kept
  <2>2. Cardinality(Busied') = 0 /\ Cardinality(Kept') = 0
    BY <2>1, FS_EmptySet
  <2>3. remoteHeld' = Cardinality(Busied') + Cardinality(Kept')
    BY <2>2
  <2> QED
    BY <2>3 DEF AdmissionBalanced, Busied, Kept
<1>4. AttachedHeld' /\ RevocationReaches'
  BY DEF AttachedHeld, RevocationReaches
<1> QED
  BY <1>1, <1>2, <1>3, <1>4 DEF RemoteSafe

LEMMA RestartKeeps == ASSUME RemoteSafe, Restart PROVE RemoteSafe'
<1> PICK c \in SwitchRecs : c = control
  BY DEF RemoteSafe, RemoteTyped
<1>1. /\ RemoteTyped /\ remoteHeld' = 0 /\ operator' = Quiet /\ session' = RevokedBy(Devices)
      /\ rcall' = [k \in RCalls |-> IdleCall] /\ eventsLeft' \in Int
      /\ UNCHANGED <<device, sshKey, account, unwritten>>
  BY DEF RemoteSafe, RemoteTyped, Restart, Event
<1> DEFINE closed == IF c.at = "on" THEN c.closed ELSE c.closed \union {c.listener + 1}
<1>2. c.listener + 1 \in Nat /\ closed \subseteq Nat /\ c.at # "closing"
  BY DEF SwitchRecs, Restart
<1>3. control' = [c EXCEPT !.listener = c.listener + 1, !.closed = closed]
  BY DEF Restart
<1>4. control' \in SwitchRecs /\ control'.listener = c.listener + 1 /\ control'.closed = closed /\ control'.at = c.at
  <2> HIDE DEF closed
  <2> QED
    BY <1>2, <1>3 DEF SwitchRecs
<1>5. ASSUME NEW p \in Peers
      PROVE  /\ peer'[p] \in ConnRecs /\ peer'[p].at \in {"none", "over"} /\ peer'[p].sess = 0
             /\ peer'[p].end = "none" /\ ~peer'[p].enrolled
  <2>1. peer'[p] = IF peer[p].at = "none" THEN peer[p] ELSE [NewPeer EXCEPT !.at = "over"]
    BY DEF Restart
  <2>2. peer[p].at = "none" => peer[p] \in ConnRecs /\ peer[p].sess = 0 /\ peer[p].end = "none" /\ ~peer[p].enrolled
    BY DEF RemoteSafe, RemoteTyped, PeersSound
  <2> QED
    BY <2>1, <2>2, NewPeerIs
<1>6. peer' \in [Peers -> ConnRecs]
  <2>1. peer' = [p \in Peers |-> peer'[p]]
    BY DEF Restart
  <2> QED
    BY <1>5, <2>1
<1>7. /\ session' \in [Sessions -> SessionRows]
      /\ \A s \in Sessions : session'[s].st = IF session[s].st = "live" /\ session[s].dev \in Devices THEN "revoked" ELSE session[s].st
  BY <1>1, RevokedIs
<1>8. \A s \in Sessions : session'[s].st # "live"
  BY <1>7 DEF RemoteSafe, SessionsSound
<1>9. rcall' \in [RCalls -> SignInRecs] /\ \A k \in RCalls : rcall'[k] = IdleCall
  BY <1>1, IdleIs
<1>10. Quiet \in OperatorRecs
  BY RemoteAssumption DEF RemoteAssumption, Quiet, OperatorRecs
<1>11. RemoteTyped'
  BY <1>1, <1>4, <1>6, <1>7, <1>9, <1>10 DEF RemoteTyped
<1>12. SessionsSound'
  BY <1>1, <1>8 DEF RemoteSafe, SessionsSound, LiveDevices
<1>13. ListenersSound'
  BY <1>2, <1>4, <1>5 DEF ListenersSound, OffLeavesNone
<1> QED
  BY <1>1, <1>5, <1>8, <1>9, <1>11, <1>12, <1>13, NobodyThere

LEMMA RemoteStarts == RemoteInit => RemoteSafe
<1> SUFFICES ASSUME RemoteInit PROVE RemoteSafe
  OBVIOUS
<1>1. /\ peer = [p \in Peers |-> NewPeer] /\ rcall = [k \in RCalls |-> IdleCall]
      /\ sshKey = TRUE /\ account = TRUE /\ remoteHeld = 0
      /\ control = [listener |-> 1, closed |-> {}, at |-> "on"]
      /\ operator = Quiet /\ unwritten = {} /\ eventsLeft = Events
  BY DEF RemoteInit
<1>2. /\ device \in [Devices -> DeviceRows] /\ session \in [Sessions -> SessionRows]
      /\ \A s \in Sessions : session[s].conn = NoPeer
      /\ \A s \in Sessions : session[s].st = "live" => session[s].dev \in Devices /\ device[session[s].dev].st = "live"
      /\ \A d, e \in LiveDevices : d = e
  <2>1. 0 \in 0..MaxDevice /\ NoPub \in AllPubs /\ \A pub \in Pubs : pub \in AllPubs
    BY RemoteAssumption DEF RemoteAssumption, AllPubs
  <2>2. /\ NoSession \in SessionRows /\ NoSession.conn = NoPeer /\ NoSession.st = "none"
        /\ [st |-> "none", pub |-> NoPub] \in DeviceRows
    BY <2>1 DEF NoSession, SessionRows, DeviceRows
  <2>3. CASE /\ device = [d \in Devices |-> [st |-> "none", pub |-> NoPub]]
             /\ session = [s \in Sessions |-> NoSession]
    BY <2>2, <2>3 DEF LiveDevices
  <2>4. ASSUME NEW pub \in Pubs,
               device = [d \in Devices |-> IF d = 1 THEN [st |-> "live", pub |-> pub]
                                                    ELSE [st |-> "none", pub |-> NoPub]],
               session = [s \in Sessions |->
                 IF s = 1 THEN [NoSession EXCEPT !.st = "live", !.dev = 1, !.grace = TRUE] ELSE NoSession]
        PROVE  /\ device \in [Devices -> DeviceRows] /\ session \in [Sessions -> SessionRows]
               /\ \A s \in Sessions : session[s].conn = NoPeer
               /\ \A s \in Sessions : session[s].st = "live" => session[s].dev \in Devices /\ device[session[s].dev].st = "live"
               /\ \A d, e \in LiveDevices : d = e
    <3>1. 1 \in Devices /\ 1 \in 0..MaxDevice
      BY RemoteAssumption DEF RemoteAssumption, Devices
    <3>2. PICK q \in SessionRows : q = NoSession
      BY <2>2
    <3> DEFINE r == [q EXCEPT !.st = "live", !.dev = 1, !.grace = TRUE]
    <3>3. r \in SessionRows /\ r.conn = q.conn /\ r.st = "live" /\ r.dev = 1
      BY <3>1 DEF SessionRows
    <3>4. \A s \in Sessions : session[s] = r \/ session[s] = NoSession
      BY <2>4, <3>2
    <3> HIDE DEF r
    <3>5. session = [s \in Sessions |-> session[s]]
      BY <2>4
    <3>6. session \in [Sessions -> SessionRows]
      BY <2>2, <3>3, <3>4, <3>5
    <3>7. [st |-> "live", pub |-> pub] \in DeviceRows
      BY <2>1 DEF DeviceRows
    <3>8. device \in [Devices -> DeviceRows]
      BY <2>2, <2>4, <3>7
    <3>9. \A d \in Devices : (device[d].st = "live") = (d = 1)
      BY <2>4
    <3> QED
      BY <2>2, <3>1, <3>2, <3>3, <3>4, <3>6, <3>8, <3>9 DEF LiveDevices
  <2> QED
    BY <2>3, <2>4 DEF RemoteInit
<1>3. Quiet \in OperatorRecs /\ control \in SwitchRecs /\ control.listener = 1 /\ control.closed = {} /\ control.at = "on"
  BY <1>1, RemoteAssumption DEF RemoteAssumption, Quiet, OperatorRecs, SwitchRecs
<1>4. RemoteTyped
  BY <1>1, <1>2, <1>3, NewPeerIs, IdleIs, RemoteAssumption DEF RemoteTyped, RemoteAssumption
<1>5. \A k \in RCalls : rcall[k].at = "idle" /\ rcall[k].old = NoPeer
  BY <1>1, IdleIs
<1>6. \A p \in Peers : peer[p].at = "none" /\ peer[p].sess = 0 /\ peer[p].end = "none" /\ ~peer[p].enrolled
  BY <1>1, NewPeerIs
<1>7. CallsSound /\ OneRegisters /\ OneCallAtATime
  BY <1>5, <1>6 DEF CallsSound, OneRegisters, OneCallAtATime
<1>8. PeersSound /\ RevocationReaches
  BY <1>6 DEF PeersSound, RevocationReaches
<1>9. AdmissionBalanced
  <2>1. Busied = {} /\ Kept = {}
    BY <1>5, <1>6 DEF Busied, Kept
  <2>2. Cardinality({}) = 0
    BY FS_EmptySet
  <2> QED
    BY <1>1, <2>1, <2>2, CountsIs
<1>10. AttachedHeld /\ SessionsSound
  BY <1>1, <1>2 DEF AttachedHeld, SessionsSound
<1>11. ListenersSound
  BY <1>3, <1>6 DEF ListenersSound, OffLeavesNone
<1> QED
  BY <1>4, <1>7, <1>8, <1>9, <1>10, <1>11 DEF RemoteSafe

LEMMA RemoteMoves == RemoteSafe /\ [RemoteNext]_remoteVars => RemoteSafe'
<1> SUFFICES ASSUME RemoteSafe, [RemoteNext]_remoteVars PROVE RemoteSafe'
  OBVIOUS
<1>1. CASE UNCHANGED remoteVars
  <2>1. \A q \in Peers : Calm(peer[q], peer'[q]) /\ peer'[q].busy = peer[q].busy
    BY <1>1 DEF remoteVars, Calm
  <2>2. SessionsGoOn /\ RemoteTyped'
    BY <1>1 DEF remoteVars, SessionsGoOn, RemoteSafe, RemoteTyped
  <2> QED
    BY <1>1, <2>1, <2>2, FlagsKeep DEF remoteVars
<1>2. ASSUME NEW p \in Peers, PeerStep(p) PROVE RemoteSafe'
  BY <1>2, HandshakeKeeps, RegisterKeeps, PeerEndedKeeps, EndRunsKeeps, RotateDeviceKeeps, LogoutKeeps DEF PeerStep
<1>3. ASSUME NEW k \in RCalls, CallStep(k) PROVE RemoteSafe'
  <2>1. ASSUME NEW pub \in Pubs \union {device[d].pub : d \in LiveDevices}, AttestReads(k, pub) PROVE RemoteSafe'
    <3>1. pub \in AllPubs
      BY DEF RemoteSafe, RemoteTyped, DeviceRows, LiveDevices, AllPubs
    <3> QED
      BY <2>1, <3>1, AttestReadsKeeps
  <2>2. ASSUME NEW s \in Sessions, ResumeReads(k, s) PROVE RemoteSafe'
    BY <2>2, ResumeReadsKeeps
  <2> QED
    BY <1>3, <2>1, <2>2, GateClaimsKeeps, AttestProvesKeeps, LoginRefusedKeeps, LoginCommitsKeeps, SignInClaimsKeeps,
       SignInUndoneKeeps, OnEndKeeps, SignInReturnsKeeps, ResumeTakesKeeps DEF CallStep
<1>4. ASSUME NEW k \in RCalls, NEW p \in Peers, NEW verb \in RVerbs, Gate(k, p, verb) PROVE RemoteSafe'
  BY <1>4, GateKeeps
<1>5. ASSUME NEW s \in Sessions, GraceLapses(s) PROVE RemoteSafe'
  BY <1>5, GraceLapsesKeeps
<1>6. ASSUME RevokeSSHKey \/ DisableUser \/ \E d \in Devices : RevokeDevice(d) PROVE RemoteSafe'
  BY <1>6, RevokeSSHKeyKeeps, DisableUserKeeps, RevokeDeviceKeeps
<1>7. ASSUME NEW own \in Peers \union {NoPeer}, EndRemote(own) PROVE RemoteSafe'
  BY <1>7, EndRemoteKeeps
<1>8. ASSUME TurnOff \/ TurnOffHangsUp \/ TurnOn \/ ListenerFails \/ Restart PROVE RemoteSafe'
  BY <1>8, TurnOffKeeps, TurnOffHangsUpKeeps, TurnOnKeeps, ListenerFailsKeeps, RestartKeeps
<1> QED
  BY <1>1, <1>2, <1>3, <1>4, <1>5, <1>6, <1>7, <1>8 DEF RemoteNext

LEMMA RemoteAlwaysSafe == RemoteSpec => []RemoteSafe
  BY RemoteStarts, RemoteMoves, PTL DEF RemoteSpec

\* What sign-ins, ends, revocations and the switch keep whatever the interleaving.
RemoteHolds ==
  /\ EndedConnHoldsNothing /\ AdmissionBalanced /\ RevokedIsOut /\ OneDevicePerKey /\ OffLeavesNone
  /\ RevokedPeerHangs

LEMMA RemoteSafeHolds == RemoteSafe => RemoteHolds
<1> SUFFICES ASSUME RemoteSafe PROVE RemoteHolds
  OBVIOUS
<1> USE DEF RemoteSafe
<1>1. EndedConnHoldsNothing
  <2> SUFFICES ASSUME NEW p \in Peers, peer[p].at = "over", peer[p].end # "run", ~Working(p), p \notin unwritten,
                      NEW s \in Attached(p)
               PROVE  FALSE
    BY DEF EndedConnHoldsNothing
  <2>1. s \in Sessions /\ session[s].st = "live" /\ session[s].conn = p /\ p # NoPeer
    BY RemoteAssumption DEF Attached, RemoteAssumption, NoPeer
  <2>2. peer[p].end # "kept"
    BY DEF PeersSound
  <2>3. PICK k \in RCalls : rcall[k].p = p /\ rcall[k].at \in {"claim", "undo", "register"}
    BY <2>1, <2>2 DEF AttachedHeld
  <2> QED
    BY <2>3 DEF Working
<1>2. RevokedIsOut
  BY DEF RevokedIsOut, SessionsSound, Standing
<1>3. OneDevicePerKey
  <2>1. CASE LiveDevices = {}
    BY <2>1, FS_EmptySet DEF OneDevicePerKey
  <2>2. CASE LiveDevices # {}
    <3>1. PICK d \in LiveDevices : LiveDevices = {d}
      BY <2>2 DEF SessionsSound
    <3>2. Cardinality({d}) = 1
      BY FS_Singleton
    <3> QED
      BY <3>1, <3>2 DEF OneDevicePerKey
  <2> QED
    BY <2>1, <2>2
<1>4. OffLeavesNone
  BY DEF ListenersSound
<1>5. RevokedPeerHangs
  BY DEF RevokedPeerHangs, RevocationReaches, Doomed
<1> QED
  BY <1>1, <1>2, <1>3, <1>4, <1>5 DEF RemoteHolds

Taking == {"claim", "register", "close"}

\* Who is told to hang up stays told, and who has a session keeps it.
PeersPart ==
  \A p \in Peers : /\ peer[p].at \in {"open", "over"} /\ ToldOff(p) => ToldOff(p)'
                   /\ peer'[p].sess = peer[p].sess \/ peer'[p].sess = 0

\* A call that was taking a session goes on, and none begins to.
CallsPart ==
  \A k \in RCalls : /\ rcall[k].at \in Taking => rcall'[k].at \in Taking /\ rcall'[k].old = rcall[k].old
                    /\ rcall'[k].at = "claim" => rcall'[k] = rcall[k]

\* A session that is detached was of a connection that is over.
ConnsPart ==
  \A s \in Sessions, q \in Peers : session[s].conn = q => session'[s].conn = q \/ ToldOff(q)'

\* How who holds a session stays attached to it, or is told to go.
LEMMA HoldersMove ==
  ASSUME RemoteSafe, HolderAttached, LeftKept,
         \A p \in Peers : peer[p].at \in {"open", "over"} /\ ToldOff(p) => ToldOff(p)',
         \A p \in Peers : peer'[p].sess = peer[p].sess \/ peer'[p].sess = 0
                          \/ \E k \in RCalls : rcall[k].at = "claim" /\ rcall[k].p = p /\ rcall[k].s = peer'[p].sess,
         \A k \in RCalls : rcall[k].at \in Taking =>
                             \/ rcall'[k].at \in Taking /\ rcall'[k].old = rcall[k].old
                             \/ \A q \in Peers : q = rcall[k].old /\ peer[q].at \in {"open", "over"}
                                                 => ToldOff(q)' \/ q \in leftBehind',
         \A k \in RCalls : rcall'[k].at = "claim" => rcall'[k] = rcall[k] \/ session'[rcall'[k].s].conn = rcall'[k].p,
         \A s \in Sessions, q \in Peers : session[s].st # "none" /\ session[s].conn = q => session'[s].conn = q \/ Apart(q)'
  PROVE  HolderAttached'
<1>1. ASSUME NEW p \in Peers, peer[p].at \in {"open", "over"}, Apart(p) PROVE Apart(p)'
  <2>1. CASE ToldOff(p) \/ p \in leftBehind
    BY <1>1, <2>1 DEF Apart, LeftKept
  <2>2. ASSUME NEW k \in RCalls, rcall[k].at \in Taking, rcall[k].old = p PROVE Apart(p)'
    <3>1. CASE rcall'[k].at \in Taking /\ rcall'[k].old = rcall[k].old
      BY <2>2, <3>1 DEF Apart, Taking
    <3>2. CASE ToldOff(p)' \/ p \in leftBehind'
      BY <3>2 DEF Apart
    <3> QED
      BY <1>1, <2>2, <3>1, <3>2
  <2> QED
    BY <1>1, <2>1, <2>2 DEF Apart, Taking
<1>2. ASSUME NEW p \in Peers, peer[p].at \in {"open", "over"}, NEW s \in Sessions, session[s].st # "none",
             Apart(p) \/ session[s].conn = p
      PROVE  Apart(p)' \/ session'[s].conn = p
  BY <1>1, <1>2
<1>3. ASSUME NEW p \in Peers, peer'[p].sess # 0 PROVE Apart(p)' \/ session'[peer'[p].sess].conn = p
  <2>1. CASE peer'[p].sess = peer[p].sess
    <3>1. peer[p].at \in {"open", "over"}
      BY <1>3, <2>1 DEF RemoteSafe, PeersSound, RemoteTyped, ConnRecs
    <3>2. peer[p].sess \in Sessions /\ session[peer[p].sess].st # "none"
      BY <1>3, <2>1 DEF RemoteSafe, PeersSound, RemoteTyped, ConnRecs, Sessions
    <3>3. Apart(p) \/ session[peer[p].sess].conn = p
      BY <1>3, <2>1 DEF HolderAttached
    <3> QED
      BY <1>2, <2>1, <3>1, <3>2, <3>3
  <2>2. ASSUME NEW k \in RCalls, rcall[k].at = "claim", rcall[k].p = p, rcall[k].s = peer'[p].sess
        PROVE Apart(p)' \/ session'[peer'[p].sess].conn = p
    <3>1. peer[p].at \in {"open", "over"} /\ peer'[p].sess \in Sessions /\ session[peer'[p].sess].st # "none"
      BY <2>2 DEF RemoteSafe, CallsSound
    <3>2. Apart(p) \/ session[peer'[p].sess].conn = p
      BY <2>2 DEF HolderAttached
    <3> QED
      BY <1>2, <3>1, <3>2
  <2> QED
    BY <1>3, <2>1, <2>2
<1>4. ASSUME NEW k \in RCalls, rcall'[k].at = "claim", NEW p, rcall'[k].p = p
      PROVE  Apart(p)' \/ session'[rcall'[k].s].conn = p
  <2>1. CASE rcall'[k] = rcall[k]
    <3>1. p \in Peers /\ peer[p].at \in {"open", "over"} /\ rcall[k].s \in Sessions
          /\ session[rcall[k].s].st # "none" /\ (Apart(p) \/ session[rcall[k].s].conn = p)
      BY <1>4, <2>1 DEF RemoteSafe, CallsSound, HolderAttached
    <3> PICK s \in Sessions : s = rcall[k].s
      BY <3>1
    <3>2. Apart(p)' \/ session'[s].conn = p
      BY <1>2, <3>1
    <3> QED
      BY <2>1, <3>2
  <2> QED
    BY <1>4, <2>1
<1>5. (\A p \in Peers : peer[p].sess # 0 => Apart(p) \/ session[peer[p].sess].conn = p)'
  BY <1>3
<1>6. (\A k \in RCalls : rcall[k].at = "claim" => Apart(rcall[k].p) \/ session[rcall[k].s].conn = rcall[k].p)'
  BY <1>4
<1> QED
  BY <1>5, <1>6 DEF HolderAttached

LEMMA PartsKeep ==
  ASSUME RemoteSafe, HolderAttached, LeftKept, PeersPart, CallsPart, ConnsPart
  PROVE  HolderAttached'
<1>1. \A p \in Peers : peer[p].at \in {"open", "over"} /\ ToldOff(p) => ToldOff(p)'
  BY DEF PeersPart
<1>2. \A p \in Peers : peer'[p].sess = peer[p].sess \/ peer'[p].sess = 0
  BY DEF PeersPart
<1>3. \A k \in RCalls : /\ rcall[k].at \in Taking => rcall'[k].at \in Taking /\ rcall'[k].old = rcall[k].old
                        /\ rcall'[k].at = "claim" => rcall'[k] = rcall[k]
  BY DEF CallsPart
<1>4. \A s \in Sessions, q \in Peers : session[s].st # "none" /\ session[s].conn = q => session'[s].conn = q \/ Apart(q)'
  BY DEF Apart, ConnsPart
<1> QED
  BY <1>1, <1>2, <1>3, <1>4, HoldersMove

LEMMA CalmParts ==
  ASSUME \A q \in Peers : Calm(peer[q], peer'[q])
  PROVE  PeersPart
  BY DEF PeersPart, Calm, ToldOff

LEMMA SetParts ==
  ASSUME RemoteTyped, NEW p \in Peers, NEW r \in ConnRecs, Set(p, r), r.sess = peer[p].sess,
         peer[p].at \in {"open", "over"} =>
           r.at = "over" \/ (r.at = peer[p].at /\ (peer[p].hung => r.hung))
  PROVE  PeersPart
<1>1. \A q \in Peers \ {p} : peer'[q] = peer[q]
  BY SetIs
<1>2. peer'[p].at = r.at /\ peer'[p].sess = r.sess /\ (r.at # "over" => peer'[p] = r)
  BY SetIs
<1> QED
  BY <1>1, <1>2 DEF PeersPart, ToldOff

LEMMA SameParts ==
  /\ UNCHANGED rcall => CallsPart
  /\ UNCHANGED session => ConnsPart
  BY DEF CallsPart, ConnsPart

\* The steps of a connection.
LEMMA PeerStepHolds ==
  ASSUME RemoteSafe, HolderAttached, LeftKept, NEW p \in Peers, PeerStep(p)
  PROVE  HolderAttached'
<1>1. RemoteTyped /\ peer[p] \in ConnRecs
  BY DEF RemoteSafe, RemoteTyped
<1> PICK q \in ConnRecs : q = peer[p]
  BY <1>1
<1>2. CASE Handshake(p)
  <2> DEFINE at == IF sshKey /\ account THEN "auth" ELSE "over"
             r == [q EXCEPT !.at = at, !.gen = control.listener]
  <2>1. at \in {"auth", "over"} /\ control.listener \in Nat
    BY <1>1 DEF RemoteTyped, SwitchRecs
  <2>2. Set(p, r) /\ q.at = "none" /\ UNCHANGED <<rcall, session>>
    BY <1>2 DEF Handshake, store
  <2> HIDE DEF at
  <2>3. r \in ConnRecs /\ r.sess = q.sess
    BY <2>1 DEF ConnRecs
  <2> HIDE DEF r
  <2>4. PeersPart
    BY <1>1, <2>2, <2>3, SetParts
  <2> QED
    BY <2>2, <2>4, SameParts, PartsKeep
<1>3. CASE Register(p)
  <2> DEFINE at == IF q.gen \in control.closed THEN "over" ELSE "open"
             r == [q EXCEPT !.at = at]
  <2>1. at \in {"open", "over"}
    OBVIOUS
  <2>2. Set(p, r) /\ q.at = "auth" /\ UNCHANGED <<rcall, session>>
    BY <1>3 DEF Register, store
  <2> HIDE DEF at
  <2>3. r \in ConnRecs /\ r.sess = q.sess
    BY <2>1 DEF ConnRecs
  <2> HIDE DEF r
  <2>4. PeersPart
    BY <1>1, <2>2, <2>3, SetParts
  <2> QED
    BY <2>2, <2>4, SameParts, PartsKeep
<1>4. CASE PeerEnded(p)
  <2> DEFINE e == IF q.end = "kept" THEN "run" ELSE q.end
             r == [q EXCEPT !.at = "over", !.end = e]
  <2>1. e \in {"none", "kept", "run", "done"}
    BY DEF ConnRecs
  <2>2. Set(p, r) /\ UNCHANGED <<rcall, session>>
    BY <1>4 DEF PeerEnded, store
  <2> HIDE DEF e
  <2>3. r \in ConnRecs /\ r.sess = q.sess /\ r.at = "over"
    BY <2>1 DEF ConnRecs
  <2> HIDE DEF r
  <2>4. PeersPart
    BY <1>1, <2>2, <2>3, SetParts
  <2> QED
    BY <2>2, <2>4, SameParts, PartsKeep
<1>5. CASE EndRuns(p)
  <2> DEFINE r == [q EXCEPT !.end = "done"]
  <2>1. Set(p, r) /\ UNCHANGED rcall
    BY <1>5 DEF EndRuns
  <2>2. r \in ConnRecs /\ r.sess = q.sess /\ r.at = q.at /\ r.hung = q.hung
    BY DEF ConnRecs
  <2> HIDE DEF r
  <2>3. PeersPart
    BY <1>1, <2>1, <2>2, SetParts
  <2>4. peer'[p].at = "over"
    <3>1. q.at = "over"
      BY <1>5 DEF EndRuns, RemoteSafe, PeersSound
    <3> QED
      BY <1>1, <2>1, <2>2, <3>1, SetIs
  <2>5. DetachedOf(p)
    BY <1>5, EndRunsKeeps
  <2>6. ConnsPart
    BY <2>4, <2>5 DEF ConnsPart, DetachedOf, ToldOff
  <2> QED
    BY <2>1, <2>3, <2>6, SameParts, PartsKeep
<1>6. CASE RotateDevice(p)
  <2>1. UNCHANGED <<peer, rcall, session>>
    BY <1>6 DEF RotateDevice
  <2>2. \A x \in Peers : Calm(peer[x], peer'[x])
    BY <2>1 DEF Calm
  <2> QED
    BY <2>1, <2>2, CalmParts, SameParts, PartsKeep
<1>7. CASE Logout(p)
  <2> DEFINE r == [q EXCEPT !.ending = TRUE]
  <2>1. Set(p, r) /\ UNCHANGED rcall
    BY <1>7 DEF Logout
  <2>2. r \in ConnRecs /\ r.sess = q.sess /\ r.at = q.at /\ r.hung = q.hung
    BY DEF ConnRecs
  <2> HIDE DEF r
  <2>3. PeersPart
    BY <1>1, <2>1, <2>2, SetParts
  <2>4. ConnsPart
    <3>1. session' = [session EXCEPT ![q.sess].st = "ended"]
      BY <1>7 DEF Logout
    <3>2. \A s \in Sessions : session'[s].conn = session[s].conn
      <4> SUFFICES ASSUME NEW s \in Sessions PROVE session'[s].conn = session[s].conn
        OBVIOUS
      <4> PICK z \in SessionRows : z = session[s]
        BY <1>1 DEF RemoteTyped
      <4>1. session'[s] = z \/ session'[s] = [z EXCEPT !.st = "ended"]
        BY <1>1, <3>1 DEF RemoteTyped
      <4>2. [z EXCEPT !.st = "ended"].conn = z.conn
        BY DEF SessionRows
      <4> QED
        BY <4>1, <4>2
    <3> QED
      BY <3>2 DEF ConnsPart
  <2> QED
    BY <2>1, <2>3, <2>4, SameParts, PartsKeep
<1> QED
  BY <1>2, <1>3, <1>4, <1>5, <1>6, <1>7 DEF PeerStep

LEMMA CallParts ==
  ASSUME NEW k \in RCalls, rcall[k].at \notin Taking, rcall'[k].at # "claim",
         \A j \in RCalls \ {k} : rcall'[j] = rcall[j]
  PROVE  CallsPart
  BY DEF CallsPart

\* A handler that returns, and writes no session.
LEMMA ReturnHolds ==
  ASSUME RemoteSafe, HolderAttached, LeftKept, NEW k \in RCalls, NEW refused \in BOOLEAN, Returns(k, refused),
         rcall[k].at \notin {"idle"} \union Taking, ConnsPart
  PROVE  HolderAttached'
<1>1. RemoteTyped /\ rcall[k].p \in Peers
  BY CallOf DEF RemoteSafe
<1>2. (\A q \in Peers : Calm(peer[q], peer'[q])) /\ rcall'[k] = IdleCall /\ \A j \in RCalls \ {k} : rcall'[j] = rcall[j]
  BY <1>1, ReturnsIs
<1>3. PeersPart /\ CallsPart
  BY <1>2, CalmParts, CallParts, IdleIs
<1> QED
  BY <1>3, PartsKeep

\* A call that is not taking a session moves on beside a connection that may change flags.
LEMMA MoveHolds ==
  ASSUME RemoteSafe, HolderAttached, LeftKept, NEW k \in RCalls, NEW c \in SignInRecs, rcall' = [rcall EXCEPT ![k] = c],
         rcall[k].at \notin Taking, c.at # "claim", PeersPart, UNCHANGED session
  PROVE  HolderAttached'
<1>1. rcall'[k] = c /\ \A j \in RCalls \ {k} : rcall'[j] = rcall[j]
  BY CallEdit DEF RemoteSafe
<1>2. CallsPart
  BY <1>1, CallParts
<1> QED
  BY <1>2, SameParts, PartsKeep

LEMMA GateClaimsHolds ==
  ASSUME RemoteSafe, HolderAttached, LeftKept, NEW k \in RCalls, GateClaims(k)
  PROVE  HolderAttached'
<1>1. RemoteTyped /\ rcall[k].at = "gate" /\ rcall[k].p \in Peers /\ rcall[k] \in SignInRecs /\ peer[rcall[k].p] \in ConnRecs
      /\ rcall[k].verb \in SignInVerbs /\ UNCHANGED session
  BY CallOf DEF RemoteSafe, GateClaims, store
<1> PICK p \in Peers, q \in ConnRecs, o \in SignInRecs : p = rcall[k].p /\ q = peer[p] /\ o = rcall[k]
  BY <1>1
<1>2. CASE Set(p, Refusal(p)) /\ rcall' = [rcall EXCEPT ![k] = IdleCall]
  <2>1. Refusal(p) \in ConnRecs /\ Calm(q, Refusal(p))
    BY RefusalIs
  <2>2. Refusal(p).sess = q.sess /\ Refusal(p).at = q.at /\ (q.at = "open" /\ q.hung => Refusal(p).hung)
    BY <2>1 DEF Calm
  <2>3. PeersPart
    BY <1>1, <1>2, <2>1, <2>2, SetParts
  <2> QED
    BY <1>1, <1>2, <2>3, IdleIs, MoveHolds DEF Taking
<1>3. CASE Returns(k, TRUE)
  BY <1>1, <1>3, SameParts, ReturnHolds DEF Taking
<1>4. CASE /\ Set(p, [q EXCEPT !.busy = q.busy \/ q.sess = 0])
           /\ rcall' = [rcall EXCEPT ![k].at = Begins(o.verb), ![k].d = q.dev, ![k].pub = q.pend]
  <2> DEFINE r == [q EXCEPT !.busy = q.busy \/ q.sess = 0]
             c == [o EXCEPT !.at = Begins(o.verb), !.d = q.dev, !.pub = q.pend]
  <2>1. r \in ConnRecs /\ r.at = q.at /\ r.sess = q.sess /\ (q.hung => r.hung)
    BY DEF ConnRecs
  <2>2. Begins(o.verb) \in {"attest", "commit", "read"}
    BY <1>1 DEF Begins, SignInVerbs
  <2>3. c \in SignInRecs /\ c.at = Begins(o.verb)
    BY <2>2 DEF SignInRecs, CallStages, ConnRecs
  <2>4. Set(p, r)
    BY <1>4
  <2>5. rcall' = [rcall EXCEPT ![k] = c]
    BY <1>1, <1>4 DEF RemoteTyped
  <2> HIDE DEF c, r
  <2>6. PeersPart
    BY <1>1, <2>1, <2>4, SetParts
  <2> QED
    BY <1>1, <2>2, <2>3, <2>5, <2>6, MoveHolds DEF Taking
<1> QED
  BY <1>2, <1>3, <1>4 DEF GateClaims

LEMMA GateHolds ==
  ASSUME RemoteSafe, HolderAttached, LeftKept, NEW k \in RCalls, NEW p \in Peers, NEW verb, Gate(k, p, verb)
  PROVE  HolderAttached'
<1>1. RemoteTyped /\ rcall[k].at = "idle" /\ peer[p] \in ConnRecs /\ peer[p].at = "open" /\ UNCHANGED session
  BY DEF RemoteSafe, RemoteTyped, Gate, store
<1> PICK q \in ConnRecs : q = peer[p]
  BY <1>1
<1>2. CASE Set(p, [q EXCEPT !.hung = TRUE]) /\ UNCHANGED rcall
  <2>1. [q EXCEPT !.hung = TRUE] \in ConnRecs /\ [q EXCEPT !.hung = TRUE].sess = q.sess
        /\ [q EXCEPT !.hung = TRUE].at = q.at /\ [q EXCEPT !.hung = TRUE].hung = TRUE
    BY DEF ConnRecs
  <2>2. PeersPart
    BY <1>1, <1>2, <2>1, SetParts
  <2> QED
    BY <1>1, <1>2, <2>2, SameParts, PartsKeep
<1>3. CASE Set(p, Refusal(p)) /\ UNCHANGED rcall
  <2>1. Refusal(p) \in ConnRecs /\ Calm(q, Refusal(p))
    BY RefusalIs
  <2>2. Refusal(p).sess = q.sess /\ Refusal(p).at = q.at /\ (q.at = "open" /\ q.hung => Refusal(p).hung)
    BY <2>1 DEF Calm
  <2>3. PeersPart
    BY <1>1, <1>3, <2>1, <2>2, SetParts
  <2> QED
    BY <1>1, <1>3, <2>3, SameParts, PartsKeep
<1>4. CASE verb \in SignInVerbs /\ UNCHANGED peer
           /\ rcall' = [rcall EXCEPT ![k] = [IdleCall EXCEPT !.p = p, !.verb = verb, !.at = "gate"]]
  <2> DEFINE c == [IdleCall EXCEPT !.p = p, !.verb = verb, !.at = "gate"]
  <2>1. c \in SignInRecs /\ c.at = "gate"
    BY <1>4, IdleIs DEF SignInRecs, CallStages, IdleCall
  <2>2. \A x \in Peers : Calm(peer[x], peer'[x])
    BY <1>4 DEF Calm
  <2> HIDE DEF c
  <2> QED
    BY <1>1, <1>4, <2>1, <2>2, CalmParts, MoveHolds DEF Taking, c
<1> QED
  BY <1>2, <1>3, <1>4 DEF Gate

LEMMA AttestHolds ==
  ASSUME RemoteSafe, HolderAttached, LeftKept, NEW k \in RCalls,
         AttestProves(k) \/ \E pub \in AllPubs : AttestReads(k, pub)
  PROVE  HolderAttached'
<1>1. RemoteTyped /\ rcall[k].at \in {"attest", "prove"} /\ rcall[k].p \in Peers /\ rcall[k] \in SignInRecs
      /\ peer[rcall[k].p] \in ConnRecs /\ UNCHANGED session
  BY CallOf DEF RemoteSafe, AttestReads, AttestProves, store
<1> PICK p \in Peers, q \in ConnRecs, o \in SignInRecs : p = rcall[k].p /\ q = peer[p] /\ o = rcall[k]
  BY <1>1
<1>2. CASE Returns(k, TRUE)
  BY <1>1, <1>2, SameParts, ReturnHolds DEF Taking
<1>3. ASSUME NEW pub \in AllPubs, NEW d, rcall' = [rcall EXCEPT ![k].at = "prove", ![k].pub = pub, ![k].d = d],
             UNCHANGED peer
      PROVE  HolderAttached'
  <2>1. rcall'[k].at = "prove" /\ \A j \in RCalls \ {k} : rcall'[j] = rcall[j]
    BY <1>1, <1>3 DEF RemoteTyped, SignInRecs
  <2>2. \A x \in Peers : Calm(peer[x], peer'[x])
    BY <1>3 DEF Calm
  <2>3. CallsPart
    BY <1>1, <2>1, CallParts DEF Taking
  <2> QED
    BY <1>1, <2>2, <2>3, CalmParts, SameParts, PartsKeep
<1>4. CASE /\ Set(p, [q EXCEPT !.dev = o.d, !.busy = FALSE, !.pend = IF o.d = 0 THEN o.pub ELSE NoPub])
           /\ rcall' = [rcall EXCEPT ![k] = IdleCall]
  <2> DEFINE pend == IF o.d = 0 THEN o.pub ELSE NoPub
             r == [q EXCEPT !.dev = o.d, !.busy = FALSE, !.pend = pend]
  <2>1. pend \in AllPubs /\ o.d \in 0..MaxDevice
    BY DEF SignInRecs, AllPubs
  <2> HIDE DEF pend
  <2>2. r \in ConnRecs /\ r.at = q.at /\ r.sess = q.sess /\ (q.hung => r.hung)
    BY <2>1 DEF ConnRecs
  <2>3. Set(p, r)
    BY <1>4 DEF pend
  <2> HIDE DEF r
  <2>4. PeersPart
    BY <1>1, <2>2, <2>3, SetParts
  <2> QED
    BY <1>1, <1>4, <2>4, IdleIs, MoveHolds DEF Taking
<1>5. CASE AttestProves(k)
  BY <1>2, <1>4, <1>5 DEF AttestProves
<1>6. ASSUME NEW pub \in AllPubs, AttestReads(k, pub) PROVE HolderAttached'
  <2> DEFINE mine == {d \in LiveDevices : device[d].pub = pub}
             least == IF mine = {} THEN 0 ELSE Min(mine)
             proves == rcall' = [rcall EXCEPT ![k].at = "prove", ![k].pub = pub, ![k].d = least] /\ UNCHANGED peer
  <2>1. Returns(k, TRUE) \/ proves
    BY <1>6 DEF AttestReads
  <2> HIDE DEF least
  <2>2. proves => HolderAttached'
    BY <1>3
  <2> HIDE DEF proves
  <2> QED
    BY <1>2, <2>1, <2>2
<1> QED
  BY <1>5, <1>6

LEMMA LoginHolds ==
  ASSUME RemoteSafe, HolderAttached, LeftKept, NEW k \in RCalls, LoginRefused(k) \/ LoginCommits(k)
  PROVE  HolderAttached'
<1>1. RemoteTyped /\ rcall[k].at = "commit" /\ rcall[k].p \in Peers /\ rcall[k] \in SignInRecs
  BY CallOf DEF RemoteSafe, LoginRefused, LoginCommits
<1>2. CASE LoginRefused(k)
  BY <1>1, <1>2, SameParts, ReturnHolds DEF LoginRefused, Taking, store
<1>3. CASE LoginCommits(k)
  <2> PICK o \in SignInRecs : o = rcall[k]
    BY <1>1
  <2> PICK d \in Devices, s \in Sessions :
        /\ s = FreeSession
        /\ session' = [session EXCEPT ![s] = [st |-> "live", dev |-> d, conn |-> o.p, grace |-> FALSE]]
        /\ rcall' = [rcall EXCEPT ![k].at = "claim", ![k].s = s, ![k].d = d]
        /\ UNCHANGED peer
    BY <1>3 DEF LoginCommits
  <2>1. session[s].st = "none"
    BY FreeSessionIs
  <2>2. rcall'[k].p = o.p /\ rcall'[k].s = s /\ rcall'[k].old = o.old /\ \A j \in RCalls \ {k} : rcall'[j] = rcall[j]
    BY <1>1 DEF RemoteTyped, SignInRecs
  <2>3. session'[s].conn = o.p /\ \A r \in Sessions \ {s} : session'[r] = session[r]
    BY <1>1 DEF RemoteTyped
  <2>4. \A p \in Peers : (peer[p].at \in {"open", "over"} /\ ToldOff(p) => ToldOff(p)') /\ peer'[p].sess = peer[p].sess
    BY DEF ToldOff
  <2>5. \A j \in RCalls : rcall[j].at \in Taking => rcall'[j] = rcall[j]
    BY <1>1, <2>2 DEF Taking
  <2>6. \A j \in RCalls : rcall'[j].at = "claim" => rcall'[j] = rcall[j] \/ session'[rcall'[j].s].conn = rcall'[j].p
    BY <2>2, <2>3
  <2>7. \A r \in Sessions, q \in Peers : session[r].st # "none" /\ session[r].conn = q => session'[r].conn = q \/ Apart(q)'
    BY <2>1, <2>3
  <2> QED
    BY <2>4, <2>5, <2>6, <2>7, HoldersMove
<1> QED
  BY <1>2, <1>3

LEMMA SignInClaimsHolds ==
  ASSUME RemoteSafe, HolderAttached, LeftKept, NEW k \in RCalls, SignInClaims(k)
  PROVE  HolderAttached'
<1>1. RemoteTyped /\ rcall[k].at = "claim" /\ rcall[k].p \in Peers /\ rcall[k] \in SignInRecs
      /\ peer[rcall[k].p] \in ConnRecs /\ UNCHANGED session
  BY CallOf DEF RemoteSafe, SignInClaims, store
<1> PICK p \in Peers, q \in ConnRecs, o \in SignInRecs : p = rcall[k].p /\ q = peer[p] /\ o = rcall[k]
  BY <1>1
<1>2. \A r \in Sessions, x \in Peers : session[r].st # "none" /\ session[r].conn = x => session'[r].conn = x \/ Apart(x)'
  BY <1>1
<1>3. CASE At(k, "undo") /\ UNCHANGED peer /\ leftBehind' = leftBehind \union ({o.old} \ {NoPeer})
  <2>1. rcall'[k].at = "undo" /\ \A j \in RCalls \ {k} : rcall'[j] = rcall[j]
    BY <1>1, <1>3 DEF RemoteTyped, SignInRecs, At
  <2>2. \A x \in Peers : x # NoPeer
    BY RemoteAssumption DEF RemoteAssumption, NoPeer
  <2>3. \A x \in Peers : x = o.old => x \in leftBehind'
    BY <1>3, <2>2
  <2>5. \A j \in RCalls : rcall[j].at \in Taking =>
          \/ rcall'[j].at \in Taking /\ rcall'[j].old = rcall[j].old
          \/ \A x \in Peers : x = rcall[j].old /\ peer[x].at \in {"open", "over"}
                              => ToldOff(x)' \/ x \in leftBehind'
    BY <2>1, <2>3
  <2>6. \A x \in Peers : (peer[x].at \in {"open", "over"} /\ ToldOff(x) => ToldOff(x)') /\ peer'[x].sess = peer[x].sess
    BY <1>3 DEF ToldOff
  <2>7. \A j \in RCalls : rcall'[j].at = "claim" => rcall'[j] = rcall[j]
    BY <2>1
  <2> QED
    BY <1>2, <2>5, <2>6, <2>7, HoldersMove
<1>4. CASE /\ At(k, "register")
           /\ Set(p, [q EXCEPT !.sess = o.s, !.dev = o.d, !.pend = NoPub, !.enrolled = o.pub # NoPub])
  <2> DEFINE r == [q EXCEPT !.sess = o.s, !.dev = o.d, !.pend = NoPub, !.enrolled = o.pub # NoPub]
  <2>1. rcall'[k].at = "register" /\ rcall'[k].old = o.old /\ \A j \in RCalls \ {k} : rcall'[j] = rcall[j]
    BY <1>1, <1>4 DEF RemoteTyped, SignInRecs, At
  <2>2. r \in ConnRecs /\ r.at = q.at /\ r.sess = o.s /\ r.hung = q.hung
    <3> PICK s \in 0..MaxSession, d \in 0..MaxDevice, b \in BOOLEAN : s = o.s /\ d = o.d /\ b = (o.pub # NoPub)
      BY DEF SignInRecs
    <3> PICK none \in AllPubs : none = NoPub
      BY DEF AllPubs
    <3>1. r = [q EXCEPT !.sess = s, !.dev = d, !.pend = none, !.enrolled = b]
      OBVIOUS
    <3> HIDE DEF r
    <3>2. /\ r \in ConnRecs /\ r.at = q.at /\ r.gen = q.gen /\ r.end = q.end /\ r.sess = s /\ r.dev = d
          /\ r.enrolled = b /\ r.hung = q.hung /\ r.ending = q.ending /\ r.violated = q.violated
      BY <3>1 DEF ConnRecs
    <3> QED
      BY <3>2
  <2>3. Set(p, r)
    BY <1>4
  <2> HIDE DEF r
  <2>4. /\ \A x \in Peers \ {p} : peer'[x] = peer[x]
        /\ peer'[p].at = r.at /\ peer'[p].sess = r.sess /\ (r.at # "over" => peer'[p] = r)
    BY <1>1, <2>2, <2>3, SetIs
  <2>5. \A x \in Peers : peer[x].at \in {"open", "over"} /\ ToldOff(x) => ToldOff(x)'
    BY <2>2, <2>4 DEF ToldOff
  <2>6. \A x \in Peers : peer'[x].sess = peer[x].sess
          \/ \E j \in RCalls : rcall[j].at = "claim" /\ rcall[j].p = x /\ rcall[j].s = peer'[x].sess
    BY <1>1, <2>2, <2>4
  <2>7. \A j \in RCalls : /\ rcall[j].at \in Taking => rcall'[j].at \in Taking /\ rcall'[j].old = rcall[j].old
                          /\ rcall'[j].at = "claim" => rcall'[j] = rcall[j]
    BY <2>1 DEF Taking
  <2> QED
    BY <1>2, <2>5, <2>6, <2>7, HoldersMove
<1> QED
  BY <1>3, <1>4 DEF SignInClaims

LEMMA OnEndHolds ==
  ASSUME RemoteSafe, HolderAttached, LeftKept, NEW k \in RCalls, OnEnd(k)
  PROVE  HolderAttached'
<1>1. RemoteTyped /\ rcall[k].at = "register" /\ rcall[k].p \in Peers /\ rcall[k] \in SignInRecs
      /\ peer[rcall[k].p] \in ConnRecs /\ UNCHANGED session
  BY CallOf DEF RemoteSafe, OnEnd, store
<1> PICK p \in Peers, q \in ConnRecs, o \in SignInRecs : p = rcall[k].p /\ q = peer[p] /\ o = rcall[k]
  BY <1>1
<1> DEFINE e == IF q.at = "over" THEN "run" ELSE "kept"
           r == [q EXCEPT !.end = e]
<1>2. Set(p, r) /\ At(k, "close")
  BY DEF OnEnd
<1>3. r \in ConnRecs /\ r.at = q.at /\ r.sess = q.sess /\ r.hung = q.hung
  BY DEF ConnRecs
<1> HIDE DEF r
<1>4. PeersPart
  BY <1>1, <1>2, <1>3, SetParts
<1>5. rcall'[k].at = "close" /\ rcall'[k].old = o.old /\ \A j \in RCalls \ {k} : rcall'[j] = rcall[j]
  BY <1>1, <1>2 DEF RemoteTyped, SignInRecs, At
<1>6. CallsPart
  BY <1>1, <1>5 DEF CallsPart, Taking
<1> QED
  BY <1>1, <1>4, <1>6, SameParts, PartsKeep

LEMMA SignInUndoneHolds ==
  ASSUME RemoteSafe, HolderAttached, LeftKept, NEW k \in RCalls, SignInUndone(k)
  PROVE  HolderAttached'
<1>1. RemoteTyped /\ rcall[k].at = "undo" /\ rcall[k].p \in Peers /\ 0 \in 0..MaxSession
  BY CallOf, RemoteAssumption DEF RemoteSafe, SignInUndone, RemoteAssumption
<1> PICK p \in Peers : p = rcall[k].p
  BY <1>1
<1>2. Returns(k, TRUE) /\ DetachWrite(0, p)
  BY DEF SignInUndone
<1>3. ConnsPart
  <2> SUFFICES ASSUME NEW s \in Sessions PROVE session'[s].conn = session[s].conn
    BY DEF ConnsPart
  <2>1. CASE UNCHANGED session
    BY <2>1
  <2>2. CASE session' = Detached(0, p)
    <3> PICK z \in SessionRows : z = session[s]
      BY <1>1 DEF RemoteTyped
    <3>1. s # 0
      BY DEF Sessions
    <3>2. session'[s] = z \/ session'[s] = [z EXCEPT !.st = "ended"]
      BY <2>2, <3>1 DEF Detached
    <3>3. [z EXCEPT !.st = "ended"].conn = z.conn
      BY DEF SessionRows
    <3> QED
      BY <3>2, <3>3
  <2> QED
    BY <1>2, <2>1, <2>2 DEF DetachWrite
<1> QED
  BY <1>1, <1>2, <1>3, ReturnHolds DEF Taking

LEMMA SignInReturnsHolds ==
  ASSUME RemoteSafe, HolderAttached, LeftKept, NEW k \in RCalls, SignInReturns(k)
  PROVE  HolderAttached'
<1>1. RemoteTyped /\ rcall[k].at = "close" /\ rcall[k].p \in Peers /\ rcall[k] \in SignInRecs /\ UNCHANGED session
  BY CallOf DEF RemoteSafe, SignInReturns, store
<1> PICK p \in Peers, o \in SignInRecs : p = rcall[k].p /\ o = rcall[k]
  BY <1>1
<1>2. /\ rcall' = [rcall EXCEPT ![k] = IdleCall]
      /\ peer' = [q \in Peers |-> CASE q = p -> [peer[p] EXCEPT !.busy = FALSE]
                                    [] q # p /\ q = o.old /\ peer[q].at = "open" -> [peer[q] EXCEPT !.hung = TRUE]
                                    [] OTHER -> peer[q]]
  BY DEF SignInReturns
<1>3. rcall'[k] = IdleCall /\ \A j \in RCalls \ {k} : rcall'[j] = rcall[j]
  BY <1>1, <1>2, CallEdit, IdleIs
<1>4. o.old # NoPeer => o.old # p
  BY DEF RemoteSafe, CallsSound
<1>5. \A x \in Peers : x # NoPeer
  BY RemoteAssumption DEF RemoteAssumption, NoPeer
<1>6. ASSUME NEW q \in Peers
      PROVE  /\ peer'[q].sess = peer[q].sess /\ peer'[q].at = peer[q].at
             /\ peer[q].at = "open" /\ ToldOff(q) => ToldOff(q)'
             /\ q = o.old /\ peer[q].at = "open" => ToldOff(q)'
  <2> PICK r \in ConnRecs : r = peer[q]
    BY <1>1 DEF RemoteTyped
  <2>1. /\ [r EXCEPT !.busy = FALSE].sess = r.sess /\ [r EXCEPT !.busy = FALSE].at = r.at
        /\ [r EXCEPT !.busy = FALSE].hung = r.hung
        /\ [r EXCEPT !.hung = TRUE].sess = r.sess /\ [r EXCEPT !.hung = TRUE].at = r.at
        /\ [r EXCEPT !.hung = TRUE].hung
    BY DEF ConnRecs
  <2>2. /\ q = p => peer'[q] = [r EXCEPT !.busy = FALSE]
        /\ q # p /\ q = o.old /\ r.at = "open" => peer'[q] = [r EXCEPT !.hung = TRUE]
        /\ q # p /\ ~(q = o.old /\ r.at = "open") => peer'[q] = r
    BY <1>2
  <2>3. q = o.old => q # p
    BY <1>4, <1>5
  <2> QED
    BY <2>1, <2>2, <2>3 DEF ToldOff
<1>7. \A x \in Peers : peer[x].at \in {"open", "over"} /\ ToldOff(x) => ToldOff(x)'
  BY <1>6 DEF ToldOff
<1>8. \A x \in Peers : x = o.old /\ peer[x].at \in {"open", "over"} => ToldOff(x)'
  BY <1>6 DEF ToldOff
<1>9. \A j \in RCalls : rcall[j].at \in Taking =>
          \/ rcall'[j].at \in Taking /\ rcall'[j].old = rcall[j].old
          \/ \A x \in Peers : x = rcall[j].old /\ peer[x].at \in {"open", "over"} => ToldOff(x)'
  BY <1>3, <1>8
<1>10. \A j \in RCalls : rcall'[j].at = "claim" => rcall'[j] = rcall[j]
  BY <1>3, IdleIs
<1>11. \A r \in Sessions, x \in Peers : session[r].st # "none" /\ session[r].conn = x => session'[r].conn = x \/ Apart(x)'
  BY <1>1
<1> QED
  BY <1>6, <1>7, <1>9, <1>10, <1>11, HoldersMove

LEMMA ResumeReadsHolds ==
  ASSUME RemoteSafe, HolderAttached, LeftKept, NEW k \in RCalls, NEW s \in Sessions, ResumeReads(k, s)
  PROVE  HolderAttached'
<1>1. RemoteTyped /\ rcall[k].at = "read" /\ rcall[k] \in SignInRecs /\ UNCHANGED session
  BY CallOf DEF RemoteSafe, ResumeReads, store
<1>2. ASSUME NEW b \in BOOLEAN, Returns(k, b) PROVE HolderAttached'
  BY <1>1, <1>2, SameParts, ReturnHolds DEF Taking
<1>3. ASSUME NEW d, NEW q, rcall' = [rcall EXCEPT ![k].at = "take", ![k].s = s, ![k].d = d, ![k].old = q],
             UNCHANGED peer
      PROVE  HolderAttached'
  <2>1. rcall'[k].at = "take" /\ \A j \in RCalls \ {k} : rcall'[j] = rcall[j]
    BY <1>1, <1>3 DEF RemoteTyped, SignInRecs
  <2>2. \A x \in Peers : Calm(peer[x], peer'[x])
    BY <1>3 DEF Calm
  <2>3. CallsPart
    BY <1>1, <2>1, CallParts DEF Taking
  <2> QED
    BY <1>1, <2>2, <2>3, CalmParts, SameParts, PartsKeep
<1>4. \/ Returns(k, TRUE) \/ Returns(k, FALSE)
      \/ /\ rcall' = [rcall EXCEPT ![k].at = "take", ![k].s = s, ![k].d = peer[rcall[k].p].dev, ![k].old = session[s].conn]
         /\ UNCHANGED peer
  BY DEF ResumeReads
<1> QED
  BY <1>2, <1>3, <1>4

\* The connection the session is taken from is about to be told.
LEMMA ResumeTakesHolds ==
  ASSUME RemoteSafe, HolderAttached, LeftKept, NEW k \in RCalls, ResumeTakes(k)
  PROVE  HolderAttached'
<1>1. RemoteTyped /\ rcall[k].at = "take" /\ rcall[k].p \in Peers /\ rcall[k] \in SignInRecs
  BY CallOf DEF RemoteSafe, ResumeTakes
<1> PICK o \in SignInRecs : o = rcall[k]
  BY <1>1
<1>2. o.s \in Sessions /\ session[o.s] \in SessionRows
  BY <1>1 DEF RemoteSafe, CallsSound, RemoteTyped
<1>3. CASE Returns(k, FALSE) /\ UNCHANGED session
  BY <1>1, <1>3, SameParts, ReturnHolds DEF Taking
<1>4. CASE /\ session[o.s].conn = o.old
           /\ session' = [session EXCEPT ![o.s].conn = o.p, ![o.s].grace = FALSE]
           /\ At(k, "claim") /\ UNCHANGED peer
  <2>1. /\ rcall'[k].at = "claim" /\ rcall'[k].p = o.p /\ rcall'[k].s = o.s /\ rcall'[k].old = o.old
        /\ \A j \in RCalls \ {k} : rcall'[j] = rcall[j]
    BY <1>1, <1>4 DEF RemoteTyped, SignInRecs, At
  <2>2. session'[o.s].conn = o.p /\ \A r \in Sessions \ {o.s} : session'[r] = session[r]
    BY <1>1, <1>2, <1>4 DEF RemoteTyped, SessionRows
  <2>3. \A p \in Peers : (peer[p].at \in {"open", "over"} /\ ToldOff(p) => ToldOff(p)') /\ peer'[p].sess = peer[p].sess
    BY <1>4 DEF ToldOff
  <2>4. \A j \in RCalls : rcall[j].at \in Taking => rcall'[j] = rcall[j]
    BY <1>1, <2>1 DEF Taking
  <2>5. \A j \in RCalls : rcall'[j].at = "claim" => rcall'[j] = rcall[j] \/ session'[rcall'[j].s].conn = rcall'[j].p
    BY <2>1, <2>2
  <2>6. \A q \in Peers : q = o.old => Apart(q)'
    BY <2>1 DEF Apart
  <2>7. \A r \in Sessions, q \in Peers : session[r].st # "none" /\ session[r].conn = q => session'[r].conn = q \/ Apart(q)'
    BY <1>4, <2>2, <2>6
  <2> QED
    BY <2>3, <2>4, <2>5, <2>7, HoldersMove
<1> QED
  BY <1>3, <1>4 DEF ResumeTakes

\* What the operator and the clock write: no session moves, and a peer is only told more.
LEMMA ActsHold ==
  ASSUME RemoteSafe, HolderAttached, LeftKept, UNCHANGED rcall,
         \A q \in Peers : Calm(peer[q], peer'[q]),
         \A s \in Sessions : session'[s].conn = session[s].conn
  PROVE  HolderAttached'
<1>1. PeersPart
  BY CalmParts
<1>2. CallsPart
  BY SameParts
<1>3. ConnsPart
  BY DEF ConnsPart
<1> QED
  BY <1>1, <1>2, <1>3, PartsKeep

LEMMA OperatorHolds ==
  ASSUME RemoteSafe, HolderAttached, LeftKept,
         \/ \E s \in Sessions : GraceLapses(s)
         \/ RevokeSSHKey \/ DisableUser \/ \E d \in Devices : RevokeDevice(d)
  PROVE  HolderAttached'
<1>1. RemoteTyped /\ UNCHANGED rcall /\ UNCHANGED peer
  BY DEF RemoteSafe, GraceLapses, RevokeSSHKey, DisableUser, RevokeDevice
<1>2. \A q \in Peers : Calm(peer[q], peer'[q])
  BY <1>1 DEF Calm
<1>3. ASSUME NEW ds, session' = RevokedBy(ds) PROVE \A s \in Sessions : session'[s].conn = session[s].conn
  BY <1>1, <1>3, RevokedIs
<1>4. ASSUME NEW s \in Sessions, GraceLapses(s) PROVE \A x \in Sessions : session'[x].conn = session[x].conn
  <2> SUFFICES ASSUME NEW x \in Sessions PROVE session'[x].conn = session[x].conn
    OBVIOUS
  <2> PICK r \in SessionRows : r = session[s]
    BY <1>1 DEF RemoteTyped
  <2>1. session' = [session EXCEPT ![s] = [r EXCEPT !.grace = FALSE]]
    BY <1>4 DEF GraceLapses
  <2>2. [r EXCEPT !.grace = FALSE].conn = r.conn
    BY DEF SessionRows
  <2>3. (x # s => session'[x] = session[x]) /\ (x = s => session'[x] = [r EXCEPT !.grace = FALSE])
    BY <1>1, <2>1 DEF RemoteTyped
  <2> QED
    BY <2>2, <2>3
<1>5. DisableUser => \A s \in Sessions : session'[s].conn = session[s].conn
  <2> SUFFICES ASSUME DisableUser, NEW s \in Sessions PROVE session'[s].conn = session[s].conn
    OBVIOUS
  <2> PICK r \in SessionRows : r = session[s]
    BY <1>1 DEF RemoteTyped
  <2>1. session'[s] = IF r.st = "live" THEN [r EXCEPT !.st = "revoked"] ELSE r
    BY DEF DisableUser
  <2>2. [r EXCEPT !.st = "revoked"].conn = r.conn
    BY DEF SessionRows
  <2> QED
    BY <2>1, <2>2
<1>6. (RevokeSSHKey \/ \E d \in Devices : RevokeDevice(d)) => \E ds : session' = RevokedBy(ds)
  BY DEF RevokeSSHKey, RevokeDevice
<1>7. \A s \in Sessions : session'[s].conn = session[s].conn
  BY <1>3, <1>4, <1>5, <1>6
<1> QED
  BY <1>1, <1>2, <1>7, ActsHold

LEMMA SwitchHolds ==
  ASSUME RemoteSafe, HolderAttached, LeftKept,
         \/ \E own \in Peers \union {NoPeer} : EndRemote(own)
         \/ TurnOff \/ TurnOffHangsUp \/ TurnOn \/ ListenerFails
  PROVE  HolderAttached'
<1>1. RemoteTyped /\ UNCHANGED rcall /\ UNCHANGED session
  BY DEF RemoteSafe, EndRemote, TurnOff, TurnOffHangsUp, TurnOn, ListenerFails, store
<1>2. ASSUME NEW p \in Peers PROVE Calm(peer[p], peer'[p])
  <2> PICK q \in ConnRecs : q = peer[p]
    BY <1>1 DEF RemoteTyped
  <2> DEFINE b == q.hung \/ q.at = "open"
  <2>1. Calm(q, q) /\ Calm(q, [q EXCEPT !.ending = TRUE]) /\ Calm(q, [q EXCEPT !.hung = TRUE])
    BY DEF ConnRecs, Calm
  <2>2. Calm(q, [q EXCEPT !.hung = b])
    BY DEF ConnRecs, Calm
  <2>3. CASE UNCHANGED peer
    BY <2>1, <2>3
  <2>4. CASE TurnOffHangsUp
    <3>1. peer'[p] = [q EXCEPT !.hung = b]
      BY <2>4 DEF TurnOffHangsUp
    <3> QED
      BY <2>2, <3>1
  <2>5. ASSUME NEW own \in Peers \union {NoPeer}, EndRemote(own) PROVE Calm(q, peer'[p])
    <3>1. peer'[p] \in {q, [q EXCEPT !.ending = TRUE], [q EXCEPT !.hung = TRUE]}
      BY <2>5 DEF EndRemote
    <3> QED
      BY <2>1, <3>1
  <2>6. TurnOff \/ TurnOn \/ ListenerFails => UNCHANGED peer
    BY DEF TurnOff, TurnOn, ListenerFails
  <2> QED
    BY <2>3, <2>4, <2>5, <2>6
<1> QED
  BY <1>1, <1>2, ActsHold

\* With no call and no connection nobody holds a session.
LEMMA NobodyHolds ==
  ASSUME \A p \in Peers : peer[p].sess = 0, \A k \in RCalls : rcall[k] = IdleCall
  PROVE  HolderAttached
  BY IdleIs DEF HolderAttached

LEMMA RestartHolds ==
  ASSUME RemoteSafe, Restart
  PROVE  HolderAttached'
<1>1. \A p \in Peers : peer'[p].sess = 0
  <2> SUFFICES ASSUME NEW p \in Peers PROVE peer'[p].sess = 0
    OBVIOUS
  <2>1. peer'[p] = IF peer[p].at = "none" THEN peer[p] ELSE [NewPeer EXCEPT !.at = "over"]
    BY DEF Restart
  <2>2. peer[p].at = "none" => peer[p].sess = 0
    BY DEF RemoteSafe, PeersSound
  <2> QED
    BY <2>1, <2>2, NewPeerIs
<1>2. \A k \in RCalls : rcall'[k] = IdleCall
  BY DEF Restart
<1> QED
  BY <1>1, <1>2, IdleIs DEF HolderAttached

LEMMA HoldersStart == RemoteInit => HolderAttached
<1>1. RemoteInit => (\A p \in Peers : peer[p].sess = 0) /\ \A k \in RCalls : rcall[k] = IdleCall
  BY NewPeerIs DEF RemoteInit
<1> QED
  BY <1>1, NobodyHolds

LEMMA LeftStay == [RemoteNext]_remoteVars /\ ~Restart => LeftKept
<1> SUFFICES ASSUME [RemoteNext]_remoteVars, ~Restart PROVE LeftKept
  OBVIOUS
<1>1. ASSUME NEW p \in Peers, PeerStep(p) PROVE UNCHANGED leftBehind
  BY <1>1 DEF PeerStep, Handshake, Register, PeerEnded, EndRuns, RotateDevice, Logout
<1>2. ASSUME NEW k \in RCalls, NEW pub, AttestReads(k, pub) PROVE UNCHANGED leftBehind
  BY <1>2 DEF AttestReads
<1>3. ASSUME NEW k \in RCalls, NEW s, ResumeReads(k, s) PROVE UNCHANGED leftBehind
  BY <1>3 DEF ResumeReads
<1>4. ASSUME NEW k \in RCalls, SignInClaims(k) PROVE LeftKept
  BY <1>4 DEF SignInClaims, LeftKept
<1>5. ASSUME NEW k \in RCalls, \/ GateClaims(k) \/ AttestProves(k) \/ LoginRefused(k) \/ LoginCommits(k)
                               \/ SignInUndone(k) \/ OnEnd(k) \/ SignInReturns(k) \/ ResumeTakes(k)
      PROVE  UNCHANGED leftBehind
  BY <1>5 DEF GateClaims, AttestProves, LoginRefused, LoginCommits, SignInUndone, OnEnd, SignInReturns, ResumeTakes
<1>6. ASSUME NEW k \in RCalls, CallStep(k) PROVE LeftKept
  <2>1. CASE UNCHANGED leftBehind
    BY <2>1 DEF LeftKept
  <2> QED
    BY <1>2, <1>3, <1>4, <1>5, <1>6, <2>1 DEF CallStep
<1>7. ASSUME NEW k \in RCalls, NEW p \in Peers, NEW verb, Gate(k, p, verb) PROVE UNCHANGED leftBehind
  BY <1>7 DEF Gate
<1>8. ASSUME \/ \E s \in Sessions : GraceLapses(s)
             \/ RevokeSSHKey \/ DisableUser \/ \E d \in Devices : RevokeDevice(d)
      PROVE  UNCHANGED leftBehind
  BY <1>8 DEF GraceLapses, RevokeSSHKey, DisableUser, RevokeDevice
<1>9. ASSUME \/ \E own \in Peers \union {NoPeer} : EndRemote(own)
             \/ TurnOff \/ TurnOffHangsUp \/ TurnOn \/ ListenerFails
      PROVE  UNCHANGED leftBehind
  BY <1>9 DEF EndRemote, TurnOff, TurnOffHangsUp, TurnOn, ListenerFails
<1>10. CASE UNCHANGED leftBehind
  BY <1>10 DEF LeftKept
<1>11. CASE UNCHANGED remoteVars
  BY <1>10, <1>11 DEF remoteVars
<1> QED
  BY <1>1, <1>6, <1>7, <1>8, <1>9, <1>10, <1>11 DEF RemoteNext

LEMMA HoldersStay == RemoteSafe /\ HolderAttached /\ [RemoteNext]_remoteVars => HolderAttached'
<1> SUFFICES ASSUME RemoteSafe, HolderAttached, [RemoteNext]_remoteVars, ~Restart PROVE HolderAttached'
  BY RestartHolds
<1> LeftKept
  BY LeftStay
<1>1. CASE UNCHANGED remoteVars
  BY <1>1, ActsHold DEF remoteVars, Calm
<1>2. ASSUME NEW p \in Peers, PeerStep(p) PROVE HolderAttached'
  BY <1>2, PeerStepHolds
<1>3. ASSUME NEW k \in RCalls, CallStep(k) PROVE HolderAttached'
  <2>1. ASSUME NEW pub \in Pubs \union {device[d].pub : d \in LiveDevices}, AttestReads(k, pub) PROVE HolderAttached'
    <3>1. pub \in AllPubs
      BY DEF RemoteSafe, RemoteTyped, DeviceRows, LiveDevices, AllPubs
    <3> QED
      BY <2>1, <3>1, AttestHolds
  <2>2. ASSUME NEW s \in Sessions, ResumeReads(k, s) PROVE HolderAttached'
    BY <2>2, ResumeReadsHolds
  <2> QED
    BY <1>3, <2>1, <2>2, GateClaimsHolds, AttestHolds, LoginHolds, SignInClaimsHolds, SignInUndoneHolds, OnEndHolds,
       SignInReturnsHolds, ResumeTakesHolds DEF CallStep
<1>4. ASSUME NEW k \in RCalls, NEW p \in Peers, NEW verb \in RVerbs, Gate(k, p, verb) PROVE HolderAttached'
  BY <1>4, GateHolds
<1>5. ASSUME NEW s \in Sessions, GraceLapses(s) PROVE HolderAttached'
  BY <1>5, OperatorHolds
<1>6. ASSUME RevokeSSHKey \/ DisableUser \/ \E d \in Devices : RevokeDevice(d) PROVE HolderAttached'
  BY <1>6, OperatorHolds
<1>7. ASSUME NEW own \in Peers \union {NoPeer}, EndRemote(own) PROVE HolderAttached'
  BY <1>7, SwitchHolds
<1>8. ASSUME TurnOff \/ TurnOffHangsUp \/ TurnOn \/ ListenerFails PROVE HolderAttached'
  BY <1>8, SwitchHolds
<1> QED
  BY <1>1, <1>2, <1>3, <1>4, <1>5, <1>6, <1>7, <1>8 DEF RemoteNext

\* Two who hold one session cannot both be attached to it.
LEMMA HoldersExclude == HolderAttached => TakeoverIsExclusive
<1> SUFFICES ASSUME HolderAttached, NEW p \in Peers, NEW q \in Peers, p # q, peer[p].sess # 0, peer[p].sess = peer[q].sess
             PROVE  \/ \E r \in {p, q} : peer[r].hung \/ peer[r].at = "over" \/ r \in leftBehind
                    \/ \E k \in RCalls : rcall[k].at \in {"claim", "register", "close"} /\ rcall[k].old \in {p, q}
  BY DEF TakeoverIsExclusive
<1>1. Apart(p) \/ Apart(q)
  BY DEF HolderAttached
<1> QED
  BY <1>1 DEF Apart, ToldOff

\* Whatever sign-ins, ends, revocations, the switch and restarts do among each other: an ended
\* connection keeps no session but through a failed write, every admission is given back
\* once, a session taken over serves one connection but where the resume that took it was
\* undone, a revoked device, key or user has no live session and its connections hang up, a
\* key has one device, and Remote Control off leaves nobody on (core/remote,
\* rpc/remote_signin.go).
THEOREM RemoteAlwaysStands == RemoteSpec => []RemoteStands
<1>1. RemoteHolds /\ TakeoverIsExclusive => RemoteStands
  BY DEF RemoteHolds, RemoteStands
<1> QED
  BY <1>1, RemoteStarts, RemoteMoves, RemoteSafeHolds, HoldersStart, HoldersStay, HoldersExclude, PTL DEF RemoteSpec

\* A session keeps its connection, goes to another, or was of a connection that is over.
ConnMoves(s) ==
  \/ session'[s].conn = session[s].conn
  \/ session'[s].conn # NoPeer
  \/ session[s].conn \in Peers /\ peer[session[s].conn].at = "over"

LEMMA DetachMoves ==
  ASSUME RemoteTyped, NEW p \in Peers, NEW z, DetachWrite(z, p), z = 0 \/ peer[p].at = "over", NEW s \in Sessions
  PROVE  ConnMoves(s)
<1>1. CASE UNCHANGED session
  BY <1>1 DEF ConnMoves
<1>2. CASE session' = Detached(z, p)
  <2> PICK r \in SessionRows : r = session[s]
    BY DEF RemoteTyped
  <2>1. /\ s = z /\ r.conn = p => session'[s] = [r EXCEPT !.conn = NoPeer, !.grace = TRUE]
        /\ s # z /\ r.conn = p => session'[s] = [r EXCEPT !.st = "ended"]
        /\ r.conn # p => session'[s] = r
    BY <1>2 DEF Detached
  <2>2. [r EXCEPT !.st = "ended"].conn = r.conn
    BY DEF SessionRows
  <2>3. s # 0
    BY DEF Sessions
  <2> QED
    BY <2>1, <2>2, <2>3 DEF ConnMoves
<1> QED
  BY <1>1, <1>2 DEF DetachWrite

LEMMA ConnsMove ==
  ASSUME RemoteSafe, RemoteNext, NEW s \in Sessions
  PROVE  ConnMoves(s)
<1>1. RemoteTyped /\ NoPeer \notin Peers
  BY RemoteAssumption DEF RemoteSafe, RemoteAssumption, NoPeer
<1> PICK z \in SessionRows : z = session[s]
  BY <1>1 DEF RemoteTyped
<1>2. [z EXCEPT !.st = "ended"].conn = z.conn /\ [z EXCEPT !.st = "revoked"].conn = z.conn
      /\ [z EXCEPT !.grace = FALSE].conn = z.conn
  BY DEF SessionRows
<1>3. CASE UNCHANGED session
  BY <1>3 DEF ConnMoves
<1>4. ASSUME NEW ds, session' = RevokedBy(ds) PROVE ConnMoves(s)
  BY <1>1, <1>4, RevokedIs DEF ConnMoves
<1>5. ASSUME NEW p \in Peers, EndRuns(p) PROVE ConnMoves(s)
  <2>1. DetachWrite(peer[p].sess, p) /\ peer[p].at = "over"
    BY <1>5 DEF EndRuns, RemoteSafe, PeersSound
  <2> QED
    BY <1>1, <2>1, DetachMoves
<1>6. ASSUME NEW p \in Peers, Logout(p) PROVE ConnMoves(s)
  <2>1. session'[s] = z \/ session'[s] = [z EXCEPT !.st = "ended"]
    BY <1>1, <1>6 DEF Logout, RemoteTyped
  <2> QED
    BY <1>2, <2>1 DEF ConnMoves
<1>7. ASSUME NEW k \in RCalls, SignInUndone(k) PROVE ConnMoves(s)
  <2>1. rcall[k].p \in Peers /\ DetachWrite(0, rcall[k].p)
    BY <1>7, CallOf DEF SignInUndone
  <2> QED
    BY <1>1, <2>1, DetachMoves
<1>8. ASSUME NEW k \in RCalls, LoginCommits(k) PROVE ConnMoves(s)
  <2>1. rcall[k].p \in Peers
    BY <1>8, CallOf DEF LoginCommits
  <2> PICK d : session' = [session EXCEPT ![FreeSession] = [st |-> "live", dev |-> d, conn |-> rcall[k].p, grace |-> FALSE]]
    BY <1>8 DEF LoginCommits
  <2>2. session'[s] = z \/ session'[s].conn = rcall[k].p
    BY <1>1 DEF RemoteTyped
  <2> QED
    BY <1>1, <2>1, <2>2 DEF ConnMoves
<1>9. ASSUME NEW k \in RCalls, ResumeTakes(k) PROVE ConnMoves(s)
  <2>1. rcall[k].p \in Peers
    BY <1>9, CallOf DEF ResumeTakes
  <2> PICK p \in Peers : p = rcall[k].p
    BY <2>1
  <2> PICK x : x = rcall[k].s
    OBVIOUS
  <2>2. UNCHANGED session \/ session' = [session EXCEPT ![x].conn = p, ![x].grace = FALSE]
    BY <1>9 DEF ResumeTakes
  <2>3. session'[s] = z \/ session'[s] = [z EXCEPT !.conn = p, !.grace = FALSE]
    <3>1. CASE session' = [session EXCEPT ![x].conn = p, ![x].grace = FALSE] /\ x = s
      <4>1. session' = [session EXCEPT ![s] = [session[s] EXCEPT !.conn = p, !.grace = FALSE]]
        BY <1>1, <3>1 DEF RemoteTyped
      <4> QED
        BY <1>1, <4>1 DEF RemoteTyped
    <3>2. CASE session' = [session EXCEPT ![x].conn = p, ![x].grace = FALSE] /\ x # s
      BY <1>1, <3>2 DEF RemoteTyped
    <3> QED
      BY <2>2, <3>1, <3>2
  <2>4. [z EXCEPT !.conn = p, !.grace = FALSE].conn = p
    BY DEF SessionRows
  <2> QED
    BY <1>1, <2>3, <2>4 DEF ConnMoves
<1>10. ASSUME NEW x \in Sessions, GraceLapses(x) PROVE ConnMoves(s)
  <2>1. session'[s] = z \/ session'[s] = [z EXCEPT !.grace = FALSE]
    BY <1>1, <1>10 DEF GraceLapses, RemoteTyped
  <2> QED
    BY <1>2, <2>1 DEF ConnMoves
<1>11. CASE DisableUser
  <2>1. session'[s] = z \/ session'[s] = [z EXCEPT !.st = "revoked"]
    BY <1>11 DEF DisableUser
  <2> QED
    BY <1>2, <2>1 DEF ConnMoves
<1>12. CASE RevokeSSHKey \/ Restart \/ \E d \in Devices : RevokeDevice(d)
  <2>1. \E ds : session' = RevokedBy(ds)
    BY <1>12 DEF RevokeSSHKey, Restart, RevokeDevice
  <2> QED
    BY <1>4, <2>1
<1>13. ASSUME NEW p \in Peers, PeerStep(p) PROVE ConnMoves(s)
  <2>1. Handshake(p) \/ Register(p) \/ PeerEnded(p) \/ RotateDevice(p) => UNCHANGED session
    BY DEF Handshake, Register, PeerEnded, RotateDevice, store
  <2> QED
    BY <1>3, <1>5, <1>6, <1>13, <2>1 DEF PeerStep
<1>14. ASSUME NEW k \in RCalls, CallStep(k) PROVE ConnMoves(s)
  <2>1. \A pub : AttestReads(k, pub) => UNCHANGED session
    BY DEF AttestReads, store
  <2>2. \A x : ResumeReads(k, x) => UNCHANGED session
    BY DEF ResumeReads, store
  <2>3. GateClaims(k) \/ AttestProves(k) \/ LoginRefused(k) \/ SignInClaims(k) \/ OnEnd(k) \/ SignInReturns(k)
          => UNCHANGED session
    BY DEF GateClaims, AttestProves, LoginRefused, SignInClaims, OnEnd, SignInReturns, store
  <2> QED
    BY <1>3, <1>7, <1>8, <1>9, <1>14, <2>1, <2>2, <2>3 DEF CallStep
<1>15. (\E k \in RCalls, p \in Peers, verb \in RVerbs : Gate(k, p, verb)) => UNCHANGED session
  BY DEF Gate, store
<1>16. (\E own \in Peers \union {NoPeer} : EndRemote(own)) \/ TurnOff \/ TurnOffHangsUp \/ TurnOn \/ ListenerFails
          => UNCHANGED session
  BY DEF EndRemote, TurnOff, TurnOffHangsUp, TurnOn, ListenerFails, store
<1> QED
  BY <1>3, <1>10, <1>11, <1>12, <1>13, <1>14, <1>15, <1>16 DEF RemoteNext

\* Only the end of the connection a session is attached to detaches it: not the end of one it
\* was taken from (DetachRemoteSession).
THEOREM DetachAlwaysSpares == RemoteSpec => [][DetachSparesTheTaken]_remoteVars
<1>1. RemoteSafe /\ [RemoteNext]_remoteVars => [DetachSparesTheTaken]_remoteVars
  <2> SUFFICES ASSUME RemoteSafe, RemoteNext, NEW s \in Sessions, session[s].conn # NoPeer, session'[s].conn = NoPeer
               PROVE  peer[session[s].conn].at = "over"
    BY DEF DetachSparesTheTaken
  <2>1. ConnMoves(s)
    BY ConnsMove
  <2> QED
    BY <2>1 DEF ConnMoves
<1> QED
  BY <1>1, RemoteAlwaysSafe, PTL DEF RemoteSpec
=============================================================================
