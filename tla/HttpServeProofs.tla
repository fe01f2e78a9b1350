---------------------------- MODULE HttpServeProofs ----------------------------
(***************************************************************************)
(* The API process for any credentials files, grants, callers, requests    *)
(* and restarts.                                                           *)
(*                                                                         *)
(* StoreInv is about the loop of NewStore: the store holds the entries it  *)
(* has gone through, each as it was filed, and nothing else.  That an      *)
(* entry is refused when its token is taken is what keeps the earlier ones *)
(* as they were filed.                                                     *)
(***************************************************************************)
EXTENDS HttpServe, TLAPS

StoreInv ==
    /\ Up => /\ \A i \in 1..loaded :
                   WellFormed(file[i]) /\ tokens[file[i].token] = IdentityOf(file[i])
             /\ \A t \in Texts : tokens[t] # Nobody => \E i \in 1..loaded : file[i].token = t
    /\ stage \in {"starting", "serving", "draining"} => loaded = Len(file) /\ file # <<>>

RequestInv ==
    /\ errc = "closed" => stage = "draining"
    /\ stage = "draining" => ctxDone
    /\ \A r \in Requests : req[r] \in {"read", "handling"} => call[r] \in Calls
    /\ \A r \in Requests : req[r] = "handling" =>
          Turned(tokens, call[r]) = 0 /\ caller[r] = CallerOf(tokens, call[r])

IInv == HttpTypeOK /\ StoreInv /\ RequestInv

-----------------------------------------------------------------------------
(* The credentials. *)

\* A well-formed entry has an identity.
LEMMA WellFormedIdentity ==
    ASSUME NEW e \in Entries, WellFormed(e)
    PROVE  IdentityOf(e) \in Identities /\ IdentityOf(e) # Nobody
<1>1. e.subject \in Subjects /\ e.org \in Orgs /\ e.role \in {RoleOperator, RoleAdmin}
  BY DEF Entries, WellFormed, Valid
<1> QED
  BY <1>1, AccessAssumption DEF IdentityOf, Identities

\* Whoever is looked up in a store of identities is one of them or nobody.
LEMMA LookupType ==
    ASSUME NEW store \in [Texts -> Identities \union {Nobody}],
           NEW t \in Texts
    PROVE  Lookup(store, t) \in Identities \union {Nobody}
BY DEF Lookup

\* The token a call offers.
LEMMA OfferedToken ==
    ASSUME NEW c \in Calls
    PROVE  BearerToken(c.header) \in Texts
BY HttpAssumption DEF BearerToken, Texts

\* An answer of the guard is one of its refusals or none.
LEMMA TurnedType ==
    ASSUME NEW store, NEW c
    PROVE  Turned(store, c) \in {0, 401, 403, 404}
BY DEF Turned, Refusal

-----------------------------------------------------------------------------
(* The invariant. *)

\* Whatever the process does when it ends, nothing of it is left.
LEMMA ExitKeeps ==
    ASSUME IInv, NEW how \in {"ok", "error", "killed"}, Exit(how)
    PROVE  IInv'
<1> USE DEF IInv, HttpTypeOK, Exit
<1>1. /\ req' \in [Requests ->
                     {"new", "dialled", "read", "handling", "answered", "dropped", "cut"}]
      /\ \A r \in Requests : req'[r] \notin {"dialled", "read", "handling"}
  OBVIOUS
<1>2. Connected' = {}
  BY <1>1 DEF Connected
<1>5. HttpTypeOK'
  BY <1>1, <1>2
<1>3. StoreInv'
  BY DEF StoreInv, Up
<1>4. RequestInv'
  BY <1>1 DEF RequestInv
<1> QED
  BY <1>3, <1>4, <1>5

\* IInv holds throughout.
LEMMA Invariant == HttpSpec => []IInv
<1>1. HttpInit => IInv
  <2> SUFFICES ASSUME HttpInit PROVE IInv
    OBVIOUS
  <2> USE DEF HttpInit
  <2>1. starts \in 0..MaxStarts
    BY HttpAssumption
  <2>2. file \in Seq(Entries) /\ loaded \in 0..Len(file)
    OBVIOUS
  <2>3. tokens \in [Texts -> Identities \union {Nobody}]
    BY DEF EmptyStore
  <2>4. HttpTypeOK
    BY <2>1, <2>2, <2>3 DEF HttpTypeOK, Connected
  <2>5. StoreInv /\ RequestInv
    BY DEF StoreInv, RequestInv, Up
  <2> QED
    BY <2>4, <2>5 DEF IInv
<1>2. IInv /\ [HttpNext]_vars => IInv'
  <2> SUFFICES ASSUME IInv, [HttpNext]_vars PROVE IInv'
    OBVIOUS
  <2> USE DEF HttpTypeOK
  <2>1. CASE Start
    <3>1. file' \in Seq(Entries) /\ Len(file') \in Nat
      BY <2>1, HttpAssumption DEF Start
    <3>2. tokens' \in [Texts -> Identities \union {Nobody}]
      BY <2>1 DEF Start, EmptyStore
    <3>3. starts' \in 0..MaxStarts
      BY <2>1, HttpAssumption DEF Start, IInv
    <3>4. \A r \in Requests : req[r] \notin {"dialled", "read", "handling"}
      BY <2>1 DEF Start, Up, IInv, Connected
    <3>5. HttpTypeOK'
      BY <2>1, <3>1, <3>2, <3>3 DEF Start, Up, IInv, requestVars, Connected
    <3>6. StoreInv'
      BY <2>1 DEF Start, StoreInv, EmptyStore
    <3>7. RequestInv'
      BY <2>1, <3>4 DEF Start, Up, IInv, RequestInv, requestVars
    <3> QED
      BY <3>5, <3>6, <3>7 DEF IInv
  <2>2. CASE LoadEntry
    <3>1. PICK n, e : n = loaded + 1 /\ e = file[n]
      OBVIOUS
    <3>2. /\ loaded \in Nat /\ n \in 1..Len(file) /\ loaded' = n /\ file' = file
          /\ e \in Entries /\ stage = "loading" /\ stage' = "loading"
      BY <2>2, <3>1 DEF LoadEntry, IInv
    <3>3. /\ WellFormed(e) /\ tokens[e.token] = Nobody /\ e.token \in Texts
          /\ tokens' = [tokens EXCEPT ![e.token] = IdentityOf(e)]
      BY <2>2, <3>1, <3>2 DEF LoadEntry, Takes, With, Entries
    <3>4. IdentityOf(e) \in Identities /\ IdentityOf(e) # Nobody
      BY <3>2, <3>3, WellFormedIdentity
    <3>5. HttpTypeOK'
      BY <2>2, <3>2, <3>3, <3>4 DEF LoadEntry, IInv, requestVars, Connected
    <3>6. \A i \in 1..n : i # n => i \in 1..loaded
      BY <3>1, <3>2
    <3>7. ASSUME NEW i \in 1..n
          PROVE  WellFormed(file[i]) /\ tokens'[file[i].token] = IdentityOf(file[i])
      <4>1. CASE i = n
        BY <3>1, <3>3, <4>1 DEF IInv
      <4>2. CASE i # n
        <5>1. WellFormed(file[i]) /\ tokens[file[i].token] = IdentityOf(file[i])
          BY <3>2, <3>6, <4>2 DEF IInv, StoreInv, Up
        <5>2. file[i] \in Entries
          BY <3>2 DEF IInv
        <5>3. tokens[file[i].token] # Nobody /\ file[i].token \in Texts
          BY <5>1, <5>2, WellFormedIdentity DEF Entries
        <5> QED
          BY <3>3, <5>1, <5>3 DEF IInv
      <4> QED
        BY <4>1, <4>2
    <3>8. ASSUME NEW t \in Texts, tokens'[t] # Nobody
          PROVE  \E i \in 1..n : file[i].token = t
      <4>1. CASE t = e.token
        BY <3>1, <3>2, <4>1
      <4>2. CASE t # e.token
        <5>1. PICK i \in 1..loaded : file[i].token = t
          BY <3>2, <3>3, <3>8, <4>2 DEF IInv, StoreInv, Up
        <5>2. i \in 1..n
          BY <3>1, <3>2
        <5> QED
          BY <5>1, <5>2
      <4> QED
        BY <4>1, <4>2
    <3>9. StoreInv'
      BY <3>2, <3>7, <3>8 DEF StoreInv
    <3>10. RequestInv'
      <4>1. \A r \in Requests : req[r] \notin {"dialled", "read", "handling"}
        BY <3>2 DEF IInv, Connected
      <4> QED
        BY <2>2, <4>1 DEF LoadEntry, IInv, RequestInv, requestVars
    <3> QED
      BY <3>5, <3>9, <3>10 DEF IInv
  <2>3. CASE RefuseFile \/ StartFails \/ SelectError \/ Drain
    BY <2>3, ExitKeeps DEF RefuseFile, StartFails, SelectError, Drain, DrainEnds, DrainExpires
  <2>4. CASE Signal
    <3>1. CASE stage = "loading" /\ Exit("killed")
      BY <3>1, ExitKeeps
    <3>2. CASE /\ ctxDone' = TRUE
               /\ UNCHANGED <<stage, exit, starts, file, loaded, tokens, listener, errc,
                             requestVars>>
      <4>1. Connected' = Connected
        BY <3>2 DEF Connected, requestVars
      <4>2. HttpTypeOK'
        BY <3>2, <4>1 DEF IInv, requestVars
      <4>3. StoreInv' /\ RequestInv'
        BY <3>2 DEF IInv, StoreInv, RequestInv, Up, requestVars
      <4> QED
        BY <4>2, <4>3 DEF IInv
    <3> QED
      BY <2>4, <3>1, <3>2 DEF Signal
  <2>5. CASE Notify \/ Serve \/ Listen \/ ListenFails \/ SelectDone
    <3>0. CASE Notify \/ Serve
      <4>1. \A r \in Requests : req[r] \notin {"dialled", "read", "handling"}
        BY <3>0 DEF Notify, Serve, IInv, Connected
      <4> QED
        BY <3>0, <4>1 DEF Notify, Serve, IInv, StoreInv, RequestInv, Up, Connected, requestVars
    <3>1. CASE Listen \/ ListenFails
      BY <3>1 DEF Listen, ListenFails, IInv, StoreInv, RequestInv, Up, Connected, requestVars
    <3>2. CASE SelectDone
      BY <3>2 DEF SelectDone, IInv, StoreInv, RequestInv, Up, Connected, requestVars
    <3> QED
      BY <2>5, <3>0, <3>1, <3>2
  <2>6. ASSUME NEW r \in Requests,
               \/ Dial(r) \/ Drop(r) \/ TurnAway(r) \/ Admit(r) \/ Answer(r)
               \/ \E c \in Calls : Read(r, c)
        PROVE  IInv'
    <3>1. UNCHANGED processVars /\ Connected' \subseteq Connected \union {r}
      BY <2>6 DEF Dial, Drop, TurnAway, Admit, Answer, Read, Connected, IInv
    <3>2. stage \notin {"down", "loading", "starting"}
      BY <2>6 DEF Dial, Drop, TurnAway, Admit, Answer, Read, Connected, IInv
    <3>3. StoreInv'
      BY <3>1 DEF IInv, StoreInv, Up, processVars
    <3>4. CASE Dial(r) \/ Drop(r) \/ Answer(r)
      <4>1. CASE Dial(r)
        BY <3>1, <3>2, <3>3, <4>1 DEF Dial, IInv, RequestInv, processVars
      <4>2. CASE Drop(r)
        BY <3>1, <3>2, <3>3, <4>2 DEF Drop, IInv, RequestInv, processVars
      <4>3. CASE Answer(r)
        BY <3>1, <3>2, <3>3, <4>3 DEF Answer, IInv, RequestInv, processVars
      <4> QED
        BY <3>4, <4>1, <4>2, <4>3
    <3>5. CASE TurnAway(r)
      <4>1. Turned(tokens, call[r]) \in {0, 200, 401, 403, 404}
        BY TurnedType
      <4> QED
        BY <3>1, <3>2, <3>3, <3>5, <4>1 DEF TurnAway, IInv, RequestInv, processVars
    <3>6. CASE Admit(r)
      <4>1. call[r] \in Calls /\ tokens \in [Texts -> Identities \union {Nobody}]
        BY <3>6 DEF Admit, IInv, RequestInv
      <4>2. CallerOf(tokens, call[r]) \in Identities \union {Nobody}
        BY <4>1, OfferedToken, LookupType DEF CallerOf
      <4> QED
        BY <3>1, <3>2, <3>3, <3>6, <4>1, <4>2 DEF Admit, IInv, RequestInv, processVars
    <3>7. ASSUME NEW c \in Calls, Read(r, c)
          PROVE  IInv'
      BY <3>1, <3>2, <3>3, <3>7 DEF Read, IInv, RequestInv, processVars
    <3> QED
      BY <2>6, <3>4, <3>5, <3>6, <3>7
  <2>7. CASE UNCHANGED vars
    BY <2>7 DEF vars, processVars, requestVars, IInv, StoreInv, RequestInv, Up, Connected
  <2> QED
    BY <2>1, <2>2, <2>3, <2>4, <2>5, <2>6, <2>7 DEF HttpNext, StartUp, Select
<1> QED
  BY <1>1, <1>2, PTL DEF HttpSpec

-----------------------------------------------------------------------------
(* The results. *)

\* serve.go and authn.go: every variable keeps its type, so no identity has a
\* role that is not known.
THEOREM HttpTypeCorrect == HttpSpec => []HttpTypeOK
<1>1. IInv => HttpTypeOK
  BY DEF IInv
<1> QED
  BY <1>1, Invariant, PTL

\* NewStore: what it takes, it takes whole.
THEOREM CredentialsWork == HttpSpec => []EveryCredentialWorks
<1>1. IInv => EveryCredentialWorks
  <2> SUFFICES ASSUME IInv, stage \in {"serving", "draining"}
               PROVE  /\ file # <<>>
                      /\ \A i \in 1..Len(file) :
                            Lookup(tokens, file[i].token) =
                               IF file[i].token = Blank THEN Nobody ELSE IdentityOf(file[i])
    BY DEF EveryCredentialWorks
  <2>1. /\ file # <<>>
        /\ \A i \in 1..Len(file) : tokens[file[i].token] = IdentityOf(file[i])
    BY DEF IInv, HttpTypeOK, StoreInv, Up
  <2> QED
    BY <2>1 DEF Lookup
<1> QED
  BY <1>1, Invariant, PTL

\* The guard lets a call pass to a handler only as its credential was filed.
THEOREM AdmittedOnlyAsFiled == HttpSpec => []AdmittedAsFiled
<1>1. IInv => AdmittedAsFiled
  <2> SUFFICES ASSUME IInv, NEW r \in Requests, req[r] = "handling",
                      call[r].route \notin Public
               PROVE  LET filed == {i \in 1..Len(file) :
                                       file[i].token = BearerToken(call[r].header)}
                      IN  /\ filed # {}
                          /\ BearerToken(call[r].header) # Blank
                          /\ \A i \in filed :
                                /\ caller[r] = IdentityOf(file[i])
                                /\ file[i].role \in Grants[call[r].route]
    BY DEF AdmittedAsFiled
  <2> DEFINE t == BearerToken(call[r].header)
             id == Lookup(tokens, t)
  <2>1. /\ stage \in {"serving", "draining"} /\ loaded = Len(file)
        /\ file \in Seq(Entries)
    BY DEF IInv, HttpTypeOK, Connected, StoreInv
  <2>2. call[r] \in Calls /\ Turned(tokens, call[r]) = 0 /\ caller[r] = CallerOf(tokens, call[r])
    BY DEF IInv, RequestInv
  <2>3. id # Nobody /\ caller[r] = id /\ id.role \in Grants[call[r].route]
    BY <2>2 DEF Turned, Refusal, CallerOf
  <2>4. t \in Texts /\ t # Blank /\ id = tokens[t]
    BY <2>2, <2>3, OfferedToken DEF Lookup
  <2>5. \E i \in 1..Len(file) : file[i].token = t
    BY <2>1, <2>3, <2>4 DEF IInv, StoreInv, Up
  <2>6. \A i \in 1..Len(file) : tokens[file[i].token] = IdentityOf(file[i])
    BY <2>1 DEF IInv, StoreInv, Up
  <2>7. \A i \in 1..Len(file) : IdentityOf(file[i]).role = file[i].role
    BY DEF IdentityOf
  <2> QED
    BY <2>3, <2>4, <2>5, <2>6, <2>7
<1> QED
  BY <1>1, Invariant, PTL

\* Run returns nil only from a Shutdown that found every connection closed; the
\* listener's ErrServerClosed never reaches the select.
THEOREM OkIsDrained == HttpSpec => OkMeansDrained
<1>1. IInv /\ [HttpNext]_vars =>
         [stage # "down" /\ stage' = "down" /\ exit' = "ok" =>
             ctxDone /\ \A r \in Requests : req[r] \notin {"read", "handling"}]_vars
  <2> SUFFICES ASSUME IInv, HttpNext, stage # "down", stage' = "down", exit' = "ok"
               PROVE  ctxDone /\ \A r \in Requests : req[r] \notin {"read", "handling"}
    BY DEF vars, processVars
  <2>1. CASE SelectError
    BY <2>1 DEF SelectError, Exit, IInv, RequestInv
  <2>2. CASE Drain
    BY <2>2 DEF Drain, DrainEnds, DrainExpires, Exit, Connected, IInv, RequestInv
  <2>3. CASE RefuseFile \/ StartFails \/ Signal
    BY <2>3 DEF RefuseFile, StartFails, Signal, Exit
  <2>4. CASE Start \/ LoadEntry \/ Notify \/ Serve \/ Listen \/ ListenFails \/ SelectDone
    BY <2>4 DEF Start, LoadEntry, Notify, Serve, Listen, ListenFails, SelectDone
  <2>5. ASSUME NEW r \in Requests,
               \/ Dial(r) \/ Drop(r) \/ TurnAway(r) \/ Admit(r) \/ Answer(r)
               \/ \E c \in Calls : Read(r, c)
        PROVE  FALSE
    BY <2>5 DEF Dial, Drop, TurnAway, Admit, Answer, Read, processVars
  <2> QED
    BY <2>1, <2>2, <2>3, <2>4, <2>5 DEF HttpNext, StartUp, Select
<1> QED
  BY <1>1, Invariant, PTL DEF HttpSpec, OkMeansDrained
=============================================================================
