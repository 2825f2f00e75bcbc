----------------------------- MODULE JoinCodes -----------------------------
(***************************************************************************)
(* Six-digit ride codes (service.py, register_join_code and                *)
(* resolve_join_code): a code leads a device that has joined no ride yet   *)
(* to the ride's secret, to the token that resolves the code without the   *)
(* digits being enough, and to the ride's root of device authority.        *)
(*                                                                         *)
(* The ride's credential is derived from its identity and its secret, so   *)
(* two creators of one ride identity hold different secrets.  A            *)
(* registration reads the ride without a lock, or claims it, and the code  *)
(* without a lock; it writes both at its commit.  The number of a call     *)
(* stands for the resolve token it registers.  A clock unit is hours, and  *)
(* no registration is in progress when it passes.                          *)
(***************************************************************************)
EXTENDS Serving

CONSTANTS
  Registrars,  \* worker threads that serve registrations
  Rides,       \* ride identities
  Secrets,     \* invitation secrets; each fixes a ride credential
  Roots,       \* root public keys of device authority
  Codes,       \* six-digit codes
  NoRoot,      \* a NULL authority_root_public_key, or none in the request
  NoEntry,     \* no such row
  CodeLife     \* ride_retention_hours

ClaimedRide == [secret : Secrets, root : Roots \cup {NoRoot}]
RideJoinCode == [ride : Rides, secret : Secrets, resolve : Nat,
                 root : Roots \cup {NoRoot}, expires : Nat]
Registration == [n : Nat, ride : Rides, secret : Secrets,
                 root : Roots \cup {NoRoot}, code : Codes,
                 phase : {"open", "write"},
                 claims : BOOLEAN, readRoot : Roots \cup {NoRoot},
                 isNew : BOOLEAN]

Promise == [code : Codes, ride : Rides, secret : Secrets, n : Nat,
            expires : Nat]

ASSUME JoinAssumption ==
  /\ NoRoot \notin Roots
  /\ NoEntry \notin ClaimedRide \cup RideJoinCode \cup Registration
  /\ CodeLife \in Nat \ {0}

VARIABLES
  claimed,     \* [Rides -> ClaimedRide \cup {NoEntry}]
  codes,       \* [Codes -> RideJoinCode \cup {NoEntry}]
  registering, \* [Registrars -> Registration \cup {NoEntry}]
  promised     \* history: what registrations were confirmed, until when

joinState == <<claimed, codes, registering, promised>>
joinVars == <<serving, joinState>>

JoinInit ==
  /\ claimed = [r \in Rides |-> NoEntry]
  /\ codes = [c \in Codes |-> NoEntry]
  /\ registering = [t \in Registrars |-> NoEntry]
  /\ promised = {}

-----------------------------------------------------------------------------
(* A registration arrives with a bearer token that fits its ride and       *)
(* secret; its clock is read.                                              *)
AskRegister(t) ==
  /\ registering[t] = NoEntry
  /\ Arrival
  /\ \E ride \in Rides, secret \in Secrets, root \in Roots \cup {NoRoot},
        code \in Codes :
       registering' = [registering EXCEPT ![t] =
         [n |-> calls', ride |-> ride, secret |-> secret,
          root |-> root, code |-> code, phase |-> "open", claims |-> FALSE,
          readRoot |-> NoRoot, isNew |-> FALSE]]
  /\ UNCHANGED <<claimed, codes, promised>>

(* A call that claims a ride has inserted its row and not yet committed: a *)
(* second claim of the same identity waits for the outcome.                *)
NoClaim(ride) == {}              \* broken: two claims do not meet
Claiming(ride) ==
  {t \in Registrars : /\ registering[t] # NoEntry
                      /\ registering[t].claims
                      /\ registering[t].ride = ride}

LiveCode(code) ==
  IF codes[code] = NoEntry \/ codes[code].expires <= now
  THEN NoEntry ELSE codes[code]

SecretFits(t) ==
  LET g == registering[t] IN
  claimed[g.ride] # NoEntry => claimed[g.ride].secret = g.secret
RootFits(t) ==
  LET g == registering[t] IN
  g.root # NoRoot /\ claimed[g.ride] # NoEntry =>
    claimed[g.ride].root \in {NoRoot, g.root}
CodeFits(t) ==
  LET g == registering[t]
      live == LiveCode(g.code)
  IN live # NoEntry => live.ride = g.ride /\ live.secret = g.secret

(* Expired codes are deleted, the ride is read or claimed, the credential, *)
(* the root and the code are checked.                                      *)
ReadRide(t) ==
  LET g == registering[t] IN
  /\ g # NoEntry
  /\ g.phase = "open"
  /\ claimed[g.ride] = NoEntry => Claiming(g.ride) = {}
  /\ SecretFits(t) /\ RootFits(t) /\ CodeFits(t)
  /\ registering' = [registering EXCEPT ![t] =
       [@ EXCEPT !.phase = "write",
                 !.claims = claimed[g.ride] = NoEntry,
                 !.readRoot = IF claimed[g.ride] = NoEntry THEN NoRoot
                              ELSE claimed[g.ride].root,
                 !.isNew = LiveCode(g.code) = NoEntry]]
  /\ UNCHANGED <<serving, claimed, codes, promised>>

(* 403: another credential; 409: another root, or a code in use; 503: the  *)
(* relay has no room for one more ride.                                    *)
RefuseRegister(t) ==
  LET g == registering[t] IN
  /\ g # NoEntry
  /\ g.phase = "open"
  /\ \/ ~SecretFits(t)
     \/ ~RootFits(t)
     \/ ~CodeFits(t)
     \/ claimed[g.ride] = NoEntry /\ Claiming(g.ride) = {}
  /\ registering' = [registering EXCEPT ![t] = NoEntry]
  /\ UNCHANGED <<serving, claimed, codes, promised>>

-----------------------------------------------------------------------------
(* The commit.  The root is written if the call carries one and read       *)
(* another value; an existing row of the code keeps its deadline.          *)
RideAfter(g) ==
  [secret |-> g.secret,
   root |-> IF g.root # NoRoot /\ g.readRoot # g.root THEN g.root
            ELSE IF claimed[g.ride] = NoEntry THEN NoRoot
            ELSE claimed[g.ride].root]

Row(g, expires) ==
  [ride |-> g.ride, secret |-> g.secret, resolve |-> g.n, root |-> g.root,
   expires |-> expires]

(* Expired rows are gone with the commit. *)
CodesPurged == [c \in Codes |-> LiveCode(c)]

NeverTaken(g) == FALSE           \* broken: an INSERT that overwrites
CodeTaken(g) == g.isNew /\ LiveCode(g.code) # NoEntry

Register(t) ==
  LET g == registering[t]
      old == LiveCode(g.code)
      expires == IF old = NoEntry THEN now + CodeLife ELSE old.expires
  IN
  /\ g # NoEntry
  /\ g.phase = "write"
  /\ ~CodeTaken(g)
  /\ claimed' = [claimed EXCEPT ![g.ride] = RideAfter(g)]
  /\ codes' = [CodesPurged EXCEPT ![g.code] = Row(g, expires)]
  /\ promised' = promised \cup
       {[code |-> g.code, ride |-> g.ride, secret |-> g.secret, n |-> g.n,
         expires |-> expires]}
  /\ registering' = [registering EXCEPT ![t] = NoEntry]
  /\ UNCHANGED serving

(* 500: the code was taken since it was read; a claim is undone with the   *)
(* rest.                                                                   *)
FailRegister(t) ==
  LET g == registering[t] IN
  /\ g # NoEntry
  /\ g.phase = "write"
  /\ CodeTaken(g)
  /\ registering' = [registering EXCEPT ![t] = NoEntry]
  /\ UNCHANGED <<serving, claimed, codes, promised>>

(* The deletion of an expired code by resolve_join_code is rolled back by  *)
(* the error that follows it: a resolution never writes.                   *)
Resolved(code, token) ==
  IF /\ codes[code] # NoEntry
     /\ codes[code].expires > now
     /\ token \in {0, codes[code].resolve}
  THEN codes[code] ELSE NoEntry

(* The scheduled cleanup deletes codes by its own clock. *)
PurgeCodes ==
  /\ codes # CodesPurged
  /\ codes' = CodesPurged
  /\ UNCHANGED <<serving, claimed, registering, promised>>

JoinStep ==
  \/ \E t \in Registrars :
       AskRegister(t) \/ ReadRide(t) \/ RefuseRegister(t) \/ Register(t) \/ FailRegister(t)
  \/ PurgeCodes

JoinQuiet == \A t \in Registrars : registering[t] = NoEntry
JoinNext ==
  \/ JoinStep
  \/ Elsewhere /\ (now' # now => JoinQuiet) /\ UNCHANGED joinState
JoinSpec == JoinInit /\ ServingInit /\ [][JoinNext]_joinVars

-----------------------------------------------------------------------------
JoinTypeOK ==
  /\ ServingTypeOK
  /\ claimed \in [Rides -> ClaimedRide \cup {NoEntry}]
  /\ codes \in [Codes -> RideJoinCode \cup {NoEntry}]
  /\ registering \in [Registrars -> Registration \cup {NoEntry}]
  /\ promised \subseteq Promise

(* A code whose registration was confirmed leads to that ride and secret   *)
(* until it expires, whoever else asks for the same digits meanwhile.      *)
PromisedResolves ==
  \A p \in promised : p.expires > now =>
    /\ Resolved(p.code, 0) # NoEntry
    /\ Resolved(p.code, 0).ride = p.ride
    /\ Resolved(p.code, 0).secret = p.secret

(* The credential a ride was claimed with is its credential for good, of   *)
(* two claims that overlap too.                                            *)
CredentialStands ==
  [][\A r \in Rides : claimed[r] # NoEntry =>
       claimed'[r] # NoEntry /\ claimed'[r].secret = claimed[r].secret]_joinVars

=============================================================================
