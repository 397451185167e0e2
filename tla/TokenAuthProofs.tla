---------------------------- MODULE TokenAuthProofs ----------------------------
(* Theorems about TokenAuth and their proofs.                              *)
EXTENDS TokenAuth, TLAPS

-----------------------------------------------------------------------------
(* Types.                                                                  *)

LEMMA LoadTypes ==
  ASSUME TypeOK
  PROVE  LoadToken \in Tokens \cup {None} /\ LoadRecord \in Tokens \cup {None}
BY DEF TypeOK, LoadToken, LoadRecord

LEMMA UserTypes == TypeOK /\ User => TypeOK'
<1> SUFFICES ASSUME TypeOK, User PROVE TypeOK'
  OBVIOUS
<1> USE TokenAssumption DEF TokenAssumption, TypeOK, Tokens, hubVars, store
<1>1. CASE LoginApproved
  BY <1>1 DEF LoginApproved
<1>2. CASE LoginSavesRecord
  BY <1>2 DEF LoginSavesRecord, SaveRecord
<1>3. CASE LoginSavesRaw \/ LoginInterrupted
  BY <1>3 DEF LoginSavesRaw, LoginInterrupted
<1>4. CASE Logout
  BY <1>4 DEF Logout
<1> QED BY <1>1, <1>2, <1>3, <1>4 DEF User

LEMMA RequestTypes ==
  ASSUME TypeOK, NEW r \in Requests, Request(r)
  PROVE  TypeOK'
<1> USE DEF TypeOK, hubVars, store, userVars, Moves
<1>1. CASE Sends(r)
  BY <1>1 DEF Sends
<1>2. CASE HubAnswers(r)
  BY <1>2 DEF HubAnswers
<1>3. CASE Reloads(r)
  BY <1>3, LoadTypes DEF Reloads, Fresh
<1>4. CASE GivesUp(r)
  BY <1>4 DEF GivesUp
<1>5. CASE Over(r)
  BY <1>5 DEF Over, Idle
<1> QED BY <1>1, <1>2, <1>3, <1>4, <1>5 DEF Request

LEMMA StepTypes == TypeOK /\ [Next]_vars => TypeOK'
<1> SUFFICES ASSUME TypeOK, [Next]_vars PROVE TypeOK'
  OBVIOUS
<1>1. CASE User
  BY <1>1, UserTypes
<1>2. CASE \E r \in Requests : Request(r)
  BY <1>2, RequestTypes
<1>3. CASE \E t \in Tokens : TokenExpires(t)
  BY <1>3 DEF TokenExpires, TypeOK, store, userVars
<1>4. CASE KeyringLockedOrUnlocked
  BY <1>4 DEF KeyringLockedOrUnlocked, TypeOK, store, userVars
<1>5. CASE UNCHANGED vars
  BY <1>5 DEF TypeOK, vars, hubVars, store, userVars
<1> QED BY <1>1, <1>2, <1>3, <1>4, <1>5 DEF Next

(* Whatever is stored or held is a token that krewauth has issued, for any *)
(* number of logins, requests and kinds of keyring.                        *)
THEOREM TypesHold == Spec => []TypeOK
<1>1. Init => TypeOK
  BY TokenAssumption DEF TokenAssumption, Init, TypeOK, Tokens, Idle
<1> QED BY <1>1, StepTypes, PTL DEF Spec

-----------------------------------------------------------------------------
(* What a login stores is read.                                            *)

\* The state of the keyring goes with the host, where it is not one that flaps.
HostKept ==
  /\ host = "works" => unlocked
  /\ host = "absent" => ~unlocked /\ keyring = None

\* Between the writes of a login the new token already hides the old raw one.
ReadBack ==
  host # "flaps" =>
    /\ user # "raw" => LoadToken = current
    /\ user = "raw" => LoadRecord = issued

StoreInv == HostKept /\ ReadBack

LEMMA UserStore == TypeOK /\ StoreInv /\ User => StoreInv'
<1> SUFFICES ASSUME TypeOK, StoreInv, User PROVE StoreInv'
  OBVIOUS
<1>t. issued \in Tokens /\ issued # None /\ host \in {"absent", "works", "flaps"}
  BY TokenAssumption DEF TokenAssumption, TypeOK, Tokens
<1> USE DEF StoreInv, HostKept, ReadBack, LoadToken, LoadRecord, hubVars, store
<1>1. CASE LoginApproved
  BY <1>1 DEF LoginApproved
<1>2. CASE LoginSavesRecord
  BY <1>2, <1>t DEF LoginSavesRecord, SaveRecord
<1>3. CASE LoginSavesRaw \/ LoginInterrupted
  BY <1>3, <1>t DEF LoginSavesRaw, LoginInterrupted
<1>4. CASE Logout
  BY <1>4, <1>t DEF Logout
<1> QED BY <1>1, <1>2, <1>3, <1>4 DEF User

LEMMA StepStore == TypeOK /\ StoreInv /\ [Next]_vars => StoreInv'
<1> SUFFICES ASSUME TypeOK, StoreInv, [Next]_vars PROVE StoreInv'
  OBVIOUS
<1> USE DEF StoreInv, HostKept, ReadBack, LoadToken, LoadRecord
<1>1. CASE User
  BY <1>1, UserStore
<1>2. CASE \E r \in Requests : Request(r)
  BY <1>2 DEF Request, Sends, HubAnswers, Reloads, GivesUp, Over, hubVars, store, userVars
<1>3. CASE \E t \in Tokens : TokenExpires(t)
  BY <1>3 DEF TokenExpires, store, userVars
<1>4. CASE KeyringLockedOrUnlocked
  BY <1>4 DEF KeyringLockedOrUnlocked, store, userVars
<1>5. CASE UNCHANGED vars
  BY <1>5 DEF vars, hubVars, store, userVars
<1> QED BY <1>1, <1>2, <1>3, <1>4, <1>5 DEF Next

(* What a login stored is what is read, although it is in two places and   *)
(* may have been interrupted between them (token_store.py:60-95, 103-151). *)
THEOREM LoginsAreReadBack == Spec => []LoginIsReadBack
<1>1. Init => StoreInv
  BY TokenAssumption
     DEF TokenAssumption, Init, StoreInv, HostKept, ReadBack, LoadToken, LoadRecord
<1>2. StoreInv => LoginIsReadBack
  BY DEF StoreInv, ReadBack, LoginIsReadBack
<1> QED BY <1>1, <1>2, StepStore, TypesHold, PTL DEF Spec
=============================================================================
