------------------------------ MODULE TokenAuth ------------------------------
(***************************************************************************)
(* Where the krewauth token lives and how a running daemon gets a new one: *)
(* auth/token_store.py, the commands that write it (cli/login.py,          *)
(* cli/up.py, cli/logout.py), and _RefreshingBearerAuth of the krewhub     *)
(* client, one instance of which serves all requests of a daemon.          *)
(*                                                                         *)
(* A login stores its token twice: as a record, in the OS keyring or else  *)
(* in token.json, and raw in the file `token`.  A request is sent with the *)
(* token the client holds; a 401 makes the client read the store again and *)
(* send the request once more.  Requests overlap.                          *)
(*                                                                         *)
(* krewhub and krewauth are external: they issue tokens, in the order of   *)
(* their numbers, and cease to accept them.                                *)
(***************************************************************************)
EXTENDS Integers, FiniteSets

CONSTANTS
  MaxLogins,  \* bound: how often somebody logs in
  Requests,   \* the requests that may be under way at once
  Keyrings,   \* what the host's keyring may be like
  None

ASSUME TokenAssumption ==
  /\ MaxLogins \in Nat
  /\ IsFiniteSet(Requests)
  /\ Keyrings \subseteq {"absent", "works", "flaps"}
  /\ None \notin 0..MaxLogins

\* 0 is the token of the login before the daemon was started.
Tokens == 0..MaxLogins

VARIABLES
  host,      \* what the keyring is like; one that flaps is locked at times
  unlocked,  \* can the keyring be used now
  keyring, record, raw,  \* the tokens in keyring, token.json and token
  user,      \* what the login or logout command is doing
  current,   \* the token of the last login, or None after a logout
  issued,    \* krewauth: the last token it gave out
  accepted,  \* krewhub: the tokens it accepts
  held,      \* _RefreshingBearerAuth._token
  req        \* each request: how far it is and the token it was sent with

store    == <<keyring, record, raw>>
userVars == <<user, current, issued>>
hubVars  == <<host, unlocked, accepted>>
vars     == <<hubVars, store, userVars, held, req>>

Idle == [pc |-> "idle", sent |-> None]

Init ==
  /\ host \in Keyrings
  /\ unlocked = (host # "absent")
  /\ keyring = IF unlocked THEN 0 ELSE None
  /\ record = IF unlocked THEN None ELSE 0
  /\ raw = 0
  /\ user = "idle"
  /\ current = 0
  /\ issued = 0
  /\ accepted \in SUBSET {0}
  /\ held = 0
  /\ req = [r \in Requests |-> Idle]

-----------------------------------------------------------------------------
(* token_store.                                                            *)

\* load_record: the keyring if it answers with something, else token.json.
LoadRecord == IF unlocked /\ keyring # None THEN keyring ELSE record

\* load_token: the record's token is preferred to the raw file.
LoadToken == IF LoadRecord # None THEN LoadRecord ELSE raw

\* Mutant: a keyring that does not work is not made up for by the file.
MutSaveRecord(token) ==
  /\ keyring' = IF unlocked THEN token ELSE keyring
  /\ UNCHANGED record

\* save_record: the keyring or, if it does not work, token.json.
SaveRecord(token) ==
  IF unlocked
    THEN keyring' = token /\ UNCHANGED record
    ELSE record' = token /\ UNCHANGED keyring

-----------------------------------------------------------------------------
(* login and up, logout.                                                   *)

\* The device flow or a password brought a token.
LoginApproved ==
  /\ user = "idle"
  /\ issued < MaxLogins
  /\ issued' = issued + 1
  /\ accepted' = accepted \cup {issued'}
  /\ user' = "record"
  /\ UNCHANGED <<host, unlocked, store, current, held, req>>

LoginSavesRecord ==
  /\ user = "record"
  /\ SaveRecord(issued)
  /\ user' = "raw"
  /\ UNCHANGED <<hubVars, raw, current, issued, held, req>>

LoginSavesRaw ==
  /\ user = "raw"
  /\ raw' = issued
  /\ user' = "idle"
  /\ current' = issued
  /\ UNCHANGED <<hubVars, keyring, record, issued, held, req>>

\* Ctrl-C between the two writes.
LoginInterrupted ==
  /\ user = "raw"
  /\ user' = "idle"
  /\ current' = issued
  /\ UNCHANGED <<hubVars, store, issued, held, req>>

\* clear_token; the keyring is left as it is when it does not work.
Logout ==
  /\ user = "idle"
  /\ current # None
  /\ raw' = None
  /\ record' = None
  /\ keyring' = IF unlocked THEN None ELSE keyring
  /\ current' = None
  /\ UNCHANGED <<hubVars, user, issued, held, req>>

-----------------------------------------------------------------------------
(* auth_flow.                                                              *)

Moves(r, where, token) == req' = [req EXCEPT ![r] = [pc |-> where, sent |-> token]]

Sends(r) ==
  /\ req[r].pc = "idle"
  /\ Moves(r, "sent", held)
  /\ UNCHANGED <<hubVars, store, userVars, held>>

\* krewhub lets the request through, or it answers 401.
HubAnswers(r) ==
  /\ req[r].pc \in {"sent", "resent"}
  /\ Moves(r, CASE req[r].sent \in accepted -> "served"
                [] req[r].pc = "sent"       -> "unauthorized"
                [] OTHER                    -> "refused",
           req[r].sent)
  /\ UNCHANGED <<hubVars, store, userVars, held>>

\* There is another token in the store than the one held.
Fresh == LoadToken # None /\ LoadToken # held

\* Mutant: the request goes out again with its old header.
MutReloadsOnlyHeld(r) ==
  /\ req[r].pc = "unauthorized"
  /\ Fresh
  /\ UNCHANGED held
  /\ Moves(r, "resent", held)
  /\ UNCHANGED <<hubVars, store, userVars>>

Reloads(r) ==
  /\ req[r].pc = "unauthorized"
  /\ Fresh
  /\ held' = LoadToken
  /\ Moves(r, "resent", LoadToken)
  /\ UNCHANGED <<hubVars, store, userVars>>

\* The 401 is the answer.
GivesUp(r) ==
  /\ req[r].pc = "unauthorized"
  /\ ~Fresh
  /\ Moves(r, "refused", req[r].sent)
  /\ UNCHANGED <<hubVars, store, userVars, held>>

\* The caller has its answer; another request takes this one's place.
Over(r) ==
  /\ req[r].pc \in {"served", "refused"}
  /\ req' = [req EXCEPT ![r] = Idle]
  /\ UNCHANGED <<hubVars, store, userVars, held>>

-----------------------------------------------------------------------------
(* krewauth, krewhub and the desktop.                                      *)

TokenExpires(t) ==
  /\ t \in accepted
  /\ accepted' = accepted \ {t}
  /\ UNCHANGED <<host, unlocked, store, userVars, held, req>>

KeyringLockedOrUnlocked ==
  /\ host = "flaps"
  /\ unlocked' = ~unlocked
  /\ UNCHANGED <<host, accepted, store, userVars, held, req>>

-----------------------------------------------------------------------------
User ==
  LoginApproved \/ LoginSavesRecord \/ LoginSavesRaw \/ LoginInterrupted \/ Logout

Request(r) == Sends(r) \/ HubAnswers(r) \/ Reloads(r) \/ GivesUp(r) \/ Over(r)

Next ==
  \/ User
  \/ \E r \in Requests : Request(r)
  \/ \E t \in Tokens : TokenExpires(t)
  \/ KeyringLockedOrUnlocked

Spec == Init /\ [][Next]_vars

(* The daemon keeps sending requests (heartbeats alone see to that), and   *)
(* krewhub answers them.                                                   *)
FairSpec == Spec /\ \A r \in Requests : WF_vars(Request(r))

-----------------------------------------------------------------------------
(* Properties.                                                             *)

TypeOK ==
  /\ host \in Keyrings
  /\ unlocked \in BOOLEAN
  /\ keyring \in Tokens \cup {None}
  /\ record \in Tokens \cup {None}
  /\ raw \in Tokens \cup {None}
  /\ user \in {"idle", "record", "raw"}
  /\ current \in Tokens \cup {None}
  /\ issued \in Tokens
  /\ accepted \subseteq 0..issued
  /\ held \in Tokens
  /\ req \in [Requests -> [pc : {"idle", "sent", "unauthorized", "resent",
                                 "served", "refused"},
                           sent : Tokens \cup {None}]]

(* What a login stores is what every process reads afterwards, and after a *)
(* logout they read nothing, although the token is stored in two places,   *)
(* one of them preferred, and a login may be interrupted between them      *)
(* (token_store.py:60-95, 103-151): on a host whose keyring always works   *)
(* or never does.  One that is locked at times may keep an old token and   *)
(* bring it back.                                                          *)
LoginIsReadBack == user = "idle" /\ host # "flaps" => LoadToken = current

\* The store holds the last login's token, and krewhub accepts it.
LoggedIn ==
  user = "idle" /\ host # "flaps" /\ current # None /\ current \in accepted

(* krewhub_client.py:25-28: "a simple `krewcli login` re-auth suffices to  *)
(* recover without restarting the daemon": once a good login is not        *)
(* touched any more, requests cease to be refused, however many were under *)
(* way with the old token.                                                 *)
HealsAfterLogin == <>[]LoggedIn => <>[](\A r \in Requests : req[r].pc # "refused")

(* krewhub_client.py:24-26: "in-flight requests start returning 401. This  *)
(* auth handler retries once after reloading": a request is not given up   *)
(* that was never sent with the token of the store.                        *)
GivesUpOnlyOnFresh ==
  [][\A r \in Requests : GivesUp(r) => LoadToken \in {None, req[r].sent}]_vars
=============================================================================
