------------------------------ MODULE Accounts ------------------------------
(***************************************************************************)
(* Accounts of the API: invitations, signup, e-mail verification, login    *)
(* sessions (server/app/api.py, server/app/security.py) and the operator's *)
(* server/app/create_admin.py.                                             *)
(*                                                                         *)
(* Requests run in threads, each in one transaction at READ COMMITTED.  A  *)
(* statement that reads is a step; the writes at the end of a transaction, *)
(* whose locks make a conflicting one wait, are one step with its commit.  *)
(* The ORM writes only the attributes that differ from what it read.       *)
(* Time is left out of the tables: an invite, a token or a session may     *)
(* expire at any moment.  A password is right or wrong.  Rate limits are   *)
(* in RateLimits: they share no state with this.                           *)
(***************************************************************************)
EXTENDS Naturals

CONSTANTS
  Emails,     \* addresses, normalized
  Operators,  \* those create_admin is run for
  Threads,    \* requests in progress at once
  MaxTokens,  \* bound: verification tokens
  NoEmail

ASSUME AccountsAssumption ==
  /\ Operators \subseteq Emails
  /\ MaxTokens \in Nat
  /\ NoEmail \notin Emails

VARIABLES
  user,     \* user[e]: a row of app_user, or NoUser
  invite,   \* invite[e]: a row of invite, or NoInvite
  token,    \* the rows of email_verification
  login,    \* the addresses with a live row of session
  thread,   \* thread[t]: a request and what its transaction has read
  issued,   \* how many tokens there have been
  history   \* what the properties are about, see NoHistory

tables == <<user, invite, token, login>>
accountVars == <<tables, thread, issued, history>>

Roles == {"user", "admin"}
NoUser == [role |-> "none", verified |-> FALSE]
NoInvite == [role |-> "none", accepted |-> FALSE, expired |-> FALSE]
HasUser(e) == user[e].role # "none"
HasInvite(e) == invite[e].role # "none"

(* mailed: the mail with the token has arrived.                            *)
Token == [id : 1 .. MaxTokens, email : Emails, expired : BOOLEAN, mailed : BOOLEAN]
IdsOf(rows) == {r.id : r \in rows}
TokensOf(e) == {t \in token : t.email = e}

(* role and open are what a transaction read; doomed is what its DELETE    *)
(* matched; before and offered are history: the tokens of the address that *)
(* were there when the request began, the roles of its invite since then.  *)
NoRequest == [pc |-> "idle", email |-> NoEmail, role |-> "none", accepted |-> FALSE, id |-> 0,
              doomed |-> {}, before |-> {}, offered |-> {}]

(* bootstrapped: the addresses create_admin made or promoted.  proved: the *)
(* addresses a token was presented for that had been mailed and had not    *)
(* expired.  spent: the tokens presented.                                  *)
NoHistory == [bootstrapped |-> {}, proved |-> {}, spent |-> {}]

AccountsTypeOK ==
  /\ user \in [Emails -> [role : Roles \cup {"none"}, verified : BOOLEAN]]
  /\ invite \in [Emails ->
       [role : Roles \cup {"none"}, accepted : BOOLEAN, expired : BOOLEAN]]
  /\ token \subseteq Token /\ \A r, s \in token : r.id = s.id => r = s
  /\ login \subseteq Emails
  /\ thread \in [Threads ->
       [pc : {"idle", "readUser", "createUser", "mail", "verify", "delete", "reissue",
              "saveInvite"},
        email : Emails \cup {NoEmail}, role : Roles \cup {"none"}, accepted : BOOLEAN,
        id : 0 .. MaxTokens, doomed : SUBSET (1 .. MaxTokens), before : SUBSET (1 .. MaxTokens),
        offered : SUBSET (Roles \cup {"none"})]]
  /\ issued \in 0 .. MaxTokens
  /\ history \in [bootstrapped : SUBSET Emails, proved : SUBSET Emails,
                  spent : SUBSET (1 .. MaxTokens)]

AccountsInit ==
  /\ user = [e \in Emails |-> NoUser]
  /\ invite = [e \in Emails |-> NoInvite]
  /\ token = {} /\ login = {}
  /\ thread = [t \in Threads |-> NoRequest]
  /\ issued = 0
  /\ history = NoHistory

-----------------------------------------------------------------------------
Begin(t, request) ==
  /\ thread[t].pc = "idle"
  /\ thread' = [thread EXCEPT ![t] = request]

ReadInvite(e, pc) ==
  [NoRequest EXCEPT !.pc = pc, !.email = e, !.role = invite[e].role,
                    !.accepted = invite[e].accepted, !.offered = {invite[e].role}]

Free(t) == thread' = [thread EXCEPT ![t] = NoRequest]

(* An error answer, a rollback, or the end of the instance: nothing of the *)
(* transaction is left, and a mail not yet sent never is.                  *)
Abandon(t) ==
  /\ thread[t].pc # "idle"
  /\ Free(t)
  /\ UNCHANGED <<tables, issued, history>>

(* A token of the address is issued, and the thread goes on to mail it     *)
(* after the response.                                                     *)
(* (Mutant: with an id of its own.)                                        *)
NewTokenNext(e) == [id |-> issued + 2, email |-> e, expired |-> FALSE,
                    mailed |-> FALSE]
NewToken(e) == [id |-> issued + 1, email |-> e, expired |-> FALSE, mailed |-> FALSE]
IssueTo(t, e) ==
  /\ issued < MaxTokens
  /\ issued' = issued + 1
  /\ thread' = [thread EXCEPT ![t] = [NoRequest EXCEPT !.pc = "mail",
                                                       !.id = issued + 1]]

(* send_verification_email: a failure of the provider is swallowed.        *)
Mail(t) ==
  /\ thread[t].pc = "mail"
  /\ token' = {IF r.id = thread[t].id THEN [r EXCEPT !.mailed = TRUE] ELSE r : r \in token}
  /\ Free(t)
  /\ UNCHANGED <<user, invite, login, issued, history>>

(* signup: the invite, then the account, then a slow hash.                 *)
Signup(t, e) ==
  /\ HasInvite(e) /\ ~invite[e].expired
  /\ Begin(t, ReadInvite(e, "readUser"))
  /\ UNCHANGED <<tables, issued, history>>

(* (Mutant: the invite is marked before the account is made.)              *)
ReadUserMarks(t) ==
  /\ thread[t].pc = "readUser"
  /\ invite' = [invite EXCEPT ![thread[t].email].accepted = TRUE]
  /\ thread' = [thread EXCEPT ![t].pc = "createUser"]
  /\ UNCHANGED <<user, token, login, issued, history>>

ReadUser(t) ==
  /\ thread[t].pc = "readUser"
  /\ IF HasUser(thread[t].email) \/ thread[t].accepted
     THEN Free(t)
     ELSE thread' = [thread EXCEPT ![t].pc = "createUser"]
  /\ UNCHANGED <<tables, issued, history>>

(* The account, the invite's mark and the token.  email is unique, so the  *)
(* second of two overlapping signups raises here.                          *)
(* (Mutant: the default role of the column.)                               *)
GivenDefault(t) == "user"
Given(t) == thread[t].role

CreateUser(t) ==
  LET e == thread[t].email IN
  /\ thread[t].pc = "createUser"
  /\ ~HasUser(e)
  /\ user' = [user EXCEPT ![e] = [role |-> Given(t), verified |-> FALSE]]
  /\ invite' = [invite EXCEPT ![e].accepted = TRUE]
  /\ token' = token \cup {NewToken(e)}
  /\ IssueTo(t, e)
  /\ UNCHANGED <<login, history>>

(* verify_email with a token that was mailed: its row is read, and then    *)
(* deleted, whatever the answer.                                           *)
ReadToken(t) ==
  /\ \E r \in token :
       /\ r.mailed
       /\ Begin(t, [NoRequest EXCEPT !.pc = "verify", !.email = r.email, !.id = r.id,
                                     !.accepted = ~r.expired])
  /\ UNCHANGED <<tables, issued, history>>

(* (Mutants: a token that has expired is left; whether it has is not       *)
(* looked at.)                                                             *)
DeletedValid(t) == IF thread[t].accepted THEN {thread[t].id} ELSE {}
Deleted(t) == {thread[t].id}
ValidAlways(t) == TRUE
Valid(t) == thread[t].accepted

Verify(t) ==
  LET e == thread[t].email
      valid == Valid(t) IN
  /\ thread[t].pc = "verify"
  /\ token' = {r \in token : r.id \notin Deleted(t)}
  /\ user' = IF valid THEN [user EXCEPT ![e].verified = TRUE] ELSE user
  /\ history' = [history EXCEPT !.spent = @ \cup {thread[t].id},
                                !.proved = IF thread[t].accepted THEN @ \cup {e} ELSE @]
  /\ Free(t)
  /\ UNCHANGED <<invite, login, issued>>

(* resend_verification and _issue_verification: the DELETE sees the tokens *)
(* that are committed when it runs.                                        *)
Resend(t, e) ==
  /\ HasUser(e) /\ ~user[e].verified
  /\ Begin(t, [NoRequest EXCEPT !.pc = "delete", !.email = e,
                                !.before = IdsOf(TokensOf(e))])
  /\ UNCHANGED <<tables, issued, history>>

(* (Mutant: those that have expired.)                                      *)
DoomedExpired(e) == {r \in TokensOf(e) : r.expired}
Doomed(e) == TokensOf(e)

DeleteTokens(t) ==
  /\ thread[t].pc = "delete"
  /\ thread' = [thread EXCEPT ![t].pc = "reissue",
                              ![t].doomed = IdsOf(Doomed(thread[t].email))]
  /\ UNCHANGED <<tables, issued, history>>

Reissue(t) ==
  LET e == thread[t].email IN
  /\ thread[t].pc = "reissue"
  /\ token' = {r \in token : r.id \notin thread[t].doomed} \cup {NewToken(e)}
  /\ IssueTo(t, e)
  /\ UNCHANGED <<user, invite, login, history>>

(* require_admin: the role is the account's now, not the session's.        *)
AdminIsThere == \E a \in login : user[a].role = "admin"

(* create_invite, by an admin.                                             *)
Invite(t, e) ==
  /\ AdminIsThere
  /\ Begin(t, [ReadInvite(e, "saveInvite") EXCEPT !.offered = {}])
  /\ UNCHANGED <<tables, issued, history>>

(* A new row conflicts with one made since.  accepted is written only if   *)
(* it was read as true, so it may still be true after this.                *)
SaveInvite(t) ==
  LET e == thread[t].email
      read == thread[t].role IN
  /\ thread[t].pc = "saveInvite"
  /\ read = "none" => ~HasInvite(e)
  /\ \E role \in Roles :
       /\ invite' = [invite EXCEPT ![e] =
            [role |-> IF role = read THEN @.role ELSE role,
             accepted |-> @.accepted /\ ~thread[t].accepted,
             expired |-> FALSE]]
       /\ thread' = [o \in Threads |->
            IF o = t THEN NoRequest
            ELSE IF thread[o].email = e /\ thread[o].pc \in {"readUser", "createUser"}
                 THEN [thread[o] EXCEPT !.offered = @ \cup {invite'[e].role}]
                 ELSE thread[o]]
  /\ UNCHANGED <<user, token, login, issued, history>>

(* login with the right password; the rest of it is in RateLimits.  A row  *)
(* is of use until it expires.                                             *)
LogIn(e) ==
  /\ user[e].verified
  /\ login' = login \cup {e}
  /\ UNCHANGED <<user, invite, token, thread, issued, history>>

LogOutOrExpire(e) ==
  /\ login' = login \ {e}
  /\ UNCHANGED <<user, invite, token, thread, issued, history>>

(* create_admin on the operator's machine.                                 *)
CreateAdmin(e) ==
  /\ e \in Operators
  /\ user' = [user EXCEPT ![e] = [role |-> "admin", verified |-> TRUE]]
  /\ history' = [history EXCEPT !.bootstrapped = @ \cup {e}]
  /\ UNCHANGED <<invite, token, login, thread, issued>>

(* The passage of time.                                                    *)
Expire ==
  /\ \/ \E e \in Emails :
          /\ HasInvite(e) /\ ~invite[e].expired
          /\ invite' = [invite EXCEPT ![e].expired = TRUE]
          /\ UNCHANGED token
     \/ \E r \in token :
          /\ ~r.expired
          /\ token' = (token \ {r}) \cup {[r EXCEPT !.expired = TRUE]}
          /\ UNCHANGED invite
  /\ UNCHANGED <<user, login, thread, issued, history>>

AccountsNext ==
  \/ \E t \in Threads :
       \/ \E e \in Emails : Signup(t, e) \/ Resend(t, e) \/ Invite(t, e)
       \/ ReadUser(t) \/ CreateUser(t) \/ Mail(t) \/ ReadToken(t) \/ Verify(t)
       \/ DeleteTokens(t) \/ Reissue(t) \/ SaveInvite(t) \/ Abandon(t)
  \/ \E e \in Emails : LogIn(e) \/ LogOutOrExpire(e) \/ CreateAdmin(e)
  \/ Expire

AccountsSpec == AccountsInit /\ [][AccountsNext]_accountVars

-----------------------------------------------------------------------------
(* A spent invite has its account: no signup that fails, or loses to       *)
(* another, uses the invite up (signup marks it in the transaction that    *)
(* makes the account).                                                     *)
SpentInviteHasAccount == \A e \in Emails : invite[e].accepted => HasUser(e)

(* A signup gives a role that the address's invite has had since the       *)
(* request began, however often it is invited again meanwhile.             *)
RoleIsInvited ==
  [][\A t \in Threads : CreateUser(t) =>
       user'[thread[t].email].role \in thread[t].offered]_accountVars

(* A token that was presented is not live again, an expired one included:  *)
(* no answer of verify_email takes its delete back.                        *)
PresentedIsSpent == history.spent \cap IdsOf(token) = {}

(* A resend replaces: no token its account had when it began outlives it   *)
(* (two that overlap may leave one token each).                            *)
ResendReplaces ==
  [][\A t \in Threads : Reissue(t) => thread[t].before \cap IdsOf(token') = {}]_accountVars

(* A session belongs to an account that is verified, and that either an   *)
(* operator made, or a token mailed to its address came back for before it *)
(* expired.                                                                *)
SessionsAreGood ==
  \A e \in login :
    /\ user[e].verified
    /\ e \in history.bootstrapped \cup history.proved

=============================================================================
