--------------------------- MODULE AccountsProofs ---------------------------
(***************************************************************************)
(* Theorems about Accounts for any number of addresses, requests and       *)
(* tokens.  The invariant adds to the types: Minted, that an id in use was *)
(* issued; Founded, that accounts come before what depends on them; Read,  *)
(* what a transaction has read that nothing takes back.                    *)
(***************************************************************************)
EXTENDS Accounts, TLAPS

Minted ==
  /\ \A r \in token : r.id <= issued
  /\ \A id \in history.spent : id <= issued
  /\ \A t \in Threads : \A id \in thread[t].before : id <= issued

Founded ==
  /\ \A e \in Emails : ~HasUser(e) => ~user[e].verified
  /\ \A e \in Emails : user[e].verified => e \in history.bootstrapped \cup history.proved
  /\ \A r \in token : HasUser(r.email)

ReadOf(t) ==
  /\ thread[t].pc \notin {"idle", "mail"} => thread[t].email \in Emails
  /\ thread[t].pc \in {"readUser", "createUser"} => thread[t].role \in Roles \cap thread[t].offered
  /\ thread[t].pc = "verify" => HasUser(thread[t].email) /\ thread[t].id \in 1 .. issued
  /\ thread[t].pc \in {"delete", "reissue"} =>
       /\ HasUser(thread[t].email)
       /\ \A r \in token : r.id \in thread[t].before => r.email = thread[t].email
  /\ thread[t].pc = "reissue" =>
       \A r \in token : r.id \in thread[t].before => r.id \in thread[t].doomed
  /\ thread[t].pc = "saveInvite" /\ thread[t].role # "none" => HasInvite(thread[t].email)

Read == \A t \in Threads : ReadOf(t)

AInv ==
  /\ AccountsTypeOK /\ Minted /\ Founded /\ Read
  /\ SpentInviteHasAccount /\ PresentedIsSpent /\ SessionsAreGood

-----------------------------------------------------------------------------
UserType == [role : Roles \cup {"none"}, verified : BOOLEAN]
InviteType == [role : Roles \cup {"none"}, accepted : BOOLEAN, expired : BOOLEAN]
ThreadType ==
  [pc : {"idle", "readUser", "createUser", "mail", "verify", "delete", "reissue", "saveInvite"},
   email : Emails \cup {NoEmail}, role : Roles \cup {"none"}, accepted : BOOLEAN,
   id : 0 .. MaxTokens, doomed : SUBSET (1 .. MaxTokens), before : SUBSET (1 .. MaxTokens),
   offered : SUBSET (Roles \cup {"none"})]

(* The steps, by what they change.                                         *)
ReadsOnly(t) ==
  \/ \E e \in Emails : Signup(t, e) \/ Resend(t, e) \/ Invite(t, e)
  \/ ReadUser(t) \/ ReadToken(t) \/ DeleteTokens(t) \/ Abandon(t)

Writes(t) == CreateUser(t) \/ Mail(t) \/ Verify(t) \/ Reissue(t) \/ SaveInvite(t)

Outside == Expire \/ \E e \in Emails : LogIn(e) \/ LogOutOrExpire(e) \/ CreateAdmin(e)

LEMMA StepKinds ==
  AccountsNext => Outside \/ \E t \in Threads : ReadsOnly(t) \/ Writes(t)
  BY DEF AccountsNext, Outside, ReadsOnly, Writes

(* What a token is.                                                        *)
LEMMA TokenFields ==
  ASSUME AccountsTypeOK, NEW r \in token
  PROVE  /\ r.id \in 1 .. MaxTokens /\ r.email \in Emails
         /\ r.expired \in BOOLEAN /\ r.mailed \in BOOLEAN
         /\ r = [id |-> r.id, email |-> r.email, expired |-> r.expired, mailed |-> r.mailed]
  BY DEF AccountsTypeOK, Token

(* Tokens keep their id and address; one that is new has the id that comes *)
(* next, and its address an account.                                       *)
LEMMA TokensMove ==
  ASSUME AInv, AccountsNext
  PROVE  /\ token' \subseteq Token /\ \A r, s \in token' : r.id = s.id => r = s
         /\ issued' \in 0 .. MaxTokens /\ issued' >= issued
         /\ \A s \in token' :
              \/ \E r \in token : r.id = s.id /\ r.email = s.email
              \/ /\ s.id = issued + 1 /\ issued' = issued + 1
                 /\ s.email \in Emails /\ user'[s.email].role # "none"
<1>0. AccountsTypeOK /\ MaxTokens \in Nat /\ issued \in 0 .. MaxTokens
  BY AccountsAssumption DEF AInv, AccountsTypeOK
<1>1. token \subseteq Token /\ \A r, s \in token : r.id = s.id => r = s
  BY <1>0 DEF AccountsTypeOK
<1>2. CASE token' \subseteq token /\ issued' = issued
  BY <1>0, <1>1, <1>2
<1>3. ASSUME NEW e \in Emails, NEW kept, kept \subseteq token, token' = kept \cup {NewToken(e)},
             issued < MaxTokens, issued' = issued + 1, user'[e].role # "none"
      PROVE  /\ token' \subseteq Token /\ \A r, s \in token' : r.id = s.id => r = s
             /\ \A s \in token' :
                  \/ \E r \in token : r.id = s.id /\ r.email = s.email
                  \/ s.id = issued + 1 /\ s.email = e
  <2>1. NewToken(e) \in Token /\ NewToken(e).id = issued + 1 /\ NewToken(e).email = e
    BY <1>0, <1>3 DEF NewToken, Token
  <2>2. \A r \in token : r.id \in Nat /\ r.id <= issued
    BY <1>0, TokenFields DEF AInv, Minted
  <2>3. \A r \in token : r.id # issued + 1
    BY <1>0, <2>2
  <2> QED
    BY <1>1, <1>3, <2>1, <2>3
<1>4. CASE \E t \in Threads : CreateUser(t)
  <2>1. PICK t \in Threads : CreateUser(t)
    BY <1>4
  <2>2. thread[t].pc = "createUser" /\ thread[t].email \in Emails /\ Given(t) \in Roles
    BY <2>1 DEF CreateUser, AInv, Read, ReadOf, Given
  <2>3. user'[thread[t].email].role # "none"
    BY <1>0, <2>1, <2>2 DEF CreateUser, AccountsTypeOK, Roles
  <2>4. /\ token' = token \cup {NewToken(thread[t].email)}
        /\ issued < MaxTokens /\ issued' = issued + 1
    BY <2>1 DEF CreateUser, IssueTo
  <2>5. PICK e \in Emails : e = thread[t].email
    BY <2>2
  <2>6. token \subseteq token /\ token' = token \cup {NewToken(e)} /\ user'[e].role # "none"
    BY <2>3, <2>4, <2>5
  <2> QED
    BY <1>0, <1>3, <2>4, <2>6, <2>3, <2>5
<1>5. CASE \E t \in Threads : Reissue(t)
  <2>1. PICK t \in Threads : Reissue(t)
    BY <1>5
  <2>2. thread[t].pc = "reissue" /\ thread[t].email \in Emails /\ HasUser(thread[t].email)
    BY <2>1 DEF Reissue, AInv, Read, ReadOf
  <2>3. user'[thread[t].email].role # "none"
    BY <2>1, <2>2 DEF Reissue, HasUser
  <2>4. /\ token' = {r \in token : r.id \notin thread[t].doomed} \cup {NewToken(thread[t].email)}
        /\ issued < MaxTokens /\ issued' = issued + 1
    BY <2>1 DEF Reissue, IssueTo
  <2>5. PICK e \in Emails : e = thread[t].email
    BY <2>2
  <2>6. PICK kept : kept = {r \in token : r.id \notin thread[t].doomed}
    OBVIOUS
  <2>7. kept \subseteq token /\ token' = kept \cup {NewToken(e)} /\ user'[e].role # "none"
    BY <2>3, <2>4, <2>5, <2>6
  <2>8. issued < MaxTokens /\ issued' = issued + 1
    BY <2>4
  <2>9. /\ token' \subseteq Token /\ \A r, s \in token' : r.id = s.id => r = s
        /\ \A s \in token' :
             \/ \E r \in token : r.id = s.id /\ r.email = s.email
             \/ s.id = issued + 1 /\ s.email = e
    BY <1>3, <2>7, <2>8
  <2>10. issued' \in 0 .. MaxTokens /\ issued' >= issued
    BY <1>0, <2>8
  <2> QED
    BY <2>7, <2>8, <2>9, <2>10
<1>6. CASE \E t \in Threads : Mail(t)
  <2>1. PICK t \in Threads : Mail(t)
    BY <1>6
  <2> DEFINE after(r) == IF r.id = thread[t].id THEN [r EXCEPT !.mailed = TRUE] ELSE r
  <2>2. ASSUME NEW r \in token
        PROVE  after(r) \in Token /\ after(r).id = r.id /\ after(r).email = r.email
    BY <1>1 DEF Token
  <2>3. token' = {after(r) : r \in token} /\ issued' = issued
    BY <2>1 DEF Mail
  <2> HIDE DEF after
  <2> QED
    BY <1>0, <1>1, <2>2, <2>3
<1>7. CASE Expire
  <2>1. CASE token' = token
    BY <1>2, <1>7, <2>1 DEF Expire
  <2>2. CASE token' # token
    <3>1. PICK r \in token : token' = (token \ {r}) \cup {[r EXCEPT !.expired = TRUE]}
      BY <1>7, <2>2 DEF Expire
    <3> DEFINE x == [r EXCEPT !.expired = TRUE]
    <3>2. x \in Token /\ x.id = r.id /\ x.email = r.email
      BY <1>1 DEF Token
    <3>3. token' = (token \ {r}) \cup {x} /\ issued' = issued
      BY <1>7, <3>1 DEF Expire
    <3> HIDE DEF x
    <3> QED
      BY <1>0, <1>1, <3>2, <3>3
  <2> QED
    BY <2>1, <2>2
<1>8. CASE \/ \E t \in Threads : ReadsOnly(t) \/ SaveInvite(t) \/ Verify(t)
           \/ \E e \in Emails : LogIn(e) \/ LogOutOrExpire(e) \/ CreateAdmin(e)
  <2>1. token' \subseteq token /\ issued' = issued
    BY <1>8 DEF ReadsOnly, Signup, Resend, Invite, ReadUser, ReadToken, DeleteTokens, Abandon,
       SaveInvite, Verify, LogIn, LogOutOrExpire, CreateAdmin, tables
  <2> QED
    BY <1>2, <2>1
<1> QED
  BY <1>4, <1>5, <1>6, <1>7, <1>8, StepKinds DEF Writes, Outside

(* Accounts stay, and so does what the rest of the tables says of them.    *)
LEMMA TablesMove ==
  ASSUME AInv, AccountsNext
  PROVE  /\ user' \in [Emails -> UserType] /\ invite' \in [Emails -> InviteType]
         /\ login' \subseteq Emails
         /\ \A e \in Emails : HasUser(e) => user'[e].role # "none"
         /\ \A e \in Emails : HasInvite(e) => invite'[e].role # "none"
         /\ SpentInviteHasAccount' /\ SessionsAreGood'
         /\ history' \in [bootstrapped : SUBSET Emails, proved : SUBSET Emails,
                          spent : SUBSET (1 .. MaxTokens)]
         /\ \A e \in Emails : user'[e].role = "none" => ~user'[e].verified
         /\ \A e \in Emails : user'[e].verified =>
                e \in history'.bootstrapped \cup history'.proved
<1> DEFINE HistoryType == [bootstrapped : SUBSET Emails, proved : SUBSET Emails,
                           spent : SUBSET (1 .. MaxTokens)]
           Good == history.bootstrapped \cup history.proved
           GoodAfter == history'.bootstrapped \cup history'.proved
<1>0. /\ user \in [Emails -> UserType] /\ invite \in [Emails -> InviteType]
      /\ login \subseteq Emails /\ thread \in [Threads -> ThreadType]
      /\ history \in HistoryType
  BY DEF AInv, AccountsTypeOK, UserType, InviteType, ThreadType
<1>1. /\ \A e \in Emails : user[e].role = "none" => ~user[e].verified
      /\ \A e \in Emails : user[e].verified => e \in Good
      /\ \A e \in Emails : invite[e].accepted => user[e].role # "none"
      /\ \A e \in login : user[e].verified
  BY DEF AInv, Founded, SpentInviteHasAccount, SessionsAreGood, HasUser
<1>2. ASSUME /\ user' \in [Emails -> UserType] /\ invite' \in [Emails -> InviteType]
             /\ login' \subseteq Emails /\ history' \in HistoryType
             /\ \A e \in Emails : user[e].role # "none" => user'[e].role # "none"
             /\ \A e \in Emails : user'[e].role = "none" => ~user'[e].verified
             /\ \A e \in Emails : user'[e].verified => e \in GoodAfter
             /\ \A e \in Emails : invite'[e].accepted => user'[e].role # "none"
             /\ \A e \in login' : user'[e].verified
             /\ \A e \in Emails : invite[e].role # "none" => invite'[e].role # "none"
      PROVE  /\ \A e \in Emails : HasUser(e) => user'[e].role # "none"
             /\ \A e \in Emails : HasInvite(e) => invite'[e].role # "none"
             /\ SpentInviteHasAccount' /\ SessionsAreGood'
  BY <1>2 DEF HasUser, HasInvite, SpentInviteHasAccount, SessionsAreGood
<1>3. CASE UNCHANGED <<user, invite, login, history>>
  BY <1>0, <1>1, <1>2, <1>3
<1>4. CASE \E t \in Threads : ReadsOnly(t) \/ Mail(t) \/ Reissue(t)
  <2>1. UNCHANGED <<user, invite, login, history>>
    BY <1>4 DEF ReadsOnly, Signup, Resend, Invite, ReadUser, ReadToken, DeleteTokens, Abandon,
       Mail, Reissue, tables
  <2> QED
    BY <1>3, <2>1
<1>5. ASSUME NEW t \in Threads, CreateUser(t)
      PROVE  /\ user' \in [Emails -> UserType] /\ invite' \in [Emails -> InviteType]
             /\ \A e \in Emails : user[e].role # "none" => user'[e].role # "none"
             /\ \A e \in Emails : user'[e].role = "none" => ~user'[e].verified
             /\ \A e \in Emails : user'[e].verified => user[e].verified
             /\ \A e \in Emails : invite'[e].accepted => user'[e].role # "none"
             /\ \A e \in Emails : user[e].verified => user'[e].verified
             /\ \A e \in Emails : invite[e].role # "none" => invite'[e].role # "none"
             /\ UNCHANGED <<login, history>>
  <2>1. PICK m \in Emails, role \in Roles : m = thread[t].email /\ role = Given(t)
    <3>1. thread[t].pc = "createUser"
      BY <1>5 DEF CreateUser
    <3> QED
      BY <3>1 DEF AInv, Read, ReadOf, Given
  <2>2. /\ ~HasUser(m) /\ UNCHANGED <<login, history>>
        /\ user' = [user EXCEPT ![m] = [role |-> role, verified |-> FALSE]]
        /\ invite' = [invite EXCEPT ![m].accepted = TRUE]
    BY <1>5, <2>1 DEF CreateUser
  <2>3. [role |-> role, verified |-> FALSE] \in UserType /\ role # "none"
    BY DEF UserType, Roles
  <2>4. user' \in [Emails -> UserType]
    BY <1>0, <2>2, <2>3
  <2>5. invite' \in [Emails -> InviteType]
    BY <1>0, <2>2 DEF InviteType
  <2>6. /\ user'[m].role = role /\ ~user'[m].verified /\ ~user[m].verified
        /\ \A e \in Emails : e # m => user'[e] = user[e] /\ invite'[e] = invite[e]
        /\ invite'[m].role = invite[m].role
    BY <1>0, <1>1, <2>2 DEF HasUser, InviteType
  <2> QED
    BY <1>1, <2>2, <2>3, <2>4, <2>5, <2>6
<1>6. CASE \E t \in Threads : CreateUser(t)
  BY <1>0, <1>1, <1>2, <1>5, <1>6
<1>7. CASE \E t \in Threads : Verify(t)
  <2>1. PICK t \in Threads : Verify(t)
    BY <1>7
  <2>2. PICK m \in Emails : m = thread[t].email /\ HasUser(m) /\ thread[t].id \in 1 .. MaxTokens
    <3>1. thread[t].pc = "verify"
      BY <2>1 DEF Verify
    <3>2. thread[t].id \in 1 .. issued /\ issued \in 0 .. MaxTokens /\ MaxTokens \in Nat
      BY <3>1, AccountsAssumption DEF AInv, Read, ReadOf, AccountsTypeOK
    <3> QED
      BY <3>1, <3>2 DEF AInv, Read, ReadOf
  <2>3. UNCHANGED <<invite, login>>
    BY <2>1 DEF Verify
  <2>4. CASE thread[t].accepted
    <3>1. user' = [user EXCEPT ![m].verified = TRUE]
      BY <2>1, <2>2, <2>4 DEF Verify, Valid
    <3>2. history' = [history EXCEPT !.spent = @ \cup {thread[t].id}, !.proved = @ \cup {m}]
      BY <2>1, <2>2, <2>4 DEF Verify
    <3>3. /\ history' \in HistoryType /\ history'.bootstrapped = history.bootstrapped
          /\ history'.proved = history.proved \cup {m}
      BY <1>0, <2>2, <3>2
    <3>4. user' \in [Emails -> UserType]
      BY <1>0, <3>1 DEF UserType
    <3>5. /\ user'[m].role = user[m].role /\ user'[m].verified
          /\ \A e \in Emails : e # m => user'[e] = user[e]
      BY <1>0, <3>1 DEF UserType
    <3>6. user[m].role # "none"
      BY <2>2 DEF HasUser
    <3> QED
      BY <1>0, <1>1, <1>2, <2>3, <3>3, <3>4, <3>5, <3>6
  <2>5. CASE ~thread[t].accepted
    <3>1. user' = user
      BY <2>1, <2>5 DEF Verify, Valid
    <3>2. history' = [history EXCEPT !.spent = @ \cup {thread[t].id}, !.proved = @]
      BY <2>1, <2>2, <2>5 DEF Verify
    <3>3. /\ history' \in HistoryType /\ history'.bootstrapped = history.bootstrapped
          /\ history'.proved = history.proved
      BY <1>0, <2>2, <3>2
    <3> QED
      BY <1>0, <1>1, <1>2, <2>3, <3>1, <3>3
  <2> QED
    BY <2>4, <2>5
<1>8. CASE \E t \in Threads : SaveInvite(t)
  <2>1. PICK t \in Threads : SaveInvite(t)
    BY <1>8
  <2>2. PICK m \in Emails : m = thread[t].email
    BY <2>1 DEF SaveInvite, AInv, Read, ReadOf
  <2>3. PICK role \in Roles :
          invite' = [invite EXCEPT ![m] =
            [role |-> IF role = thread[t].role THEN @.role ELSE role,
             accepted |-> @.accepted /\ ~thread[t].accepted, expired |-> FALSE]]
    BY <2>1, <2>2 DEF SaveInvite
  <2>4. UNCHANGED <<user, login, history>>
    BY <2>1 DEF SaveInvite
  <2> DEFINE row == [role |-> IF role = thread[t].role THEN invite[m].role ELSE role,
                     accepted |-> invite[m].accepted /\ ~thread[t].accepted, expired |-> FALSE]
  <2>5. row \in InviteType
    BY <1>0 DEF InviteType
  <2>6. invite' = [invite EXCEPT ![m] = row]
    BY <2>3
  <2>7. row.accepted => invite[m].accepted
    OBVIOUS
  <2>10. invite[m].role # "none" => row.role # "none"
    BY DEF Roles
  <2> HIDE DEF row
  <2>8. invite' \in [Emails -> InviteType]
    BY <1>0, <2>5, <2>6
  <2>9. \A e \in Emails : /\ invite'[e].accepted => invite[e].accepted
                          /\ invite[e].role # "none" => invite'[e].role # "none"
    BY <1>0, <2>6, <2>7, <2>10
  <2> QED
    BY <1>0, <1>1, <1>2, <2>4, <2>8, <2>9
<1>9. CASE \E e \in Emails : LogIn(e) \/ LogOutOrExpire(e)
  <2>1. /\ UNCHANGED <<user, invite, history>> /\ login' \subseteq Emails
        /\ \A e \in login' : user[e].verified
    BY <1>0, <1>1, <1>9 DEF LogIn, LogOutOrExpire
  <2> QED
    BY <1>0, <1>1, <1>2, <2>1
<1>10. CASE \E e \in Emails : CreateAdmin(e)
  <2>1. PICK m \in Emails : CreateAdmin(m)
    BY <1>10
  <2>2. /\ user' = [user EXCEPT ![m] = [role |-> "admin", verified |-> TRUE]]
        /\ history' = [history EXCEPT !.bootstrapped = @ \cup {m}]
        /\ UNCHANGED <<invite, login>>
    BY <2>1 DEF CreateAdmin
  <2>3. [role |-> "admin", verified |-> TRUE] \in UserType
    BY DEF UserType, Roles
  <2>4. /\ user' \in [Emails -> UserType] /\ user'[m].role = "admin" /\ user'[m].verified
        /\ \A e \in Emails : e # m => user'[e] = user[e]
    BY <1>0, <2>2, <2>3
  <2>5. /\ history' \in HistoryType /\ history'.proved = history.proved
        /\ history'.bootstrapped = history.bootstrapped \cup {m}
    BY <1>0, <2>2
  <2> QED
    BY <1>0, <1>1, <1>2, <2>2, <2>4, <2>5
<1>11. CASE Expire
  <2>1. UNCHANGED <<user, login, history>>
    BY <1>11 DEF Expire
  <2>2. /\ invite' \in [Emails -> InviteType]
        /\ \A e \in Emails : /\ invite'[e].accepted = invite[e].accepted
                             /\ invite'[e].role = invite[e].role
    <3>1. CASE invite' = invite
      BY <1>0, <3>1
    <3>2. CASE invite' # invite
      <4>1. PICK m \in Emails : invite' = [invite EXCEPT ![m].expired = TRUE]
        BY <1>11, <3>2 DEF Expire
      <4> QED
        BY <1>0, <4>1 DEF InviteType
    <3> QED
      BY <3>1, <3>2
  <2> QED
    BY <1>0, <1>1, <1>2, <2>1, <2>2
<1> QED
  BY <1>4, <1>6, <1>7, <1>8, <1>9, <1>10, <1>11, StepKinds DEF Writes, Outside

(* A request that does not move keeps what it has read.                    *)
LEMMA OthersRead ==
  ASSUME AInv, AccountsNext, NEW o \in Threads,
         \/ thread'[o] = thread[o]
         \/ \E x \in Roles : thread'[o] = [thread[o] EXCEPT !.offered = @ \cup {x}]
  PROVE  thread'[o] \in ThreadType /\ ReadOf(o)' /\ thread'[o].before = thread[o].before
<1>0. thread[o] \in ThreadType /\ ReadOf(o) /\ issued \in Nat /\ MaxTokens \in Nat
  BY AccountsAssumption DEF AInv, Read, AccountsTypeOK, ThreadType
<1>1. /\ thread'[o] \in ThreadType
      /\ thread'[o].pc = thread[o].pc /\ thread'[o].email = thread[o].email
      /\ thread'[o].role = thread[o].role /\ thread'[o].id = thread[o].id
      /\ thread'[o].before = thread[o].before /\ thread'[o].doomed = thread[o].doomed
      /\ thread[o].offered \subseteq thread'[o].offered
  <2>1. CASE thread'[o] = thread[o]
    BY <1>0, <2>1
  <2>2. CASE \E x \in Roles : thread'[o] = [thread[o] EXCEPT !.offered = @ \cup {x}]
    BY <1>0, <2>2 DEF ThreadType
  <2> QED
    BY <2>1, <2>2
<1>2. /\ issued' \in Nat /\ issued' >= issued
      /\ \A s \in token' :
           \/ \E r \in token : r.id = s.id /\ r.email = s.email
           \/ s.id = issued + 1
  BY TokensMove, AccountsAssumption
<1>3. \A e \in Emails : /\ HasUser(e) => user'[e].role # "none"
                        /\ HasInvite(e) => invite'[e].role # "none"
  BY TablesMove
<1>4. \A id \in thread[o].before : id \in Nat /\ id <= issued
  <2>1. thread[o].before \in SUBSET (1 .. MaxTokens)
    BY <1>0 DEF ThreadType
  <2> QED
    BY <1>0, <2>1 DEF AInv, Minted
<1>5. \A s \in token' : s.id \in thread[o].before =>
        \E r \in token : r.id = s.id /\ r.email = s.email
  BY <1>0, <1>2, <1>4
<1>6. thread'[o].pc \in {"delete", "reissue"} =>
        /\ user'[thread'[o].email].role # "none"
        /\ \A s \in token' : s.id \in thread'[o].before => s.email = thread'[o].email
  BY <1>0, <1>1, <1>3, <1>5 DEF ReadOf
<1>7. thread'[o].pc = "reissue" =>
        \A s \in token' : s.id \in thread'[o].before => s.id \in thread'[o].doomed
  BY <1>0, <1>1, <1>5 DEF ReadOf
<1>8. thread'[o].pc = "verify" =>
        user'[thread'[o].email].role # "none" /\ thread'[o].id \in 1 .. issued'
  BY <1>0, <1>1, <1>2, <1>3 DEF ReadOf
<1>9. /\ thread'[o].pc \notin {"idle", "mail"} => thread'[o].email \in Emails
      /\ thread'[o].pc \in {"readUser", "createUser"} =>
           thread'[o].role \in Roles \cap thread'[o].offered
      /\ thread'[o].pc = "saveInvite" /\ thread'[o].role # "none" =>
           invite'[thread'[o].email].role # "none"
  BY <1>0, <1>1, <1>3 DEF ReadOf
<1> QED
  BY <1>1, <1>6, <1>7, <1>8, <1>9 DEF ReadOf, HasUser, HasInvite

(* What a request reads in its own step.                                   *)
LEMMA ActorReads ==
  ASSUME AInv, AccountsNext, NEW t \in Threads, ReadsOnly(t) \/ Writes(t)
  PROVE  /\ thread'[t] \in ThreadType /\ ReadOf(t)'
         /\ \A id \in thread'[t].before : id <= issued
         /\ \A o \in Threads \ {t} :
              \/ thread'[o] = thread[o]
              \/ \E x \in Roles : thread'[o] = [thread[o] EXCEPT !.offered = @ \cup {x}]
         /\ DOMAIN thread' = Threads
<1> DEFINE Others == \A o \in Threads \ {t} :
              \/ thread'[o] = thread[o]
              \/ \E x \in Roles : thread'[o] = [thread[o] EXCEPT !.offered = @ \cup {x}]
<1>0. /\ thread \in [Threads -> ThreadType] /\ thread[t] \in ThreadType /\ ReadOf(t)
      /\ invite \in [Emails -> InviteType] /\ issued \in 0 .. MaxTokens /\ MaxTokens \in Nat
  BY AccountsAssumption DEF AInv, Read, AccountsTypeOK, ThreadType, InviteType
<1>1. /\ \A r \in token : /\ r.id \in 1 .. issued /\ r.id \in 1 .. MaxTokens
                          /\ r.email \in Emails /\ HasUser(r.email)
      /\ \A r, s \in token : r.id = s.id => r = s
  <2>1. \A r \in token : r.id <= issued /\ HasUser(r.email)
    BY DEF AInv, Minted, Founded
  <2>2. \A r \in token : r.id \in 1 .. MaxTokens /\ r.email \in Emails
    BY TokenFields DEF AInv
  <2> QED
    BY <1>0, <2>1, <2>2 DEF AInv, AccountsTypeOK
<1>2. NoRequest \in ThreadType /\ NoRequest.pc = "idle" /\ NoRequest.before = {}
  BY <1>0 DEF NoRequest, ThreadType
<1>3. \A e \in Emails : HasUser(e) => user'[e].role # "none"
  BY TablesMove
<1>4. ASSUME NEW x, thread' = [thread EXCEPT ![t] = x]
      PROVE  thread'[t] = x /\ Others /\ DOMAIN thread' = Threads
  BY <1>0, <1>4
<1>5. CASE thread' = [thread EXCEPT ![t] = NoRequest]
  BY <1>2, <1>4, <1>5 DEF ReadOf
<1>6. CASE \E e \in Emails : Signup(t, e) \/ Invite(t, e)
  <2>1. PICK e \in Emails : Signup(t, e) \/ Invite(t, e)
    BY <1>6
  <2>2. PICK pc \in {"readUser", "saveInvite"}, offered \in SUBSET (Roles \cup {"none"}) :
          /\ thread' = [thread EXCEPT ![t] =
               [NoRequest EXCEPT !.pc = pc, !.email = e, !.role = invite[e].role,
                                 !.accepted = invite[e].accepted, !.offered = offered]]
          /\ pc = "readUser" => HasInvite(e) /\ offered = {invite[e].role}
    <3>1. invite[e].role \in Roles \cup {"none"} /\ {} \in SUBSET (Roles \cup {"none"})
      BY <1>0 DEF InviteType
    <3>2. CASE Signup(t, e)
      <4>1. {invite[e].role} \in SUBSET (Roles \cup {"none"})
        BY <3>1
      <4> QED
        BY <3>2, <4>1 DEF Signup, Begin, ReadInvite
    <3>3. CASE Invite(t, e)
      <4>1. [ReadInvite(e, "saveInvite") EXCEPT !.offered = {}]
              = [NoRequest EXCEPT !.pc = "saveInvite", !.email = e, !.role = invite[e].role,
                                  !.accepted = invite[e].accepted, !.offered = {}]
        BY DEF ReadInvite, NoRequest
      <4> QED
        BY <3>1, <3>3, <4>1 DEF Invite, Begin
    <3> QED
      BY <2>1, <3>2, <3>3
  <2> DEFINE x == [NoRequest EXCEPT !.pc = pc, !.email = e, !.role = invite[e].role,
                                    !.accepted = invite[e].accepted, !.offered = offered]
  <2>3. /\ x \in ThreadType /\ x.pc = pc /\ x.email = e /\ x.role = invite[e].role
        /\ x.offered = offered /\ x.before = {}
    BY <1>0, <1>2 DEF ThreadType, InviteType, NoRequest
  <2>4. pc = "readUser" => invite[e].role \in Roles \cap offered
    BY <1>0, <2>2 DEF HasInvite, InviteType
  <2> HIDE DEF x
  <2>5. thread'[t] = x /\ Others /\ DOMAIN thread' = Threads
    BY <1>4, <2>2 DEF x
  <2>6. invite' = invite
    BY <2>1 DEF Signup, Invite, tables
  <2> QED
    BY <2>3, <2>4, <2>5, <2>6 DEF ReadOf, HasInvite
<1>7. CASE ReadToken(t)
  <2>1. PICK r \in token, valid \in BOOLEAN :
          thread' = [thread EXCEPT ![t] = [NoRequest EXCEPT !.pc = "verify", !.email = r.email,
                                             !.id = r.id, !.accepted = valid]]
    BY <1>7 DEF ReadToken, Begin
  <2> DEFINE x == [NoRequest EXCEPT !.pc = "verify", !.email = r.email, !.id = r.id,
                                    !.accepted = valid]
  <2>5. r.email \in Emails /\ r.id \in 1 .. MaxTokens /\ valid \in BOOLEAN
    BY <1>0, <2>1, TokenFields DEF AInv
  <2>6. r.id \in 0 .. MaxTokens
    BY <1>0, <2>5
  <2>2. /\ x \in ThreadType /\ x.pc = "verify" /\ x.email = r.email /\ x.id = r.id
        /\ x.before = {}
    BY <1>2, <2>5, <2>6 DEF ThreadType
  <2>3. issued' = issued /\ user' = user
    BY <1>7 DEF ReadToken, tables
  <2> HIDE DEF x
  <2>4. thread'[t] = x /\ Others /\ DOMAIN thread' = Threads
    BY <1>4, <2>1 DEF x
  <2> QED
    BY <1>1, <2>2, <2>3, <2>4 DEF ReadOf, HasUser
<1>8. CASE \E e \in Emails : Resend(t, e)
  <2>1. PICK e \in Emails : Resend(t, e)
    BY <1>8
  <2>2. PICK ids : ids = IdsOf(TokensOf(e))
    OBVIOUS
  <2>3. /\ thread' = [thread EXCEPT ![t] = [NoRequest EXCEPT !.pc = "delete", !.email = e,
                                                            !.before = ids]]
        /\ HasUser(e) /\ user' = user /\ token' = token
    BY <2>1, <2>2 DEF Resend, Begin, tables
  <2>4. /\ \A id \in ids : id \in 1 .. MaxTokens /\ id <= issued
        /\ \A r \in token : r.id \in ids => r.email = e
    BY <1>0, <1>1, <2>2 DEF IdsOf, TokensOf
  <2> DEFINE x == [NoRequest EXCEPT !.pc = "delete", !.email = e, !.before = ids]
  <2>5. x \in ThreadType /\ x.pc = "delete" /\ x.email = e /\ x.before = ids
    BY <1>0, <1>2, <2>4 DEF ThreadType, NoRequest
  <2> HIDE DEF x
  <2>6. thread'[t] = x /\ Others /\ DOMAIN thread' = Threads
    BY <1>4, <2>3 DEF x
  <2> QED
    BY <2>3, <2>4, <2>5, <2>6 DEF ReadOf, HasUser
<1>9. CASE ReadUser(t)
  <2>1. CASE thread' = [thread EXCEPT ![t] = NoRequest]
    BY <1>5, <2>1
  <2>2. CASE thread' = [thread EXCEPT ![t].pc = "createUser"]
    <3>1. thread[t].pc = "readUser"
      BY <1>9 DEF ReadUser
    <3>2. thread' = [thread EXCEPT ![t] = [thread[t] EXCEPT !.pc = "createUser"]]
      BY <2>2
    <3>3. thread'[t] = [thread[t] EXCEPT !.pc = "createUser"] /\ Others /\ DOMAIN thread' = Threads
      BY <1>0, <3>2
    <3>4. /\ thread'[t] \in ThreadType /\ thread'[t].pc = "createUser"
          /\ thread'[t].email = thread[t].email /\ thread'[t].role = thread[t].role
          /\ thread'[t].offered = thread[t].offered /\ thread'[t].before = thread[t].before
      BY <1>0, <3>3 DEF ThreadType
    <3> QED
      BY <1>0, <3>1, <3>3, <3>4 DEF ReadOf, AInv, Minted
  <2> QED
    BY <1>9, <2>1, <2>2 DEF ReadUser, Free
<1>10. CASE DeleteTokens(t)
  <2>1. PICK ids : ids = IdsOf(Doomed(thread[t].email))
    OBVIOUS
  <2>2. /\ thread[t].pc = "delete" /\ UNCHANGED <<user, token, issued>>
        /\ thread' = [thread EXCEPT ![t] = [thread[t] EXCEPT !.pc = "reissue", !.doomed = ids]]
    BY <1>10, <2>1 DEF DeleteTokens, tables
  <2>3. /\ \A id \in ids : id \in 1 .. MaxTokens
        /\ \A r \in token : r.email = thread[t].email => r.id \in ids
    BY <1>0, <1>1, <2>1 DEF IdsOf, Doomed, TokensOf
  <2>4. thread'[t] = [thread[t] EXCEPT !.pc = "reissue", !.doomed = ids] /\ Others
        /\ DOMAIN thread' = Threads
    BY <1>0, <2>2
  <2>5. /\ thread'[t] \in ThreadType /\ thread'[t].pc = "reissue"
        /\ thread'[t].email = thread[t].email /\ thread'[t].doomed = ids
        /\ thread'[t].before = thread[t].before
    BY <1>0, <2>3, <2>4 DEF ThreadType
  <2>6. \A id \in thread[t].before : id <= issued
    BY DEF AInv, Minted
  <2> QED
    BY <1>0, <2>2, <2>3, <2>4, <2>5, <2>6 DEF ReadOf, HasUser
<1>11. CASE Abandon(t) \/ Mail(t) \/ Verify(t)
  BY <1>5, <1>11 DEF Abandon, Mail, Verify, Free
<1>12. CASE CreateUser(t) \/ Reissue(t)
  <2>1. /\ thread' = [thread EXCEPT ![t] = [NoRequest EXCEPT !.pc = "mail", !.id = issued + 1]]
        /\ issued < MaxTokens
    BY <1>12 DEF CreateUser, Reissue, IssueTo
  <2> DEFINE x == [NoRequest EXCEPT !.pc = "mail", !.id = issued + 1]
  <2>2. x \in ThreadType /\ x.pc = "mail" /\ x.before = {}
    <3>1. issued + 1 \in 0 .. MaxTokens
      BY <1>0, <2>1
    <3> QED
      BY <1>2, <3>1 DEF ThreadType, NoRequest
  <2> HIDE DEF x
  <2>3. thread'[t] = x /\ Others /\ DOMAIN thread' = Threads
    BY <1>4, <2>1 DEF x
  <2> QED
    BY <2>2, <2>3 DEF ReadOf
<1>13. CASE SaveInvite(t)
  <2>1. PICK y \in Emails : y = thread[t].email
    BY <1>0, <1>13 DEF SaveInvite, ReadOf
  <2>2. invite'[y].role \in Roles
    <3>1. PICK role \in Roles :
            invite' = [invite EXCEPT ![y] =
              [role |-> IF role = thread[t].role THEN @.role ELSE role,
               accepted |-> @.accepted /\ ~thread[t].accepted, expired |-> FALSE]]
      BY <1>13, <2>1 DEF SaveInvite
    <3> DEFINE row == [role |-> IF role = thread[t].role THEN invite[y].role ELSE role,
                       accepted |-> invite[y].accepted /\ ~thread[t].accepted,
                       expired |-> FALSE]
    <3>2. invite' = [invite EXCEPT ![y] = row]
      BY <3>1
    <3>3. row.role = IF role = thread[t].role THEN invite[y].role ELSE role
      OBVIOUS
    <3> HIDE DEF row
    <3>4. invite'[y].role = IF role = thread[t].role THEN invite[y].role ELSE role
      BY <1>0, <3>2, <3>3
    <3>5. role = thread[t].role => invite[y].role \in Roles
      BY <1>0, <1>13, <2>1 DEF ReadOf, SaveInvite, HasInvite, InviteType, Roles
    <3> QED
      BY <3>4, <3>5
  <2>3. thread' = [o \in Threads |->
            IF o = t THEN NoRequest
            ELSE IF thread[o].email = y /\ thread[o].pc \in {"readUser", "createUser"}
                 THEN [thread[o] EXCEPT !.offered = @ \cup {invite'[y].role}]
                 ELSE thread[o]]
    BY <1>13, <2>1 DEF SaveInvite
  <2>4. thread'[t] = NoRequest /\ DOMAIN thread' = Threads
    BY <2>3
  <2>5. Others
    BY <2>2, <2>3
  <2> QED
    BY <1>2, <2>4, <2>5 DEF ReadOf
<1> QED
  BY <1>6, <1>7, <1>8, <1>9, <1>10, <1>11, <1>12, <1>13 DEF ReadsOnly, Writes

-----------------------------------------------------------------------------
LEMMA AccountsInitially == AccountsInit => AInv
<1> SUFFICES ASSUME AccountsInit PROVE AInv
  OBVIOUS
<1>1. NoRequest \in ThreadType /\ NoRequest.pc = "idle" /\ NoRequest.before = {}
  BY AccountsAssumption DEF NoRequest, ThreadType
<1>2. NoUser \in UserType /\ NoUser.role = "none" /\ ~NoUser.verified
  BY DEF NoUser, UserType
<1>3. NoInvite \in InviteType /\ ~NoInvite.accepted
  BY DEF NoInvite, InviteType
<1>4. /\ NoHistory \in [bootstrapped : SUBSET Emails, proved : SUBSET Emails,
                        spent : SUBSET (1 .. MaxTokens)]
      /\ NoHistory.spent = {}
  BY DEF NoHistory
<1>5. AccountsTypeOK
  BY <1>1, <1>2, <1>3, <1>4, AccountsAssumption
     DEF AccountsInit, AccountsTypeOK, ThreadType, UserType, InviteType
<1>6. Minted /\ PresentedIsSpent
  BY <1>1, <1>4 DEF AccountsInit, Minted, PresentedIsSpent, IdsOf
<1>7. Founded /\ SpentInviteHasAccount /\ SessionsAreGood
  BY <1>2, <1>3 DEF AccountsInit, Founded, HasUser, SpentInviteHasAccount, SessionsAreGood
<1>8. Read
  BY <1>1 DEF AccountsInit, Read, ReadOf
<1> QED
  BY <1>5, <1>6, <1>7, <1>8 DEF AInv

(* What is presented is deleted, and no id is given twice.                 *)
LEMMA SpentStays ==
  ASSUME AInv, AccountsNext
  PROVE  /\ \A id \in history'.spent : id \in Nat /\ id <= issued
         /\ \A s \in token' : s.id \notin history'.spent
<1>0. /\ issued \in Nat /\ \A id \in history.spent : id \in Nat /\ id <= issued
      /\ \A r \in token : r.id \notin history.spent
  <2>1. issued \in 0 .. MaxTokens /\ MaxTokens \in Nat /\ history.spent \in SUBSET (1 .. MaxTokens)
    BY AccountsAssumption DEF AInv, AccountsTypeOK
  <2>2. \A id \in history.spent : id <= issued
    BY DEF AInv, Minted
  <2>3. \A r \in token : r.id \notin history.spent
    BY DEF AInv, PresentedIsSpent, IdsOf
  <2> QED
    BY <2>1, <2>2, <2>3
<1>1. \A s \in token' : s.id = issued + 1 \/ \E r \in token : r.id = s.id
  BY TokensMove
<1>2. CASE history'.spent = history.spent
  BY <1>0, <1>1, <1>2
<1>3. CASE history'.spent # history.spent
  <2>1. PICK t \in Threads : Verify(t)
    <3>1. history \in [bootstrapped : SUBSET Emails, proved : SUBSET Emails,
                      spent : SUBSET (1 .. MaxTokens)]
      BY DEF AInv, AccountsTypeOK
    <3>2. \A e \in Emails : ~CreateAdmin(e)
      BY <1>3, <3>1 DEF CreateAdmin
    <3>3. history' # history
      BY <1>3
    <3>4. \A t \in Threads :
            ~ReadsOnly(t) /\ ~CreateUser(t) /\ ~Mail(t) /\ ~Reissue(t) /\ ~SaveInvite(t)
      BY <3>3 DEF ReadsOnly, Signup, Resend, Invite, ReadUser, ReadToken, DeleteTokens, Abandon,
         CreateUser, Mail, Reissue, SaveInvite
    <3>5. ~Expire /\ \A e \in Emails : ~LogIn(e) /\ ~LogOutOrExpire(e)
      BY <3>3 DEF Expire, LogIn, LogOutOrExpire
    <3> QED
      BY <3>2, <3>4, <3>5, StepKinds DEF Writes, Outside
  <2>2. history'.spent = history.spent \cup {thread[t].id}
    BY <2>1 DEF Verify, AInv, AccountsTypeOK
  <2>3. token' \subseteq token /\ \A s \in token' : s.id # thread[t].id
    BY <2>1 DEF Verify, Deleted
  <2>4. thread[t].id \in 1 .. issued
    BY <2>1 DEF Verify, AInv, Read, ReadOf
  <2> QED
    BY <1>0, <2>2, <2>3, <2>4
<1> QED
  BY <1>2, <1>3

LEMMA AccountsStep ==
  ASSUME AInv, [AccountsNext]_accountVars
  PROVE  AInv'
<1>1. CASE AccountsNext
  <2>1. thread' \in [Threads -> ThreadType] /\ Read' /\
        \A t \in Threads : \A id \in thread'[t].before : id <= issued
    <3>0. /\ thread \in [Threads -> ThreadType]
          /\ \A t \in Threads : \A id \in thread[t].before : id <= issued
      BY DEF AInv, AccountsTypeOK, ThreadType, Minted
    <3>1. CASE Outside
      <4>1. thread' = thread
        BY <3>1 DEF Outside, Expire, LogIn, LogOutOrExpire, CreateAdmin
      <4>2. \A o \in Threads : ReadOf(o)'
        BY <1>1, <4>1, OthersRead
      <4> QED
        BY <3>0, <4>1, <4>2 DEF Read
    <3>2. CASE \E t \in Threads : ReadsOnly(t) \/ Writes(t)
      <4>1. PICK t \in Threads : ReadsOnly(t) \/ Writes(t)
        BY <3>2
      <4>2. /\ thread'[t] \in ThreadType /\ ReadOf(t)'
            /\ \A id \in thread'[t].before : id <= issued
            /\ \A o \in Threads \ {t} :
                 \/ thread'[o] = thread[o]
                 \/ \E x \in Roles : thread'[o] = [thread[o] EXCEPT !.offered = @ \cup {x}]
            /\ DOMAIN thread' = Threads
        BY <1>1, <4>1, ActorReads
      <4>3. \A o \in Threads \ {t} : /\ thread'[o] \in ThreadType /\ ReadOf(o)'
                                    /\ thread'[o].before = thread[o].before
        BY <1>1, <4>2, OthersRead
      <4>4. thread' = [o \in Threads |-> thread'[o]]
        <5>1. CASE ReadsOnly(t) \/ CreateUser(t) \/ Mail(t) \/ Verify(t) \/ Reissue(t)
          <6>1. \E x : thread' = [thread EXCEPT ![t] = x]
            <7>1. CASE \E e \in Emails : Signup(t, e) \/ Resend(t, e) \/ Invite(t, e)
              BY <7>1 DEF Signup, Resend, Invite, Begin
            <7>2. CASE ReadUser(t) \/ ReadToken(t) \/ DeleteTokens(t) \/ Abandon(t)
              BY <7>2 DEF ReadUser, ReadToken, DeleteTokens, Abandon, Begin, Free
            <7>3. CASE CreateUser(t) \/ Mail(t) \/ Verify(t) \/ Reissue(t)
              BY <7>3 DEF CreateUser, Mail, Verify, Reissue, IssueTo, Free
            <7> QED
              BY <5>1, <7>1, <7>2, <7>3 DEF ReadsOnly
          <6> QED
            BY <3>0, <6>1
        <5>2. CASE SaveInvite(t)
          BY <5>2 DEF SaveInvite
        <5> QED
          BY <4>1, <5>1, <5>2 DEF Writes
      <4>5. \A o \in Threads : thread'[o] \in ThreadType /\ ReadOf(o)'
        BY <4>2, <4>3
      <4> QED
        BY <3>0, <4>2, <4>3, <4>4, <4>5 DEF Read
    <3> QED
      BY <1>1, <3>1, <3>2, StepKinds
  <2>2. AccountsTypeOK'
    BY <1>1, <2>1, TokensMove, TablesMove DEF AccountsTypeOK, ThreadType, UserType, InviteType
  <2>3. Minted' /\ PresentedIsSpent'
    <3>1. issued \in Nat /\ issued' \in Nat /\ issued' >= issued
      BY <1>1, TokensMove, AccountsAssumption DEF AInv, AccountsTypeOK
    <3>2. \A r \in token : r.id \in Nat /\ r.id <= issued
      BY TokenFields DEF AInv, Minted
    <3>3. \A s \in token' : s.id <= issued'
      <4>1. \A s \in token' : (\E r \in token : r.id = s.id) \/ (s.id = issued + 1 /\ issued' = issued + 1)
        BY <1>1, TokensMove
      <4> QED
        BY <3>1, <3>2, <4>1
    <3>4. \A id \in history'.spent : id <= issued'
      BY <1>1, <3>1, SpentStays
    <3>5. \A t \in Threads : \A id \in thread'[t].before : id <= issued'
      <4>1. \A t \in Threads : \A id \in thread'[t].before : id \in 1 .. MaxTokens
        BY <2>1 DEF ThreadType
      <4> QED
        BY <2>1, <3>1, <4>1, AccountsAssumption
    <3>6. PresentedIsSpent'
      BY <1>1, SpentStays DEF PresentedIsSpent, IdsOf
    <3> QED
      BY <3>3, <3>4, <3>5, <3>6 DEF Minted
  <2>4. Founded'
    <3>1. \A s \in token' : user'[s.email].role # "none"
      <4>1. \A r \in token : r.email \in Emails /\ HasUser(r.email)
        BY TokenFields DEF AInv, Founded
      <4>2. \A s \in token' : (\E r \in token : r.email = s.email) \/ user'[s.email].role # "none"
        BY <1>1, TokensMove
      <4>3. \A e \in Emails : HasUser(e) => user'[e].role # "none"
        BY <1>1, TablesMove
      <4> QED
        BY <4>1, <4>2, <4>3
    <3>2. /\ \A e \in Emails : user'[e].role = "none" => ~user'[e].verified
          /\ \A e \in Emails : user'[e].verified =>
                e \in history'.bootstrapped \cup history'.proved
      BY <1>1, TablesMove
    <3> QED
      BY <3>1, <3>2 DEF Founded, HasUser
  <2> QED
    BY <1>1, <2>1, <2>2, <2>3, <2>4, TablesMove DEF AInv
<1>2. CASE UNCHANGED accountVars
  <2>1. UNCHANGED <<user, invite, token, login, thread, issued, history>>
    BY <1>2 DEF accountVars, tables
  <2>2. \A t \in Threads : ReadOf(t)' <=> ReadOf(t)
    BY <2>1 DEF ReadOf, HasUser, HasInvite
  <2>3. Read'
    BY <2>1, <2>2 DEF AInv, Read
  <2>4. AccountsTypeOK' /\ Minted' /\ Founded'
    BY <2>1 DEF AInv, AccountsTypeOK, Minted, Founded, HasUser
  <2>5. SpentInviteHasAccount' /\ PresentedIsSpent' /\ SessionsAreGood'
    BY <2>1 DEF AInv, SpentInviteHasAccount, PresentedIsSpent, SessionsAreGood, HasUser, IdsOf
  <2> QED
    BY <2>3, <2>4, <2>5 DEF AInv
<1> QED
  BY <1>1, <1>2

(* The invariant holds of every behavior.                                  *)
THEOREM AccountsInvariant == AccountsSpec => []AInv
<1> QED
  BY AccountsInitially, AccountsStep, PTL DEF AccountsSpec

(* The types of the account tables and of the requests in progress.        *)
THEOREM AccountsTypeCorrect == AccountsSpec => []AccountsTypeOK
<1>1. AInv => AccountsTypeOK
  BY DEF AInv
<1> QED
  BY <1>1, AccountsInvariant, PTL

(* signup: an invite that is used up has made its account.                 *)
THEOREM SpentInvitesHaveAccounts == AccountsSpec => []SpentInviteHasAccount
<1>1. AInv => SpentInviteHasAccount
  BY DEF AInv
<1> QED
  BY <1>1, AccountsInvariant, PTL

(* verify_email: a token that was presented is never live again.           *)
THEOREM PresentedTokensAreSpent == AccountsSpec => []PresentedIsSpent
<1>1. AInv => PresentedIsSpent
  BY DEF AInv
<1> QED
  BY <1>1, AccountsInvariant, PTL

(* login: only verified accounts, each verified by a mail or an operator.  *)
THEOREM SessionsStayGood == AccountsSpec => []SessionsAreGood
<1>1. AInv => SessionsAreGood
  BY DEF AInv
<1> QED
  BY <1>1, AccountsInvariant, PTL

(* signup gives only roles the invite had while the request ran.           *)
THEOREM RolesAreInvited == AccountsSpec => RoleIsInvited
<1>1. ASSUME AInv, [AccountsNext]_accountVars
      PROVE  [\A t \in Threads : CreateUser(t) =>
               user'[thread[t].email].role \in thread[t].offered]_accountVars
  <2>1. ASSUME NEW t \in Threads, CreateUser(t)
        PROVE  user'[thread[t].email].role \in thread[t].offered
    <3>1. /\ thread[t].pc = "createUser"
          /\ user' = [user EXCEPT ![thread[t].email] = [role |-> Given(t), verified |-> FALSE]]
      BY <2>1 DEF CreateUser
    <3>2. thread[t].email \in Emails /\ thread[t].role \in thread[t].offered
      BY <1>1, <3>1 DEF AInv, Read, ReadOf
    <3> QED
      BY <1>1, <3>1, <3>2 DEF AInv, AccountsTypeOK, Given
  <2> QED
    BY <2>1
<1> QED
  BY <1>1, AccountsInvariant, PTL DEF AccountsSpec, RoleIsInvited

(* _issue_verification: no token that was there when a resend began        *)
(* outlives it.                                                            *)
THEOREM ResendsReplace == AccountsSpec => ResendReplaces
<1>1. ASSUME AInv, [AccountsNext]_accountVars
      PROVE  [\A t \in Threads : Reissue(t) =>
               thread[t].before \cap IdsOf(token') = {}]_accountVars
  <2>1. ASSUME NEW t \in Threads, Reissue(t)
        PROVE  thread[t].before \cap IdsOf(token') = {}
    <3>1. /\ thread[t].pc = "reissue"
          /\ token' = {r \in token : r.id \notin thread[t].doomed} \cup {NewToken(thread[t].email)}
      BY <2>1 DEF Reissue
    <3>2. \A r \in token : r.id \in thread[t].before => r.id \in thread[t].doomed
      BY <1>1, <3>1 DEF AInv, Read, ReadOf
    <3>3. NewToken(thread[t].email).id \notin thread[t].before
      <4>1. thread[t].before \in SUBSET (1 .. MaxTokens) /\ issued \in Nat
        BY <1>1, AccountsAssumption DEF AInv, AccountsTypeOK
      <4>2. \A id \in thread[t].before : id <= issued
        BY <1>1 DEF AInv, Minted
      <4>3. NewToken(thread[t].email).id = issued + 1
        BY DEF NewToken
      <4> QED
        BY <4>1, <4>2, <4>3
    <3>4. \A s \in token' : s.id \notin thread[t].before
      BY <3>1, <3>2, <3>3
    <3> QED
      BY <3>4 DEF IdsOf
  <2> QED
    BY <2>1
<1> QED
  BY <1>1, AccountsInvariant, PTL DEF AccountsSpec, ResendReplaces

=============================================================================
