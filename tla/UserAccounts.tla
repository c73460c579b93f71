---------------------------- MODULE UserAccounts ----------------------------
(***************************************************************************)
(* One user's row and what requests do to it: invitation, registration,    *)
(* login and lockout, the links that reset a password, replace an identity *)
(* or the extended public key, the session, and the admin's actions.  A    *)
(* request reads the user, changes its copy, and saves the copy; nothing   *)
(* is held between the two.  The save writes the non-blank fields only: a  *)
(* nil token or a zero counter leaves the column as it is.                 *)
(*                                                                         *)
(* Names, mail addresses, keys and passwords are valid here and only       *)
(* whether a request may pass is kept of them; the payment address index   *)
(* is a variable of Payments.  Lists and details of users change nothing   *)
(* and are left out.                                                       *)
(* Identities are read in the order of their insertion, which the query    *)
(* does not ask for and the database gives for their serial keys.          *)
(***************************************************************************)
EXTENDS Naturals, Sequences, FiniteSets

CONSTANTS
    Requests,        \* goroutines serving requests (slots, reused)
    LoginAttemptsToLockUser,
    MaxTokens,       \* bound on the verification tokens that are generated
    Ops,             \* bound: the operations that are requested
    Overlapping      \* bound: those of them that overlap each other

ASSUME ConstantsAssumption ==
    /\ LoginAttemptsToLockUser \in Nat \ {0}
    /\ MaxTokens \in Nat

VARIABLES
    row,       \* the user's row with its identities
    req,       \* req[r]: the operation of r and its changed copy of the user
    issued,    \* the last token generated
    expired,   \* the last token whose expiry has passed
    known,     \* tokens the user has got, in a mail or a reply
    session,   \* a session file names the user
    \* History variables: no guard reads them.
    contended, \* requests have overlapped
    failures,  \* consecutive failed logins that were saved, up to the limit
    unreset,   \* a reset of the counter was saved, and the row has kept it
    adminLock, \* an admin has locked the account
    redeemed   \* redeemed[n]: how often token n was redeemed, up to 2

history == <<contended, failures, unreset, adminLock, redeemed>>
vars == <<row, req, issued, expired, known, session, history>>

-----------------------------------------------------------------------------
(* The user *)

\* Token columns: NULL, "" after it was redeemed, or a token.
Nil     == 0
Cleared == 1
Tokens  == 2..(MaxTokens + 1)

Kinds == {"register", "reset", "identity", "xpub"}

Identity == [activated : BOOLEAN, deactivated : BOOLEAN]

User == [exists   : BOOLEAN,
         tok      : [Kinds -> {Nil, Cleared} \cup Tokens],
         early    : BOOLEAN,   \* an admin moved the identity token's expiry
         failed   : 0..LoginAttemptsToLockUser,
         ids      : Seq(Identity)]

NewUser == [exists |-> FALSE, tok |-> [k \in Kinds |-> Nil], early |-> FALSE,
            failed |-> 0, ids |-> <<>>]

\* The code's IsVerified, which holds while the user has yet to register.
IsVerified(u) == u.tok["register"] \notin {Nil, Cleared}

IsUserLocked(failed) == failed >= LoginAttemptsToLockUser

IsActive(id) == id.activated /\ ~id.deactivated

ActiveAt(u) == {i \in DOMAIN u.ids : IsActive(u.ids[i])}

\* The token of kind k is there and has not expired.
Usable(u, k) ==
    /\ u.tok[k] \notin {Nil, Cleared}
    /\ u.tok[k] > expired
    /\ k = "identity" => ~u.early

\* A redeemed token becomes "", which is saved.  Mutant: it becomes NULL.
RedeemedNil(u, k) == [u EXCEPT !.tok[k] = Nil]
Redeemed(u, k) == [u EXCEPT !.tok[k] = Cleared]

\* Identities that have a row are overwritten, new ones are inserted.
SavedIdentities(u, c, n) ==
    SubSeq(c.ids, 1, n) \o SubSeq(u.ids, n + 1, Len(u.ids)) \o SubSeq(c.ids, n + 1, Len(c.ids))

\* The row u after the copy c, which had n identities when it was read, is
\* saved: blank fields of the copy leave the row alone.
UpdateUser(u, c, n) ==
    [exists   |-> TRUE,
     tok      |-> [k \in Kinds |-> IF c.tok[k] = Nil THEN u.tok[k] ELSE c.tok[k]],
     early    |-> IF c.tok["identity"] = Nil THEN u.early ELSE c.early,
     failed   |-> IF c.failed = 0 THEN u.failed ELSE c.failed,
     ids      |-> SavedIdentities(u, c, n)]

-----------------------------------------------------------------------------
(* Requests *)

Idle == [op |-> "none", kind |-> "register", step |-> "idle", copy |-> NewUser, had |-> 0,
         token |-> Nil]

Request == [op    : {"none", "invite", "resend", "register", "login", "fail", "link",
                     "redeem", "edit", "expire", "unlock", "lock"},
            kind  : Kinds,  \* of the token
            step  : {"idle", "save", "mail", "mailFirst", "session"},
            copy  : User,
            had   : Nat,    \* how many identities the copy had when it was read
            token : {Nil} \cup Tokens]

InFlight(r) == req[r].step # "idle"

\* Request r has read the user and is to save the copy c.
Begin(r, op, step, c, kind, token) ==
    /\ op \in Ops
    /\ ~InFlight(r)
    /\ \A o \in Requests \ {r} : InFlight(o) => {op, req[o].op} \subseteq Overlapping
    /\ req' = [req EXCEPT ![r] = [op |-> op, kind |-> kind, step |-> step, copy |-> c,
                                  had |-> Len(row.ids), token |-> token]]
    /\ contended' = (contended \/ \E o \in Requests \ {r} : InFlight(o))
    /\ UNCHANGED <<row, expired, known, session, failures, unreset, adminLock, redeemed>>

\* generateVerificationTokenAndExpiry
Generate == issued' = issued + 1 /\ issued' \in Tokens

TypeOK ==
    /\ row \in User
    /\ req \in [Requests -> Request]
    /\ issued \in 1..(MaxTokens + 1)
    /\ expired \in 1..issued
    /\ known \subseteq Tokens
    /\ session \in BOOLEAN
    /\ contended \in BOOLEAN
    /\ failures \in 0..LoginAttemptsToLockUser
    /\ unreset \in BOOLEAN
    /\ adminLock \in BOOLEAN
    /\ redeemed \in [Tokens -> 0..2]

Init ==
    /\ row = NewUser
    /\ req = [r \in Requests |-> Idle]
    /\ issued = 1
    /\ expired = 1
    /\ known = {}
    /\ session = FALSE
    /\ contended = FALSE
    /\ failures = 0
    /\ unreset = FALSE
    /\ adminLock = FALSE
    /\ redeemed = [n \in Tokens |-> 0]

-----------------------------------------------------------------------------
(* Invitation and registration *)

\* HandleInviteNewUser: mail first, then the row.  It goes on when the user
\* exists, has not registered and the token has expired.
InviteRead(r) ==
    /\ row.exists => IsVerified(row) /\ ~Usable(row, "register")
    /\ Generate
    /\ Begin(r, "invite", "mailFirst", [NewUser EXCEPT !.tok["register"] = issued'],
             "register", issued')

\* resendInvite: the new token replaces the old one, expired or not.
ResendRead(r) ==
    /\ row.exists /\ IsVerified(row)
    /\ Generate
    /\ Begin(r, "resend", "mailFirst", [row EXCEPT !.tok["register"] = issued'],
             "register", issued')

\* HandleRegister
RegisterRead(r) ==
    /\ row.exists /\ Usable(row, "register") /\ row.tok["register"] \in known
    /\ Begin(r, "register", "save",
             [Redeemed(row, "register") EXCEPT
                 !.ids = Append(@, [activated |-> TRUE, deactivated |-> FALSE])],
             "register", row.tok["register"])
    /\ UNCHANGED issued

-----------------------------------------------------------------------------
(* Login and passwords *)

\* Mutant: an attempt counts twice.
LoginWrongTwice(r) ==
    /\ row.exists /\ ~IsVerified(row)
    /\ row.failed + 2 <= LoginAttemptsToLockUser
    /\ Begin(r, "fail", "save", [row EXCEPT !.failed = @ + 2], "register", Nil)
    /\ UNCHANGED issued

\* Mutant: a locked account counts on.
LoginWrongLocked(r) ==
    /\ row.exists /\ ~IsVerified(row)
    /\ Begin(r, "fail", "save", [row EXCEPT !.failed = @ + 1], "register", Nil)
    /\ UNCHANGED issued

\* login with a wrong password.
LoginWrong(r) ==
    /\ row.exists /\ ~IsVerified(row)
    /\ ~IsUserLocked(row.failed)
    /\ Begin(r, "fail", "save", [row EXCEPT !.failed = @ + 1], "register", Nil)
    /\ UNCHANGED issued

\* login with the right password: the counter of the copy is reset.
LoginRight(r) ==
    /\ row.exists /\ ~IsVerified(row)
    /\ ~IsUserLocked(row.failed)
    /\ Begin(r, "login", "save", [row EXCEPT !.failed = 0], "register", Nil)
    /\ UNCHANGED issued

\* HandleLogin has waited for login (and for half a second): the session is
\* saved.  Sessions are files and outlive restarts.
SetSessionUser(r) ==
    /\ req[r].step = "session"
    /\ session' = TRUE
    /\ req' = [req EXCEPT ![r] = Idle]
    /\ UNCHANGED <<row, issued, expired, known, history>>

\* HandleLogout; or the session gets too old.
RemoveSession ==
    /\ session
    /\ session' = FALSE
    /\ UNCHANGED <<row, req, issued, expired, known, history>>

\* isLoggedIn: the request goes on with the user that the session names.
LoggedIn == session /\ row.exists

-----------------------------------------------------------------------------
(* Links for a password, an identity or an extended public key *)

\* A request for a link, which replaces a token that is not usable.
RequestLink(r, k, c) ==
    /\ ~Usable(row, k)
    /\ Generate
    /\ Begin(r, "link", "save", [c EXCEPT !.tok[k] = issued'], k, issued')

\* emailResetPassword; nobody is logged in.
ResetLinkRead(r) == row.exists /\ RequestLink(r, "reset", row)

\* emailUpdateExtendedPublicKey
XpubLinkRead(r) == LoggedIn /\ RequestLink(r, "xpub", row)

\* HandleNewIdentity adds the identity already.
IdentityLinkRead(r) ==
    /\ LoggedIn
    /\ RequestLink(r, "identity",
                   [row EXCEPT !.early = FALSE,
                               !.ids = Append(@, [activated |-> FALSE, deactivated |-> FALSE])])

\* Mutant: the replaced identity stays.
ReplacedKept(ids) == [ids EXCEPT ![Len(ids)] = [activated |-> TRUE, deactivated |-> FALSE]]

\* Mutant: the loop does not stop at the replaced one, nor spares the new one.
ReplacedAll(ids) ==
    [j \in DOMAIN ids |-> [activated |-> ids[j].activated \/ j = Len(ids), deactivated |-> TRUE]]

\* HandleVerifyNewIdentity: the first identity that is not deactivated is
\* replaced by the last one.
Replaced(ids) ==
    LET i == CHOOSE j \in DOMAIN ids :
                 ~ids[j].deactivated /\ \A k \in 1..(j - 1) : ids[k].deactivated
    IN [[ids EXCEPT ![i].deactivated = TRUE]
           EXCEPT ![Len(ids)] = [activated |-> TRUE, deactivated |-> FALSE]]

\* A link is followed: the token is the row's and has not expired.
Redeem(r, k, c) ==
    /\ Usable(row, k) /\ row.tok[k] \in known
    /\ Begin(r, "redeem", "save", Redeemed(c, k), k, row.tok[k])
    /\ UNCHANGED issued

\* verifyResetPassword
ResetRead(r) == row.exists /\ Redeem(r, "reset", [row EXCEPT !.failed = 0])

\* HandleEditUserExtendedPublicKey with a token
XpubRead(r) == LoggedIn /\ Redeem(r, "xpub", row)

\* HandleVerifyNewIdentity
IdentityRead(r) ==
    LoggedIn /\ Redeem(r, "identity", [row EXCEPT !.early = FALSE, !.ids = Replaced(@)])

-----------------------------------------------------------------------------
(* What else saves the user *)

\* HandleEditUser: the copy differs in details only.
EditUserRead(r) ==
    /\ LoggedIn
    /\ Begin(r, "edit", "save", row, "register", Nil)
    /\ UNCHANGED issued

\* HandleChangePassword: the copy differs in the password only.
ChangePasswordRead(r) ==
    /\ LoggedIn
    /\ Begin(r, "edit", "save", row, "register", Nil)
    /\ UNCHANGED issued

\* An admin's request derives an address of a registered user, logged in or
\* not: the copy differs in the address index only.
DeriveRead(r) ==
    /\ row.ids # <<>>
    /\ Begin(r, "edit", "save", row, "register", Nil)
    /\ UNCHANGED issued

\* HandleManageUser: the actions other than the resent invitation.
ManageRead(r, op) ==
    /\ row.exists
    /\ \/ op = "expire" /\ Begin(r, op, "save", [row EXCEPT !.early = TRUE], "register", Nil)
       \/ op = "unlock" /\ Begin(r, op, "save", [row EXCEPT !.failed = 0], "register", Nil)
       \/ op = "lock" /\ Begin(r, op, "save", [row EXCEPT !.failed = LoginAttemptsToLockUser], "register", Nil)
    /\ UNCHANGED issued

-----------------------------------------------------------------------------
(* Saving and mailing *)

\* A login, a redeemed link for a password and an admin's unlock save a
\* counter that they have set to zero.
Resets(q) == q.op \in {"login", "unlock"} \/ (q.op = "redeem" /\ q.kind = "reset")

\* The history of a save that succeeded: row' is the saved row.
Record(r) ==
    LET q == req[r] IN
    /\ failures' = CASE Resets(q) -> 0
                     [] q.op = "fail" /\ failures < LoginAttemptsToLockUser -> failures + 1
                     [] OTHER -> failures
    /\ unreset' = (unreset \/ (Resets(q) /\ row'.failed # 0))
    /\ adminLock' = (adminLock \/ q.op = "lock")
    /\ redeemed' = IF q.op \in {"register", "redeem"} /\ redeemed[q.token] < 2
                   THEN [redeemed EXCEPT ![q.token] = @ + 1] ELSE redeemed

\* What follows the save: a link is mailed, a login gets its session.
After(q) ==
    CASE q.op = "link"  -> [q EXCEPT !.step = "mail", !.copy = NewUser]
      [] q.op = "login" -> [Idle EXCEPT !.op = "login", !.step = "session"]
      [] OTHER          -> Idle

\* The copy is saved.
Save(r) ==
    /\ req[r].step = "save" /\ req[r].op # "invite"
    /\ row' = UpdateUser(row, req[r].copy, req[r].had)
    /\ Record(r)
    /\ req' = [req EXCEPT ![r] = After(@)]
    /\ UNCHANGED <<issued, expired, known, session, contended>>

\* CreateUser: the mail address is unique, an invitation of a user who
\* exists ends with an error.
CreateUser(r) ==
    /\ req[r].step = "save" /\ req[r].op = "invite"
    /\ row' = IF row.exists THEN row ELSE [req[r].copy EXCEPT !.exists = TRUE]
    /\ req' = [req EXCEPT ![r] = Idle]
    /\ UNCHANGED <<issued, expired, known, session, history>>

\* The mail with the token is sent (or the token is in the reply).
Mail(r) ==
    /\ req[r].step \in {"mail", "mailFirst"}
    /\ known' = known \cup {req[r].token}
    /\ req' = [req EXCEPT ![r] = IF @.step = "mail" THEN Idle ELSE [@ EXCEPT !.step = "save"]]
    /\ UNCHANGED <<row, issued, expired, session, history>>

\* The mail server or the database fails, or the process restarts.
Fail(r) ==
    /\ InFlight(r)
    /\ req' = [req EXCEPT ![r] = Idle]
    /\ UNCHANGED <<row, issued, expired, known, session, history>>

\* VerificationExpiryTime passes: tokens expire in the order of their issue.
Expire ==
    /\ expired < issued
    /\ expired' = expired + 1
    /\ UNCHANGED <<row, req, issued, known, session, history>>

Next ==
    \/ \E r \in Requests :
        \/ InviteRead(r) \/ ResendRead(r)
        \/ RegisterRead(r) \/ LoginWrong(r) \/ LoginRight(r) \/ SetSessionUser(r)
        \/ ResetLinkRead(r) \/ XpubLinkRead(r) \/ IdentityLinkRead(r)
        \/ ResetRead(r) \/ XpubRead(r) \/ IdentityRead(r)
        \/ EditUserRead(r) \/ ChangePasswordRead(r) \/ DeriveRead(r)
        \/ \E op \in {"expire", "unlock", "lock"} : ManageRead(r, op)
        \/ Save(r) \/ CreateUser(r) \/ Mail(r) \/ Fail(r)
    \/ RemoveSession
    \/ Expire

Spec == Init /\ [][Next]_vars
-----------------------------------------------------------------------------
(* Properties *)

\* A verification token is redeemed once, although "redeemed" is a column
\* that must be written (a NULL token would not be saved) and although
\* other requests save copies of the user; overlapping requests excepted.
RedeemedOnce == ~contended => \A n \in Tokens : redeemed[n] <= 1

\* An account is locked by an admin or by as many failed logins in a row as
\* the limit says, never by fewer: overlapping requests can lose an attempt,
\* but login counts none twice and no stale copy saves a counter nobody
\* reached.  The exception, unreset: a login, a new password or an admin's
\* unlock set a counter to zero that was not, and the update skipped it.
LockMeansFailures ==
    IsUserLocked(row.failed)
        => adminLock \/ unreset \/ failures >= LoginAttemptsToLockUser

\* A registered user always has an active identity, through abandoned and
\* repeated replacements and overlapping saves of old copies: otherwise no
\* signature of the user's is accepted any more.
SomeIdentityActive == row.ids # <<>> => ActiveAt(row) # {}

\* When no replacement was abandoned, exactly the identity that was verified
\* last is active; overlapping requests excepted.
NewestIdentityActive ==
    (/\ ~contended
     /\ row.ids # <<>>
     /\ \A i \in 1..(Len(row.ids) - 1) : row.ids[i].activated)
    => LET verified == {i \in DOMAIN row.ids : row.ids[i].activated}
       IN  ActiveAt(row) = {i \in verified : \A j \in verified : j <= i}

\* What HandleVerifyNewIdentity says of itself, "activate the key and
\* deactivate the one it's replacing": one identity is active at most.
OneActiveIdentity == ~contended => Cardinality(ActiveAt(row)) <= 1

\* What the limit says of itself, "the number of consecutive failed login
\* attempts permitted before the system locks the user": without an admin's
\* lock, a locked account has had that many since the last login, new
\* password or unlock.
LockMeansConsecutiveFailures ==
    IsUserLocked(row.failed) => adminLock \/ failures >= LoginAttemptsToLockUser
=============================================================================
