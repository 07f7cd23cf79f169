---------------------------- MODULE FounderAccess ----------------------------
(***************************************************************************)
(* The founder's way to the administration: the password and second factor *)
(* of AuthService.login, the set-up of the authenticator, the recovery     *)
(* codes, and the operations on API keys of ApiAccess, which the guards of *)
(* AdminController let nobody else begin.                                  *)
(*                                                                         *)
(* The password is taken to be right; one that is not changes nothing.  A  *)
(* code of the authenticator is known by the secret it is made from.  Each *)
(* call reads the founder's row, and decides by what it read: races counts *)
(* the calls that wrote, or let the founder in, over a row that changed.   *)
(***************************************************************************)
EXTENDS ApiAccess

CONSTANTS
    Visits,       \* calls of AuthService about the founder in flight at once
    SetSize,      \* recovery codes of a set (ten in rotateRecoveryCodes)
    MaxCodes,     \* bounds: recovery codes, authenticator secrets, races
    MaxSetups,
    MaxRaces

ASSUME FounderAccessAssumption ==
    /\ SetSize \in Nat \ {0}
    /\ {MaxCodes, MaxSetups, MaxRaces} \subseteq Nat

VARIABLES
    user,      \* the founder's row
    codes,     \* rows of mfaRecoveryCode with no usedAt
    issued,    \* recovery codes handed out so far
    session,   \* is a token of the founder's alive?
    visit,     \* visit[v]: a call of AuthService and what it read
    uses,      \* history: uses[c], the times recovery code c let the founder in
    proven,    \* history: secrets a code was verified for by enableTotp
    bare,      \* history: logins without a second factor that had to have one
    races      \* history: writes and logins on a row that had changed

founderVars == <<user, codes, issued, session, visit, uses, proven, bare, races>>

founderHistory == <<uses, proven, bare>>

-----------------------------------------------------------------------------
RecoveryCodes == 1 .. MaxCodes

\* secret: totpSecretEncrypted, 0 when it is null; mfa: mfaEnabled.
User == [mfa : BOOLEAN, secret : 0 .. MaxSetups]

\* "login": past the read of login; "code": login has found the recovery code
\* unused; "enable", "rotate": past the checks; "replace": rotateRecoveryCodes
\* has deleted the codes in old.
Visit == [kind : {"none", "login", "code", "enable", "rotate", "replace"},
          user : User, code : 0 .. MaxCodes, old : SUBSET RecoveryCodes]

NoUser == [mfa |-> FALSE, secret |-> 0]

NoVisit == [kind |-> "none", user |-> NoUser, code |-> 0, old |-> {}]

FounderTypeOK ==
    /\ TypeOK
    /\ user \in User
    /\ codes \subseteq RecoveryCodes
    /\ issued \in 0 .. MaxCodes
    /\ session \in BOOLEAN
    /\ visit \in [Visits -> Visit]
    /\ uses \in [RecoveryCodes -> Nat]
    /\ proven \subseteq 1 .. MaxSetups
    /\ bare \in Nat
    /\ races \in 0 .. MaxRaces

FounderInit ==
    /\ Init
    /\ user = NoUser
    /\ codes = {}
    /\ issued = 0
    /\ session = FALSE
    /\ visit = [v \in Visits |-> NoVisit]
    /\ uses = [c \in RecoveryCodes |-> 0]
    /\ proven = {}
    /\ bare = 0
    /\ races = 0

-----------------------------------------------------------------------------
Arrive(v, what) ==
    /\ visit[v].kind = "none"
    /\ visit' = [visit EXCEPT ![v] = what]
    /\ UNCHANGED <<vars, user, codes, issued, session, founderHistory, races>>

\* The call ends; current says that what it read still holds.
Leave(v, current) ==
    /\ visit' = [visit EXCEPT ![v] = NoVisit]
    /\ current \/ races < MaxRaces
    /\ races' = IF current THEN races ELSE races + 1

\* An error of the database ends the call.
GiveUp(v) ==
    /\ visit[v].kind # "none"
    /\ visit' = [visit EXCEPT ![v] = NoVisit]
    /\ UNCHANGED <<vars, user, codes, issued, session, founderHistory, races>>

\* login reads the row of the user.
ReadLogin(v) == Arrive(v, [NoVisit EXCEPT !.kind = "login", !.user = user])

\* No second factor was enabled.
LoginBare(v) ==
    /\ visit[v].kind = "login" /\ ~visit[v].user.mfa
    /\ session' = TRUE
    /\ bare' = IF user.mfa THEN bare + 1 ELSE bare
    /\ Leave(v, ~user.mfa)
    /\ UNCHANGED <<vars, user, codes, issued, uses, proven>>

\* verifyCode: a code of the secret that was read.
LoginTotp(v) ==
    /\ visit[v].kind = "login" /\ visit[v].user.mfa /\ visit[v].user.secret # 0
    /\ session' = TRUE
    /\ Leave(v, user = visit[v].user)
    /\ UNCHANGED <<vars, user, codes, issued, founderHistory>>

\* consumeRecoveryCode looks for the code among those not used ...
FindCode(v) ==
    /\ visit[v].kind = "login" /\ visit[v].user.mfa /\ visit[v].user.secret # 0
    /\ \E c \in codes :
          visit' = [visit EXCEPT ![v].kind = "code", ![v].code = c]
    /\ UNCHANGED <<vars, user, codes, issued, session, founderHistory, races>>

\* Mutant of Marked: the code is not marked as used.
NotMarked(c) == codes

\* updateMany, where usedAt is null.
Marked(c) == codes \ {c}

\* ... and marks it, whether or not there was still a row to mark.
UseCode(v) ==
    /\ visit[v].kind = "code"
    /\ LET c == visit[v].code IN
       /\ codes' = Marked(c)
       /\ uses' = [uses EXCEPT ![c] = @ + 1]
       /\ Leave(v, c \in codes)
    /\ session' = TRUE
    /\ UNCHANGED <<vars, user, issued, proven, bare>>

\* setupTotp: a new secret, and no second factor until it is enabled.
SetupTotp ==
    /\ session
    /\ user.secret < MaxSetups
    /\ user' = [mfa |-> FALSE, secret |-> user.secret + 1]
    /\ UNCHANGED <<vars, codes, issued, session, visit, founderHistory, races>>

\* enableTotp verifies a code of the secret it read ...
ReadEnable(v) ==
    /\ session
    /\ user.secret # 0
    /\ Arrive(v, [NoVisit EXCEPT !.kind = "enable", !.user = user])

\* ... and enables whatever secret the row holds by then.
CommitEnable(v) ==
    /\ visit[v].kind = "enable"
    /\ user' = [user EXCEPT !.mfa = TRUE]
    /\ proven' = proven \cup {visit[v].user.secret}
    /\ Leave(v, user.secret = visit[v].user.secret)
    /\ UNCHANGED <<vars, codes, issued, session, uses, bare>>

\* rotateRecoveryCodes, up to its checks ...
ReadRotate(v) ==
    /\ session
    /\ user.mfa /\ user.secret # 0
    /\ Arrive(v, [NoVisit EXCEPT !.kind = "rotate", !.user = user])

\* ... the deleteMany of its transaction, which sees the rows committed so far ...
DeleteCodes(v) ==
    /\ visit[v].kind = "rotate"
    /\ visit' = [visit EXCEPT ![v].kind = "replace", ![v].old = codes]
    /\ UNCHANGED <<vars, user, codes, issued, session, founderHistory, races>>

\* ... and the createMany, with which it commits.
CommitRotate(v) ==
    /\ visit[v].kind = "replace"
    /\ issued + SetSize <= MaxCodes
    /\ codes' = (codes \ visit[v].old) \cup (issued + 1 .. issued + SetSize)
    /\ issued' = issued + SetSize
    /\ Leave(v, codes \subseteq visit[v].old /\ user = visit[v].user)
    /\ UNCHANGED <<vars, user, session, founderHistory>>

\* The tokens of the founder expire; a logout leaves them as they are.
ExpireSession ==
    /\ session
    /\ session' = FALSE
    /\ UNCHANGED <<vars, user, codes, issued, visit, founderHistory, races>>

-----------------------------------------------------------------------------
\* The operations of AdminController, behind AuthGuard and RolesGuard.
FounderOperation ==
    \/ CreateProductKey
    \/ RevokeKey
    \/ RegenerateKey
    \/ EmergencyLockdown
    \/ \E c \in Calls : ReadRequest(c) \/ ReadReview(c) \/ ReadCreate(c)

\* What the guards do not see: calls under way, and the clients of the API.
OtherOperation ==
    \E c \in Calls :
        \/ CommitRequest(c) \/ CommitReview(c) \/ CommitCreate(c)
        \/ ReadIssue(c) \/ Issue(c)
        \/ Abandon(c)

FounderNext ==
    \/ session /\ FounderOperation /\ UNCHANGED founderVars
    \/ OtherOperation /\ UNCHANGED founderVars
    \/ SetupTotp \/ ExpireSession
    \/ \E v \in Visits :
        \/ ReadLogin(v)  \/ LoginBare(v) \/ LoginTotp(v)
        \/ FindCode(v)   \/ UseCode(v)
        \/ ReadEnable(v) \/ CommitEnable(v)
        \/ ReadRotate(v) \/ DeleteCodes(v) \/ CommitRotate(v)
        \/ GiveUp(v)

FounderSpec == FounderInit /\ [][FounderNext]_<<vars, founderVars>>

-----------------------------------------------------------------------------
\* remaining, in recoveryCodeStatus.
Remaining == Cardinality(codes)

\* A recovery code lets the founder in once: what consumeRecoveryCode found it
\* marks, and only logins that found the code together share it.
CodesUsedOnce == \A c \in RecoveryCodes : uses[c] <= 1 + races

\* A new set of recovery codes replaces the old one, unless two rotations deleted
\* the same codes and each then created its own.
SetsReplaced == Remaining <= SetSize * (1 + races)

\* A second factor that is enabled is one the founder has shown a code of, so she
\* is not locked out, unless setupTotp came between the code and the update.
SecretsProven == user.mfa => user.secret \in proven \/ races > 0

\* While the second factor is enabled nobody comes in without it, except a login
\* that had read the row before it was.
SecondFactorAsked == bare <= races

\* The founder's second factor does what it promises, up to calls that overlap.
SecondFactorHolds ==
    /\ CodesUsedOnce
    /\ SetsReplaced
    /\ SecretsProven
    /\ SecondFactorAsked
=============================================================================
