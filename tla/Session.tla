------------------------------ MODULE Session ------------------------------
(* Signing in and staying signed in, for one user with several tabs in one *)
(* or more browsers: the forms of auth-forms.tsx, the session checks of    *)
(* the pages and of lib/api-client.ts with their silent refresh, and the   *)
(* handlers of httpapi/auth.go with the statements of store/identity.go.   *)
(* A request attaches the cookies its browser has when it is sent; the     *)
(* statements of its handler run one by one among those of other requests; *)
(* the cookies of its answer are stored when the answer arrives.  Passwords*)
(* are right or wrong as the user types; tokens and codes are numbers in   *)
(* the order of their rows.                                                *)
EXTENDS Integers, Sequences, FiniteSets

CONSTANTS
  Tabs, Browsers,
  MaxEvents,        \* bound on visits, requests, lost answers and failures together
  MaxCodeAttempts   \* maxCodeAttempts, 5 in the code

ASSUME BoundsAssumption == MaxEvents \in Nat /\ MaxCodeAttempts \in Nat

VARIABLES
  browser,   \* the browser of each tab
  jar,       \* the two cookies of each browser
  page,      \* the page of each tab
  form,      \* the buttons of the sign-in page of a tab
  account,   \* whether the user is registered
  codes,     \* email_verification_codes
  sessions,  \* auth_sessions: whether each is live
  tokens,    \* auth_refresh_tokens
  calls,     \* requests that are not settled
  events     \* how many of the events that are bounded there were

client == <<page, form>>
server == <<account, codes, sessions, tokens>>
vars == <<browser, jar, client, server, calls, events>>

None == 0      \* no cookie, or no code
Kept == -1     \* an answer that leaves a cookie alone
Pages == {"login", "register", "console"}
Purpose(c) == IF c.op \in {"register", "send for register"} THEN "register" ELSE "login"

FirstStatement(op) ==
  CASE op \in {"ask", "api", "revoke others"} -> "session"
    [] op = "password" -> "password"
    [] op \in {"code", "register"} -> "code"
    [] op \in {"send for login", "send for register"} -> "last code"
    [] op = "log out" -> "revoke session"

------------------------------------------------------------------------------
(* Requests.                                                               *)

WithCookies(c, cookies) == [c EXCEPT !.access = cookies.access, !.refresh = cookies.refresh]

(* The id tells apart requests that are otherwise alike.                   *)
FirstFree(ids) == CHOOSE i \in 1..MaxEvents : i \notin ids /\ 1..(i - 1) \subseteq ids
Request(t, op, from, typed, cookies, cs) ==
  WithCookies([id |-> FirstFree({c.id : c \in cs}),
               tab |-> t, op |-> op, from |-> from, step |-> "first", at |-> FirstStatement(op),
               typed |-> typed, held |-> None, heard |-> TRUE, ok |-> FALSE,
               access |-> None, refresh |-> None], cookies)

Counted == events < MaxEvents /\ events' = events + 1

Send(t, op, typed) ==
  Counted /\ calls' = calls \cup {Request(t, op, page[t], typed, jar[browser[t]], calls)}

(* The handler of c goes on to another statement, or answers.  An answer   *)
(* nobody waits for any more is gone.                                      *)
Becomes(c, d) == calls' = (calls \ {c}) \cup {d}
GoesOn(c, statement) == Becomes(c, [c EXCEPT !.at = statement])
Answers(c, ok, access, refresh) ==
  calls' = (calls \ {c}) \cup
    IF c.heard THEN {[c EXCEPT !.at = "answered", !.ok = ok,
                               !.access = access, !.refresh = refresh, !.held = None, !.typed = None]} ELSE {}
Accepts(c) == Answers(c, TRUE, Kept, Kept)
Refuses(c) == Answers(c, FALSE, Kept, Kept)

------------------------------------------------------------------------------
(* The sign-in page and the console.                                       *)

FreshForm(t) == [form[t] EXCEPT !.pending = FALSE, !.sending = FALSE]

(* Another page is shown: what the sign-in page was waiting for finds it   *)
(* gone, and the new page checks the session (within the bound).           *)
Left(t, cs) == {IF c.tab = t /\ c.from # "console" THEN [c EXCEPT !.from = "gone"] ELSE c : c \in cs}
GoTo(t, p, cookies, cs) ==
  /\ page' = [page EXCEPT ![t] = p]
  /\ form' = [form EXCEPT ![t] = FreshForm(t)]
  /\ \/ Counted /\ calls' = Left(t, cs) \cup {Request(t, "ask", p, None, cookies, cs)}
     \/ events = MaxEvents /\ calls' = Left(t, cs) /\ UNCHANGED events

(* proxy.ts lets a browser with an access cookie enter, whatever it is     *)
(* worth.                                                                  *)
Visit(t, p) ==
  /\ events < MaxEvents
  /\ GoTo(t, IF p = "console" /\ jar[browser[t]].access = None THEN "login" ELSE p, jar[browser[t]], calls)
  /\ UNCHANGED <<browser, jar, server>>

CallAPI(t) ==
  /\ page[t] = "console"
  /\ Send(t, "api", None)
  /\ UNCHANGED <<browser, jar, client, server>>

Typed(purpose) == {None} \cup {i \in 1..Len(codes) : codes[i].mailed /\ codes[i].purpose = purpose}

Submit(t, op, typed) ==
  /\ ~form[t].pending
  /\ form' = [form EXCEPT ![t].pending = TRUE]
  /\ Send(t, op, typed)
  /\ UNCHANGED <<browser, jar, page, server>>

LogIn(t) ==
  /\ page[t] = "login"
  /\ \/ Submit(t, "password", None)
     \/ \E i \in Typed("login") : Submit(t, "code", i)

Register(t) ==
  /\ page[t] = "register"
  /\ \E i \in Typed("register") : Submit(t, "register", i)

SendCode(t) ==
  /\ page[t] # "console"
  /\ form[t] = [pending |-> FALSE, sending |-> FALSE, cooldown |-> FALSE]
  /\ form' = [form EXCEPT ![t].sending = TRUE]
  /\ Send(t, IF page[t] = "login" THEN "send for login" ELSE "send for register", None)
  /\ UNCHANGED <<browser, jar, page, server>>

CooldownEnds(t) ==
  /\ form[t].cooldown
  /\ form' = [form EXCEPT ![t].cooldown = FALSE]
  /\ UNCHANGED <<browser, jar, page, server, calls, events>>

LogOut(t) ==
  /\ page[t] = "console"
  /\ Send(t, "log out", None)
  /\ UNCHANGED <<browser, jar, client, server>>

RevokeOtherSessions(t) ==
  /\ page[t] = "console"
  /\ ~\E c \in calls : c.tab = t /\ c.op = "revoke others" /\ c.heard
  /\ Send(t, "revoke others", None)
  /\ UNCHANGED <<browser, jar, client, server>>

------------------------------------------------------------------------------
(* Access sessions.                                                        *)

IsLive(s) == s # None /\ sessions[s]

SessionUser(c) ==
  /\ c.at = "session"
  /\ IF ~IsLive(c.access) THEN Refuses(c)
     ELSE IF c.op = "revoke others" THEN GoesOn(c, "other sessions")
     ELSE Accepts(c)
  /\ UNCHANGED <<browser, jar, client, server, events>>

RevokeSession(c) ==
  /\ c.at = "revoke session"
  /\ sessions' = IF c.access = None THEN sessions ELSE [sessions EXCEPT ![c.access] = FALSE]
  /\ GoesOn(c, "revoke token")
  /\ UNCHANGED <<browser, jar, client, account, codes, tokens, events>>

(* A session that no cookie names is not asked about.                      *)
SessionExpires(b) ==
  LET s == jar[b].access IN
  /\ IsLive(s)
  /\ sessions' = [sessions EXCEPT ![s] = FALSE]
  /\ UNCHANGED <<browser, jar, client, account, codes, tokens, calls, events>>

------------------------------------------------------------------------------
(* Refresh tokens.  A row is locked from the SELECT ... FOR UPDATE of a    *)
(* rotation to its commit.  (So is the row of the user, which only makes   *)
(* more handlers wait, and is left out.)                                   *)

Rotating(i) == \E c \in calls : c.at = "rotate" /\ c.held = i
IsOpen(i) == i # None /\ tokens[i].live

\* Mutant of LockToken: the row is read without FOR UPDATE.
LockTokenUnlocked(c) ==
  /\ c.at = "lock token"
  /\ IF IsOpen(c.refresh) THEN Becomes(c, [c EXCEPT !.at = "rotate", !.held = c.refresh])
     ELSE Answers(c, FALSE, None, None)
  /\ UNCHANGED <<browser, jar, client, server, events>>

LockToken(c) ==
  /\ c.at = "lock token"
  /\ ~Rotating(c.refresh)
  /\ IF IsOpen(c.refresh) THEN Becomes(c, [c EXCEPT !.at = "rotate", !.held = c.refresh])
     ELSE Answers(c, FALSE, None, None)
  /\ UNCHANGED <<browser, jar, client, server, events>>

RotateRefreshToken(c) ==
  /\ c.at = "rotate"
  /\ tokens' = Append([tokens EXCEPT ![c.held].live = FALSE],
                      [live |-> TRUE, login |-> tokens[c.held].login])
  /\ Becomes(c, [c EXCEPT !.at = "session of refresh", !.held = Len(tokens) + 1])
  /\ UNCHANGED <<browser, jar, client, account, codes, sessions, events>>

CreateSessionOfRefresh(c) ==
  /\ c.at = "session of refresh"
  /\ sessions' = Append(sessions, TRUE)
  /\ Answers(c, TRUE, Len(sessions) + 1, c.held)
  /\ UNCHANGED <<browser, jar, client, account, codes, tokens, events>>

RevokeRefreshToken(c) ==
  /\ c.at = "revoke token"
  /\ ~Rotating(c.refresh)
  /\ tokens' = IF c.refresh = None THEN tokens ELSE [tokens EXCEPT ![c.refresh].live = FALSE]
  /\ Answers(c, TRUE, None, None)
  /\ UNCHANGED <<browser, jar, client, account, codes, sessions, events>>

(* Two UPDATEs, without a transaction.  The second sees the rows there are *)
(* when it starts, and waits for the rotations of those.                   *)
RevokeOtherAccess(c) ==
  /\ c.at = "other sessions"
  /\ sessions' = [s \in DOMAIN sessions |-> sessions[s] /\ s = c.access]
  /\ GoesOn(c, "other tokens")
  /\ UNCHANGED <<browser, jar, client, account, codes, tokens, events>>

SeeOtherTokens(c) ==
  /\ c.at = "other tokens"
  /\ Becomes(c, [c EXCEPT !.at = "revoking", !.held = Len(tokens)])
  /\ UNCHANGED <<browser, jar, client, server, events>>

RevokeOtherTokens(c) ==
  /\ c.at = "revoking"
  /\ \A i \in 1..c.held : i # c.refresh => ~Rotating(i)
  /\ tokens' = [i \in DOMAIN tokens |->
                 IF i <= c.held /\ i # c.refresh THEN [tokens[i] EXCEPT !.live = FALSE] ELSE tokens[i]]
  /\ Accepts(c)
  /\ UNCHANGED <<browser, jar, client, account, codes, sessions, events>>

------------------------------------------------------------------------------
(* Verification codes.                                                     *)

Comparing(i) == \E c \in calls : c.at = "compare" /\ c.held = i
OpenCodes(purpose) == {i \in 1..Len(codes) : codes[i].open /\ codes[i].purpose = purpose}
Latest(S) == CHOOSE i \in S : \A j \in S : j <= i

(* Another code was sent within the minute, or none was, or longer ago.    *)
LastCode(c) ==
  /\ c.at = "last code"
  /\ \/ (\E i \in 1..Len(codes) : codes[i].purpose = Purpose(c)) /\ Refuses(c)
     \/ Becomes(c, [c EXCEPT !.at = "close codes", !.held = Len(codes)])
  /\ UNCHANGED <<browser, jar, client, server, events>>

CloseCodes(c) ==
  /\ c.at = "close codes"
  /\ \A i \in OpenCodes(Purpose(c)) : i <= c.held => ~Comparing(i)
  /\ codes' = [i \in DOMAIN codes |->
                IF i <= c.held /\ codes[i].purpose = Purpose(c)
                THEN [codes[i] EXCEPT !.open = FALSE] ELSE codes[i]]
  /\ GoesOn(c, "insert code")
  /\ UNCHANGED <<browser, jar, client, account, sessions, tokens, events>>

CreateVerificationCode(c) ==
  /\ c.at = "insert code"
  /\ codes' = Append(codes, [purpose |-> Purpose(c), open |-> TRUE, mailed |-> FALSE,
                             attempts |-> 0, uses |-> 0])
  /\ Becomes(c, [c EXCEPT !.at = "mail", !.held = Len(codes) + 1])
  /\ UNCHANGED <<browser, jar, client, account, sessions, tokens, events>>

MailCode(c) ==
  /\ c.at = "mail"
  /\ codes' = [codes EXCEPT ![c.held].mailed = TRUE]
  /\ Accepts(c)
  /\ UNCHANGED <<browser, jar, client, account, sessions, tokens, events>>

\* Mutant of LockCode: the row is read without FOR UPDATE.
LockCodeUnlocked(c) ==
  /\ c.at = "code"
  /\ LET S == OpenCodes(Purpose(c)) IN
       IF S = {} THEN Refuses(c) ELSE Becomes(c, [c EXCEPT !.at = "compare", !.held = Latest(S)])
  /\ UNCHANGED <<browser, jar, client, server, events>>

(* The latest open code is locked until it is compared and the transaction *)
(* commits.                                                                *)
LockCode(c) ==
  /\ c.at = "code"
  /\ LET S == OpenCodes(Purpose(c)) IN
       IF S = {} THEN Refuses(c)
       ELSE ~Comparing(Latest(S)) /\ Becomes(c, [c EXCEPT !.at = "compare", !.held = Latest(S)])
  /\ UNCHANGED <<browser, jar, client, server, events>>

\* Mutant of Exhausted: one attempt too many.
ExhaustedLate(i) == codes[i].attempts > MaxCodeAttempts

(* Too many attempts: the row is marked and the mark rolled back.          *)
Exhausted(i) == codes[i].attempts >= MaxCodeAttempts

ConsumeVerificationCode(c) ==
  /\ c.at = "compare"
  /\ \/ Exhausted(c.held) /\ Refuses(c) /\ UNCHANGED codes
     \/ /\ ~Exhausted(c.held) /\ c.typed # c.held
        /\ codes' = [codes EXCEPT ![c.held].attempts = @ + 1]
        /\ Refuses(c)
     \/ /\ ~Exhausted(c.held) /\ c.typed = c.held
        /\ codes' = [codes EXCEPT ![c.held].open = FALSE, ![c.held].uses = @ + 1]
        /\ GoesOn(c, IF c.op = "register" THEN "user" ELSE "user of code")
  /\ UNCHANGED <<browser, jar, client, account, sessions, tokens, events>>

------------------------------------------------------------------------------
(* Signing in.                                                             *)

AuthenticatePassword(c) ==
  /\ c.at = "password"
  /\ IF account THEN GoesOn(c, "create session") ELSE Refuses(c)
  /\ UNCHANGED <<browser, jar, client, server, events>>

AuthenticateCode(c) ==
  /\ c.at = "user of code"
  /\ IF account THEN GoesOn(c, "create session") ELSE Refuses(c)
  /\ UNCHANGED <<browser, jar, client, server, events>>

CreateUser(c) ==
  /\ c.at = "user"
  /\ account' = TRUE
  /\ IF account THEN Refuses(c) ELSE GoesOn(c, "create session")
  /\ UNCHANGED <<browser, jar, client, codes, sessions, tokens, events>>

CreateSession(c) ==
  /\ c.at = "create session"
  /\ sessions' = Append(sessions, TRUE)
  /\ Becomes(c, [c EXCEPT !.at = "create token", !.held = Len(sessions) + 1])
  /\ UNCHANGED <<browser, jar, client, account, codes, tokens, events>>

(* A login is named by the session it starts with.                         *)
CreateRefreshToken(c) ==
  /\ c.at = "create token"
  /\ tokens' = Append(tokens, [live |-> TRUE, login |-> c.held])
  /\ Answers(c, TRUE, c.held, Len(tokens) + 1)
  /\ UNCHANGED <<browser, jar, client, account, codes, sessions, events>>

CreateRefreshTokenFails(c) ==
  /\ c.at = "create token"
  /\ sessions' = [sessions EXCEPT ![c.held] = FALSE]
  /\ Answers(c, FALSE, None, Kept)
  /\ UNCHANGED <<browser, jar, client, account, codes, tokens, events>>

------------------------------------------------------------------------------
(* A statement fails, the password is wrong, the token or the code has     *)
(* expired, or the mail is not taken.  Sign-out ignores it; a rotation that*)
(* fails clears the cookies.                                               *)
StatementFails(c) ==
  /\ Counted
  /\ \/ c.at = "revoke session" /\ GoesOn(c, "revoke token")
     \/ c.at = "revoke token" /\ Answers(c, TRUE, None, None)
     \/ c.at \in {"lock token", "rotate"} /\ Answers(c, FALSE, None, None)
     \/ /\ c.at \notin {"revoke session", "revoke token", "lock token", "rotate", "create token",
                       "answered"}
        /\ Refuses(c)
  /\ UNCHANGED <<browser, jar, client, server>>

(* The handler of a request nobody waits for any more stops.               *)
HandlerStops(c) ==
  /\ ~c.heard
  /\ calls' = calls \ {c}
  /\ UNCHANGED <<browser, jar, client, server, events>>

------------------------------------------------------------------------------
(* Answers in the tab.                                                     *)

Stored(c) ==
  LET old == jar[browser[c.tab]] IN
  [access |-> IF c.access = Kept THEN old.access ELSE c.access,
   refresh |-> IF c.refresh = Kept THEN old.refresh ELSE c.refresh]

Released(t, c) ==
  CASE c.from = "gone" -> form[t]
    [] c.op \in {"password", "code", "register"} -> [form[t] EXCEPT !.pending = FALSE]
    [] c.op \in {"send for login", "send for register"} ->
         [form[t] EXCEPT !.sending = FALSE, !.cooldown = @ \/ c.ok]
    [] OTHER -> form[t]

(* A check that was refused asks for new cookies, and then again.          *)
NextStep(c) ==
  CASE c.step = "first" /\ ~c.ok -> "refresh"
    [] c.step = "refresh" /\ c.ok -> "again"
    [] OTHER -> "done"

Checks(c) == c.op \in {"ask", "api"}

CheckGoesOn(c) ==
  /\ Checks(c) /\ NextStep(c) # "done"
  /\ Becomes(c, WithCookies([c EXCEPT !.step = NextStep(c), !.ok = FALSE,
                    !.at = IF NextStep(c) = "refresh" THEN "lock token" ELSE FirstStatement(c.op)],
                  Stored(c)))
  /\ UNCHANGED <<client, events>>

(* A signed-in user leaves the sign-in page, and one who is not leaves the *)
(* console, by whichever check comes last.                                 *)
CheckEnds(c) ==
  /\ Checks(c) /\ NextStep(c) = "done"
  /\ IF c.op = "ask" /\ c.from \in {"login", "register"} /\ c.ok
     THEN GoTo(c.tab, "console", Stored(c), calls \ {c})
     ELSE IF c.op = "ask" /\ c.from = "console" /\ ~c.ok THEN GoTo(c.tab, "login", Stored(c), calls \ {c})
     ELSE calls' = calls \ {c} /\ UNCHANGED <<client, events>>

RequestEnds(c) ==
  CASE c.op \in {"password", "code", "register"} /\ c.ok -> GoTo(c.tab, "console", Stored(c), calls \ {c})
    [] c.op = "log out" -> GoTo(c.tab, "login", Stored(c), calls \ {c})
    [] OTHER -> /\ form' = [form EXCEPT ![c.tab] = Released(c.tab, c)]
                /\ calls' = calls \ {c}
                /\ UNCHANGED <<page, events>>

(* An answer arrives: its cookies are stored, and the tab goes on at once. *)
AnswerArrives(c) ==
  /\ c.at = "answered"
  /\ jar' = [jar EXCEPT ![browser[c.tab]] = Stored(c)]
  /\ \/ CheckGoesOn(c) \/ CheckEnds(c)
     \/ ~Checks(c) /\ RequestEnds(c)
  /\ UNCHANGED <<browser, server>>

(* The connection is lost, or a form has waited 20 s: the tab goes on as   *)
(* after an error, and the handler knows nothing of it.                    *)
AnswerLost(c) ==
  /\ c.heard
  /\ Counted
  /\ form' = [form EXCEPT ![c.tab] = Released(c.tab, [c EXCEPT !.ok = FALSE])]
  /\ calls' = (calls \ {c}) \cup IF c.at = "answered" THEN {} ELSE {[c EXCEPT !.heard = FALSE]}
  /\ UNCHANGED <<browser, jar, page, server>>

------------------------------------------------------------------------------
(* The user is known or not, and signed in with one browser or none.       *)
Init ==
  /\ browser \in [Tabs -> Browsers]
  /\ account \in BOOLEAN
  /\ \/ /\ jar = [b \in Browsers |-> [access |-> None, refresh |-> None]]
        /\ sessions = <<>> /\ tokens = <<>>
     \/ \E t \in Tabs :
          /\ account
          /\ jar = [b \in Browsers |-> IF b = browser[t] THEN [access |-> 1, refresh |-> 1]
                                       ELSE [access |-> None, refresh |-> None]]
          /\ sessions = <<TRUE>> /\ tokens = <<[live |-> TRUE, login |-> 1]>>
  /\ page = [t \in Tabs |-> IF jar[browser[t]].access = None THEN "login" ELSE "console"]
  /\ form = [t \in Tabs |-> [pending |-> FALSE, sending |-> FALSE, cooldown |-> FALSE]]
  /\ codes = <<>>
  /\ calls = {}
  /\ events = 0

TabStep(t) ==
  \/ \E p \in Pages : Visit(t, p)
  \/ CallAPI(t) \/ LogIn(t) \/ Register(t) \/ SendCode(t) \/ CooldownEnds(t)
  \/ LogOut(t) \/ RevokeOtherSessions(t)

TokenStep(c) ==
  \/ SessionUser(c) \/ RevokeSession(c) \/ LockToken(c) \/ RotateRefreshToken(c)
  \/ CreateSessionOfRefresh(c) \/ RevokeRefreshToken(c)
  \/ RevokeOtherAccess(c) \/ SeeOtherTokens(c) \/ RevokeOtherTokens(c)

CodeStep(c) ==
  \/ LastCode(c) \/ CloseCodes(c) \/ CreateVerificationCode(c) \/ MailCode(c)
  \/ LockCode(c) \/ ConsumeVerificationCode(c)

LoginStep(c) ==
  \/ AuthenticatePassword(c) \/ AuthenticateCode(c) \/ CreateUser(c) \/ CreateSession(c)
  \/ CreateRefreshToken(c) \/ CreateRefreshTokenFails(c)

AnswerStep(c) ==
  \/ StatementFails(c) \/ HandlerStops(c) \/ AnswerArrives(c) \/ AnswerLost(c)

Next ==
  \/ \E t \in Tabs : TabStep(t)
  \/ \E c \in calls : TokenStep(c) \/ CodeStep(c) \/ LoginStep(c) \/ AnswerStep(c)
  \/ \E b \in Browsers : SessionExpires(b)

Spec == Init /\ [][Next]_vars

------------------------------------------------------------------------------
(* Every variable has its type, and no more attempts are counted against a *)
(* code than it allows, however many requests try it at the same time.     *)
TypeOK ==
  /\ browser \in [Tabs -> Browsers]
  /\ jar \in [Browsers -> [access : 0..Len(sessions), refresh : 0..Len(tokens)]]
  /\ page \in [Tabs -> Pages]
  /\ form \in [Tabs -> [pending : BOOLEAN, sending : BOOLEAN, cooldown : BOOLEAN]]
  /\ account \in BOOLEAN
  /\ sessions \in Seq(BOOLEAN)
  /\ tokens \in Seq([live : BOOLEAN, login : 1..Len(sessions)])
  /\ codes \in Seq([purpose : {"login", "register"}, open : BOOLEAN, mailed : BOOLEAN,
                    attempts : 0..MaxCodeAttempts, uses : Nat])
  /\ \A c, d \in calls : c.id = d.id => c = d
  /\ events \in 0..MaxEvents

(* A login goes on in one place: its tokens replace each other, and however*)
(* many tabs refresh at the same time, only the last of them is live.      *)
OneLivePerLogin ==
  \A i, j \in DOMAIN tokens :
    tokens[i].live /\ tokens[j].live /\ tokens[i].login = tokens[j].login => i = j

(* A verification code lets one request in, whether requests race, answers *)
(* are lost or handlers stop half-way.                                     *)
CodeUsedOnce == \A i \in DOMAIN codes : codes[i].uses <= 1
=============================================================================
