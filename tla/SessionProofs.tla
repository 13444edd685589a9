---------------------------- MODULE SessionProofs ----------------------------
(***************************************************************************)
(* Proofs about Session, for any tabs and browsers, any number of requests *)
(* and lost answers and any limit of attempts: a login has one live token, *)
(* a verification code lets one request in and counts no more attempts     *)
(* than it allows, and every variable has its type.                        *)
(***************************************************************************)
EXTENDS Session, FiniteSetTheorems, WellFoundedInduction, TLAPS

TokenRow == [live : BOOLEAN, login : 1..Len(sessions)]
TokensInv == tokens \in Seq(TokenRow)
CodeRow == [purpose : {"login", "register"}, open : BOOLEAN, mailed : BOOLEAN,
            attempts : 0..MaxCodeAttempts, uses : Nat]

(* A code is open until it is used.                                        *)
CodesInv ==
  /\ codes \in Seq(CodeRow)
  /\ \A i \in 1..Len(codes) : codes[i].uses <= 1 /\ (codes[i].open => codes[i].uses = 0)

JarInv ==
  /\ browser \in [Tabs -> Browsers]
  /\ jar \in [Browsers -> [access : 0..Len(sessions), refresh : 0..Len(tokens)]]

(* What a handler relies on, given the tables ss, ts and cs: the row it    *)
(* locked is live, or open; the session it started is not the login of a   *)
(* token yet.  An answer may leave cookies alone.                          *)
Fields == {"at", "held", "access", "refresh", "tab"}
Holding == {"rotate", "session of refresh", "create token", "revoking", "compare", "close codes",
            "mail"}
Relies(at, held, ss, ts, cs) ==
  /\ at = "rotate" => held \in 1..Len(ts) /\ ts[held].live
  /\ at = "session of refresh" => held \in 1..Len(ts)
  /\ at = "create token" => held \in 1..Len(ss) /\ \A i \in 1..Len(ts) : ts[i].login # held
  /\ at = "revoking" => held \in 0..Len(ts)
  /\ at = "compare" => held \in 1..Len(cs) /\ cs[held].open
  /\ at = "close codes" => held \in 0..Len(cs)
  /\ at = "mail" => held \in 1..Len(cs)

Carries(c, ss, ts) ==
  /\ Fields \subseteq DOMAIN c
  /\ c.tab \in Tabs
  /\ c.access \in -1..Len(ss) /\ c.refresh \in -1..Len(ts)
  /\ c.at # "answered" => c.access # -1 /\ c.refresh # -1

CallOK(c, ss, ts, cs) == Carries(c, ss, ts) /\ Relies(c.at, c.held, ss, ts, cs)

(* One handler at a time holds a locked row or a session it started.       *)
Alone == {"rotate", "compare", "create token"}
Exclusive(S) == \A c, d \in S : c.at \in Alone /\ c.at = d.at /\ c.held = d.held => c = d

CallsOK(S, ss, ts, cs) == (\A c \in S : CallOK(c, ss, ts, cs)) /\ Exclusive(S)

IInv == /\ sessions \in Seq(BOOLEAN) /\ TokensInv /\ CodesInv /\ JarInv
        /\ OneLivePerLogin /\ CallsOK(calls, sessions, tokens, codes)

------------------------------------------------------------------------------
(* Sets of calls.                                                          *)
LEMMA FewerCalls ==
  ASSUME NEW ss, NEW ts, NEW cs, NEW S, CallsOK(S, ss, ts, cs), NEW T \in SUBSET S
  PROVE  CallsOK(T, ss, ts, cs)
BY DEF CallsOK, Exclusive

(* A call that holds nothing joins.                                        *)
LEMMA CallJoins ==
  ASSUME NEW ss, NEW ts, NEW cs, NEW S, CallsOK(S, ss, ts, cs),
         NEW d, CallOK(d, ss, ts, cs), d.at \notin Alone
  PROVE  CallsOK(S \cup {d}, ss, ts, cs)
BY DEF CallsOK, Exclusive

LEMMA HolderJoins ==
  ASSUME NEW ss, NEW ts, NEW cs, NEW S, CallsOK(S, ss, ts, cs),
         NEW d, CallOK(d, ss, ts, cs),
         d.at \in Alone => \A g \in S : ~(g.at = d.at /\ g.held = d.held)
  PROVE  CallsOK(S \cup {d}, ss, ts, cs)
BY DEF CallsOK, Exclusive

LEMMA LeftOK ==
  ASSUME NEW ss, NEW ts, NEW cs, NEW S, CallsOK(S, ss, ts, cs), NEW t
  PROVE  CallsOK(Left(t, S), ss, ts, cs)
<1> DEFINE Image(c) == IF c.tab = t /\ c.from # "console" THEN [c EXCEPT !.from = "gone"] ELSE c
<1>1. ASSUME NEW c \in S
      PROVE  /\ CallOK(Image(c), ss, ts, cs)
             /\ Image(c).at = c.at /\ Image(c).held = c.held
  <2>1. CallOK(c, ss, ts, cs)
    BY DEF CallsOK
  <2>2. /\ DOMAIN Image(c) = DOMAIN c
        /\ \A f \in Fields : Image(c)[f] = c[f]
    BY <2>1 DEF CallOK, Carries, Fields
  <2> HIDE DEF Image
  <2>3. Image(c).at = c.at /\ Image(c).held = c.held /\ Image(c).tab = c.tab
        /\ Image(c).access = c.access /\ Image(c).refresh = c.refresh
    BY <2>2 DEF Fields
  <2> QED
    BY <2>1, <2>2, <2>3 DEF CallOK, Carries, Relies
<1>2. \A g \in Left(t, S) : \E c \in S : g = Image(c)
  BY DEF Left
<1> HIDE DEF Image
<1>3. Exclusive(Left(t, S))
  BY <1>1, <1>2 DEF CallsOK, Exclusive
<1> QED
  BY <1>1, <1>2, <1>3 DEF CallsOK

(* Calls rely on as much of longer tables.                                 *)
LEMMA WiderIntervals ==
  ASSUME NEW m \in Nat, NEW n \in Nat, m <= n
  PROVE  -1..m \subseteq -1..n /\ 0..m \subseteq 0..n /\ 1..m \subseteq 1..n
OBVIOUS

LEMMA TablesGrow ==
  ASSUME NEW ss, NEW ts, NEW cs, NEW S, CallsOK(S, ss, ts, cs),
         NEW ss2, NEW ts2, NEW cs2,
         Len(ss) \in Nat, Len(ts) \in Nat, Len(cs) \in Nat,
         Len(ss2) \in Nat, Len(ts2) \in Nat, Len(cs2) \in Nat,
         Len(ss) <= Len(ss2), Len(ts) <= Len(ts2), Len(cs) <= Len(cs2),
         \A c \in S : c.at = "rotate" => ts2[c.held].live,
         \A c \in S : c.at = "create token" => \A i \in 1..Len(ts2) : ts2[i].login # c.held,
         \A c \in S : c.at = "compare" => cs2[c.held].open
  PROVE  CallsOK(S, ss2, ts2, cs2)
<1>1. -1..Len(ss) \subseteq -1..Len(ss2) /\ 1..Len(ss) \subseteq 1..Len(ss2)
  BY WiderIntervals
<1>2. /\ -1..Len(ts) \subseteq -1..Len(ts2) /\ 0..Len(ts) \subseteq 0..Len(ts2)
      /\ 1..Len(ts) \subseteq 1..Len(ts2)
  BY WiderIntervals
<1>3. 0..Len(cs) \subseteq 0..Len(cs2) /\ 1..Len(cs) \subseteq 1..Len(cs2)
  BY WiderIntervals
<1>4. ASSUME NEW c \in S
      PROVE  CallOK(c, ss2, ts2, cs2)
  <2>1. CallOK(c, ss, ts, cs)
    BY DEF CallsOK
  <2>2. c.access \in -1..Len(ss2) /\ c.refresh \in -1..Len(ts2)
    BY <2>1, <1>1, <1>2, Zenon DEF CallOK, Carries, Relies
  <2>3. /\ c.at = "rotate" => c.held \in 1..Len(ts2)
        /\ c.at = "session of refresh" => c.held \in 1..Len(ts2)
        /\ c.at = "create token" => c.held \in 1..Len(ss2)
        /\ c.at = "revoking" => c.held \in 0..Len(ts2)
    BY <2>1, <1>1, <1>2, Zenon DEF CallOK, Carries, Relies
  <2>4. /\ c.at = "compare" => c.held \in 1..Len(cs2)
        /\ c.at = "close codes" => c.held \in 0..Len(cs2)
        /\ c.at = "mail" => c.held \in 1..Len(cs2)
    BY <2>1, <1>3, Zenon DEF CallOK, Carries, Relies
  <2> QED
    BY <2>1, <2>2, <2>3, <2>4, Zenon DEF CallOK, Carries, Relies
<1> QED
  BY <1>4 DEF CallsOK

------------------------------------------------------------------------------
(* The next stage of a request: its cookies stay, or are those of its      *)
(* answer.                                                                 *)
LEMMA MovesOn ==
  ASSUME NEW ss, NEW ts, NEW cs, NEW c, Carries(c, ss, ts), c.at # "answered",
         NEW a, a \notin Holding
  PROVE  LET d == [c EXCEPT !.at = a] IN CallOK(d, ss, ts, cs) /\ d.at \notin Alone
<1> DEFINE d == [c EXCEPT !.at = a]
<1>1. /\ DOMAIN d = DOMAIN c /\ d.at = a
      /\ d.tab = c.tab /\ d.access = c.access /\ d.refresh = c.refresh
  BY DEF CallOK, Carries, Fields
<1> HIDE DEF d
<1>2. CallOK(d, ss, ts, cs) /\ d.at \notin Alone
  BY <1>1 DEF CallOK, Carries, Relies, Alone, Holding
<1> QED
  BY <1>2 DEF d

LEMMA AnswerOK ==
  ASSUME NEW ss, NEW ts, NEW cs, NEW c, Fields \subseteq DOMAIN c, c.tab \in Tabs,
         NEW ok, NEW a \in -1..Len(ss), NEW r \in -1..Len(ts)
  PROVE  LET d == [c EXCEPT !.at = "answered", !.ok = ok, !.access = a, !.refresh = r,
                            !.held = None, !.typed = None]
         IN CallOK(d, ss, ts, cs) /\ d.at \notin Alone
<1> DEFINE d == [c EXCEPT !.at = "answered", !.ok = ok, !.access = a, !.refresh = r,
                          !.held = None, !.typed = None]
<1>1. DOMAIN d = DOMAIN c /\ d.at = "answered" /\ d.tab = c.tab /\ d.access = a /\ d.refresh = r
  BY DEF Fields
<1> HIDE DEF d
<1>2. CallOK(d, ss, ts, cs) /\ d.at \notin Alone
  BY <1>1 DEF CallOK, Carries, Relies, Alone
<1> QED
  BY <1>2 DEF d

(* A new request starts with cookies of its browser.                       *)
Cookies(ss, ts) == [access : 0..Len(ss), refresh : 0..Len(ts)]
Operations == {"ask", "api", "revoke others", "password", "code", "register", "log out",
               "send for login", "send for register"}

LEMMA FirstStatementIs ==
  ASSUME NEW op \in Operations
  PROVE  FirstStatement(op) \in {"session", "password", "code", "last code", "revoke session"}
BY DEF FirstStatement, Operations

LEMMA RequestOK ==
  ASSUME NEW ss, NEW ts, NEW cs, Len(ss) \in Nat, Len(ts) \in Nat,
         NEW t \in Tabs, NEW op \in Operations, NEW from, NEW typed,
         NEW cookies \in Cookies(ss, ts), NEW S
  PROVE  LET d == Request(t, op, from, typed, cookies, S)
         IN CallOK(d, ss, ts, cs) /\ d.at \notin Alone
<1> DEFINE id == FirstFree({c.id : c \in S})
           e == [id |-> id, tab |-> t, op |-> op, from |-> from, step |-> "first",
                 at |-> FirstStatement(op), typed |-> typed, held |-> None, heard |-> TRUE,
                 ok |-> FALSE, access |-> None, refresh |-> None]
           d == [e EXCEPT !.access = cookies.access, !.refresh = cookies.refresh]
<1> HIDE DEF id
<1>1. DOMAIN d = DOMAIN e /\ Fields \subseteq DOMAIN e
  BY DEF Fields
<1>2. /\ d.at = FirstStatement(op) /\ d.tab = t
      /\ d.access = cookies.access /\ d.refresh = cookies.refresh
  OBVIOUS
<1>3. FirstStatement(op) \in {"session", "password", "code", "last code", "revoke session"}
  BY FirstStatementIs
<1>4. /\ cookies.access \in -1..Len(ss) /\ cookies.access # -1
      /\ cookies.refresh \in -1..Len(ts) /\ cookies.refresh # -1
  BY DEF Cookies
<1> HIDE DEF d, e
<1>5. CallOK(d, ss, ts, cs) /\ d.at \notin Alone
  BY <1>1, <1>2, <1>3, <1>4 DEF CallOK, Carries, Relies, Alone
<1> QED
  BY <1>5 DEF d, e, Request, WithCookies, id

------------------------------------------------------------------------------
(* The calls after a step of c.                                            *)
LEMMA LenIsNat == \A R : \A s \in Seq(R) : Len(s) \in Nat
OBVIOUS

LEMMA AtMostItself == \A n \in Nat : n <= n
OBVIOUS

LEMMA SeqOfFunction ==
  ASSUME NEW R, NEW n \in Nat, NEW f \in [1..n -> R]
  PROVE  f \in Seq(R) /\ Len(f) = n
OBVIOUS

LEMMA Lens ==
  ASSUME IInv
  PROVE  Len(sessions) \in Nat /\ Len(tokens) \in Nat /\ Len(codes) \in Nat
<1>1. /\ \E S : sessions \in Seq(S)
      /\ \E S : tokens \in Seq(S)
      /\ \E S : codes \in Seq(S)
  BY Zenon DEF IInv, TokensInv, CodesInv
<1> QED
  BY <1>1, LenIsNat, Zenon

LEMMA Others ==
  ASSUME IInv, NEW c \in calls
  PROVE  /\ CallOK(c, sessions, tokens, codes) /\ Carries(c, sessions, tokens)
         /\ Fields \subseteq DOMAIN c /\ c.tab \in Tabs
         /\ CallsOK(calls \ {c}, sessions, tokens, codes)
<1>1. CallsOK(calls, sessions, tokens, codes)
  BY DEF IInv
<1>2. CallsOK(calls \ {c}, sessions, tokens, codes)
  BY <1>1, FewerCalls
<1>3. CallOK(c, sessions, tokens, codes)
  BY <1>1 DEF CallsOK
<1> QED
  BY <1>2, <1>3, Zenon DEF CallOK, Carries

LEMMA GoesOnOK ==
  ASSUME NEW ss, NEW ts, NEW cs, NEW c, Carries(c, ss, ts), c.at # "answered",
         CallsOK(calls \ {c}, ss, ts, cs), NEW a, a \notin Holding, GoesOn(c, a)
  PROVE  CallsOK(calls', ss, ts, cs)
<1> DEFINE d == [c EXCEPT !.at = a]
<1>1. CallOK(d, ss, ts, cs) /\ d.at \notin Alone
  BY MovesOn
<1>2. calls' = (calls \ {c}) \cup {d}
  BY DEF GoesOn, Becomes
<1> HIDE DEF d
<1> QED
  BY <1>1, <1>2, CallJoins

LEMMA AnswersOK ==
  ASSUME NEW ss, NEW ts, NEW cs, NEW c, Fields \subseteq DOMAIN c, c.tab \in Tabs,
         CallsOK(calls \ {c}, ss, ts, cs),
         NEW ok, NEW a \in -1..Len(ss), NEW r \in -1..Len(ts), Answers(c, ok, a, r)
  PROVE  CallsOK(calls', ss, ts, cs)
<1> DEFINE d == [c EXCEPT !.at = "answered", !.ok = ok, !.access = a, !.refresh = r,
                          !.held = None, !.typed = None]
<1>1. CallOK(d, ss, ts, cs) /\ d.at \notin Alone
  BY AnswerOK
<1>2. calls' = (calls \ {c}) \cup (IF c.heard THEN {d} ELSE {})
  BY DEF Answers
<1> HIDE DEF d
<1>3. calls' = (calls \ {c}) \cup {d} \/ calls' = calls \ {c}
  BY <1>2
<1> QED
  BY <1>1, <1>3, CallJoins

LEMMA NoCookies ==
  ASSUME NEW n \in Nat
  PROVE  None \in -1..n /\ Kept \in -1..n
BY DEF None, Kept

(* An answer that leaves the cookies alone, or takes them away.            *)
LEMMA PlainAnswers ==
  ASSUME IInv, NEW c \in calls,
         \/ Accepts(c)
         \/ Refuses(c)
         \/ Answers(c, TRUE, None, None)
         \/ Answers(c, FALSE, None, None)
  PROVE  CallsOK(calls', sessions, tokens, codes)
<1>1. /\ None \in -1..Len(sessions) /\ Kept \in -1..Len(sessions)
      /\ None \in -1..Len(tokens) /\ Kept \in -1..Len(tokens)
  BY Lens, NoCookies
<1>2. Fields \subseteq DOMAIN c /\ c.tab \in Tabs /\ CallsOK(calls \ {c}, sessions, tokens, codes)
  BY Others
<1> QED
  BY <1>1, <1>2, AnswersOK, Zenon DEF Accepts, Refuses

(* The tables stay as they are.                                            *)
LEMMA QuietStep ==
  ASSUME IInv, UNCHANGED <<browser, jar, sessions, tokens, codes>>,
         CallsOK(calls', sessions, tokens, codes)
  PROVE  IInv'
BY DEF IInv, TokensInv, TokenRow, CodesInv, JarInv, OneLivePerLogin, CodeRow

------------------------------------------------------------------------------
(* Steps that change no table but that of users.                           *)
LEMMA HoldsOK ==
  ASSUME NEW ss, NEW ts, NEW cs, NEW c, Carries(c, ss, ts), c.at # "answered",
         CallsOK(calls \ {c}, ss, ts, cs),
         NEW a, NEW h, Becomes(c, [c EXCEPT !.at = a, !.held = h]),
         Relies(a, h, ss, ts, cs),
         a \in Alone => \A g \in calls \ {c} : ~(g.at = a /\ g.held = h)
  PROVE  CallsOK(calls', ss, ts, cs)
<1> DEFINE d == [c EXCEPT !.at = a, !.held = h]
<1>1. /\ DOMAIN d = DOMAIN c /\ d.at = a /\ d.held = h
      /\ d.tab = c.tab /\ d.access = c.access /\ d.refresh = c.refresh
  BY DEF CallOK, Carries, Fields
<1>2. calls' = (calls \ {c}) \cup {d}
  BY DEF Becomes
<1> HIDE DEF d
<1>3. CallOK(d, ss, ts, cs)
  BY <1>1 DEF CallOK, Carries
<1>4. CASE a \in Alone
  BY <1>1, <1>2, <1>3, <1>4, HolderJoins
<1>5. CASE a \notin Alone
  BY <1>1, <1>2, <1>3, <1>5, CallJoins
<1> QED
  BY <1>4, <1>5

LEMMA RefusesOrGoesOn ==
  ASSUME IInv, NEW c \in calls, c.at # "answered",
         \/ Accepts(c)
         \/ Refuses(c)
         \/ Answers(c, TRUE, None, None)
         \/ Answers(c, FALSE, None, None)
         \/ \E a : a \notin Holding /\ GoesOn(c, a),
         UNCHANGED <<browser, jar, sessions, tokens, codes>>
  PROVE  IInv'
<1>1. /\ CallOK(c, sessions, tokens, codes) /\ Carries(c, sessions, tokens)
      /\ CallsOK(calls \ {c}, sessions, tokens, codes)
  BY Others
<1>2. ASSUME NEW a, a \notin Holding, GoesOn(c, a)
      PROVE  CallsOK(calls', sessions, tokens, codes)
  BY <1>1, <1>2, GoesOnOK
<1>3. CallsOK(calls', sessions, tokens, codes)
  BY <1>2, PlainAnswers
<1> QED
  BY <1>3, QuietStep

LEMMA PlainSteps ==
  ASSUME IInv, NEW c \in calls,
         \/ SessionUser(c) \/ AuthenticatePassword(c) \/ AuthenticateCode(c) \/ CreateUser(c)
         \/ StatementFails(c)
  PROVE  IInv'
<1>1. /\ "other sessions" \notin Holding /\ "create session" \notin Holding
      /\ "revoke token" \notin Holding
  BY DEF Holding
<1>2. CASE SessionUser(c)
  <2>1. c.at # "answered" /\ UNCHANGED <<browser, jar, sessions, tokens, codes>>
    BY <1>2 DEF SessionUser, server
  <2>2. Accepts(c) \/ Refuses(c) \/ GoesOn(c, "other sessions")
    BY <1>2 DEF SessionUser
  <2> QED
    BY <1>1, <2>1, <2>2, RefusesOrGoesOn
<1>3. CASE AuthenticatePassword(c) \/ AuthenticateCode(c) \/ CreateUser(c)
  <2>1. c.at # "answered" /\ UNCHANGED <<browser, jar, sessions, tokens, codes>>
    BY <1>3 DEF AuthenticatePassword, AuthenticateCode, CreateUser, server
  <2>2. Refuses(c) \/ GoesOn(c, "create session")
    BY <1>3 DEF AuthenticatePassword, AuthenticateCode, CreateUser
  <2> QED
    BY <1>1, <2>1, <2>2, RefusesOrGoesOn
<1>4. CASE StatementFails(c)
  <2>1. c.at # "answered" /\ UNCHANGED <<browser, jar, sessions, tokens, codes>>
    BY <1>4 DEF StatementFails, server
  <2>2. \/ Refuses(c) \/ GoesOn(c, "revoke token")
        \/ Answers(c, TRUE, None, None) \/ Answers(c, FALSE, None, None)
    BY <1>4 DEF StatementFails
  <2> QED
    BY <1>1, <2>1, <2>2, RefusesOrGoesOn
<1> QED
  BY <1>2, <1>3, <1>4

LEMMA LockTokenStep ==
  ASSUME IInv, NEW c \in calls, LockToken(c)
  PROVE  IInv'
<1>1. /\ CallOK(c, sessions, tokens, codes) /\ Carries(c, sessions, tokens)
      /\ CallsOK(calls \ {c}, sessions, tokens, codes)
  BY Others
<1>2. c.at = "lock token" /\ UNCHANGED <<browser, jar, sessions, tokens, codes>>
  BY DEF LockToken, server
<1>3. CASE Answers(c, FALSE, None, None)
  BY <1>2, <1>3, RefusesOrGoesOn
<1>4. CASE IsOpen(c.refresh) /\ Becomes(c, [c EXCEPT !.at = "rotate", !.held = c.refresh])
  <2>1. c.refresh \in -1..Len(tokens) /\ c.refresh # -1 /\ c.refresh # 0 /\ tokens[c.refresh].live
    BY <1>1, <1>2, <1>4 DEF CallOK, Carries, IsOpen, None
  <2>2. c.refresh \in 1..Len(tokens)
    BY <2>1, Lens
  <2>3. \A g \in calls \ {c} : ~(g.at = "rotate" /\ g.held = c.refresh)
    BY DEF LockToken, Rotating
  <2>4. Relies("rotate", c.refresh, sessions, tokens, codes)
    BY <2>1, <2>2 DEF Relies
  <2> DEFINE k == c.refresh
  <2>5. /\ Becomes(c, [c EXCEPT !.at = "rotate", !.held = k]) /\ c.at # "answered"
        /\ Relies("rotate", k, sessions, tokens, codes)
        /\ \A g \in calls \ {c} : ~(g.at = "rotate" /\ g.held = k)
    BY <1>2, <1>4, <2>3, <2>4
  <2> HIDE DEF k
  <2>6. CallsOK(calls', sessions, tokens, codes)
    BY <1>1, <2>5, HoldsOK
  <2> QED
    BY <1>2, <2>6, QuietStep
<1> QED
  BY <1>3, <1>4 DEF LockToken

(* Among some rows of a table there is a latest one.                       *)
LEMMA LatestExists ==
  ASSUME NEW n \in Nat, NEW S \in SUBSET (1..n), S # {}
  PROVE  Latest(S) \in S
<1> DEFINE U == 1..n
           Above(i) == {j \in S : j > i}
           T == {Above(i) : i \in S}
<1>1. IsWellFoundedOn(StrictSubsetOrdering(U), SUBSET U)
  <2>1. IsFiniteSet(U)
    BY FS_Interval
  <2> HIDE DEF U
  <2>2. FiniteSubsetsOf(U) = SUBSET U
    BY <2>1, FS_FiniteSubsetsOfFinite
  <2> QED
    BY <2>2, FS_StrictSubsetOrderingWellFounded
<1>2. T \subseteq SUBSET U /\ T # {}
  OBVIOUS
<1>3. PICK x \in T : \A y \in T : ~(<<y, x>> \in StrictSubsetOrdering(U))
  <2> HIDE DEF T, U
  <2> QED
    BY <1>1, <1>2, WFMin
<1>4. PICK i \in S : x = Above(i)
  OBVIOUS
<1>5. ASSUME NEW j \in S, j > i
      PROVE  FALSE
  <2>0. i \in Int /\ j \in Int /\ \A k \in S : k \in Int
    OBVIOUS
  <2>1. /\ \A a, b, c \in Int : a > b /\ b > c => a > c
        /\ \A a \in Int : ~(a > a)
    OBVIOUS
  <2>2. Above(j) \subseteq Above(i) /\ j \in Above(i) /\ j \notin Above(j)
    BY <1>5, <2>0, <2>1, Zenon
  <2>3. Above(j) \in T /\ Above(j) \in SUBSET U /\ Above(i) \in SUBSET U
    OBVIOUS
  <2> HIDE DEF Above, U, T
  <2>4. <<Above(j), Above(i)>> \in StrictSubsetOrdering(U)
    BY <2>2, <2>3 DEF StrictSubsetOrdering
  <2> QED
    BY <1>3, <1>4, <2>3, <2>4
<1>6. \A j \in S : j <= i
  BY <1>5
<1> QED
  BY <1>6, Zenon DEF Latest

LEMMA LockCodeStep ==
  ASSUME IInv, NEW c \in calls, LockCode(c)
  PROVE  IInv'
<1>1. /\ CallOK(c, sessions, tokens, codes) /\ Carries(c, sessions, tokens)
      /\ CallsOK(calls \ {c}, sessions, tokens, codes)
  BY Others
<1>2. c.at = "code" /\ UNCHANGED <<browser, jar, sessions, tokens, codes>>
  BY DEF LockCode, server
<1>3. CASE Refuses(c)
  BY <1>2, <1>3, RefusesOrGoesOn
<1> DEFINE S == OpenCodes(Purpose(c))
<1>4. CASE /\ S # {} /\ ~Comparing(Latest(S))
           /\ Becomes(c, [c EXCEPT !.at = "compare", !.held = Latest(S)])
  <2>1. S \subseteq 1..Len(codes) /\ \A i \in S : codes[i].open
    BY DEF OpenCodes
  <2>3. Latest(S) \in S
    BY <1>4, <2>1, Lens, LatestExists
  <2>4. Latest(S) \in 1..Len(codes) /\ codes[Latest(S)].open
    BY <2>1, <2>3
  <2>5. \A g \in calls \ {c} : ~(g.at = "compare" /\ g.held = Latest(S))
    BY <1>4 DEF Comparing
  <2> HIDE DEF S
  <2>6. Relies("compare", Latest(S), sessions, tokens, codes)
    BY <2>4 DEF Relies
  <2>7. CallsOK(calls', sessions, tokens, codes)
    BY <1>1, <1>2, <1>4, <2>5, <2>6, HoldsOK
  <2> QED
    BY <1>2, <2>7, QuietStep
<1> QED
  BY <1>3, <1>4 DEF LockCode

LEMMA SeeOtherTokensStep ==
  ASSUME IInv, NEW c \in calls, SeeOtherTokens(c)
  PROVE  IInv'
<1>1. /\ CallOK(c, sessions, tokens, codes) /\ Carries(c, sessions, tokens)
      /\ CallsOK(calls \ {c}, sessions, tokens, codes)
  BY Others
<1>2. /\ c.at = "other tokens" /\ UNCHANGED <<browser, jar, sessions, tokens, codes>>
      /\ Becomes(c, [c EXCEPT !.at = "revoking", !.held = Len(tokens)])
  BY DEF SeeOtherTokens, server
<1>3. Len(tokens) \in 0..Len(tokens)
  BY Lens
<1>4. Relies("revoking", Len(tokens), sessions, tokens, codes) /\ "revoking" \notin Alone
  BY <1>3 DEF Relies, Alone
<1>5. CallsOK(calls', sessions, tokens, codes)
  BY <1>1, <1>2, <1>4, HoldsOK
<1> QED
  BY <1>2, <1>5, QuietStep

LEMMA LastCodeStep ==
  ASSUME IInv, NEW c \in calls, LastCode(c)
  PROVE  IInv'
<1>1. /\ CallOK(c, sessions, tokens, codes) /\ Carries(c, sessions, tokens)
      /\ CallsOK(calls \ {c}, sessions, tokens, codes)
  BY Others
<1>2. c.at = "last code" /\ UNCHANGED <<browser, jar, sessions, tokens, codes>>
  BY DEF LastCode, server
<1>3. CASE Refuses(c)
  BY <1>2, <1>3, RefusesOrGoesOn
<1>4. CASE Becomes(c, [c EXCEPT !.at = "close codes", !.held = Len(codes)])
  <2>1. Len(codes) \in 0..Len(codes)
    BY Lens
  <2>2. Relies("close codes", Len(codes), sessions, tokens, codes) /\ "close codes" \notin Alone
    BY <2>1 DEF Relies, Alone
  <2>3. CallsOK(calls', sessions, tokens, codes)
    BY <1>1, <1>2, <1>4, <2>2, HoldsOK
  <2> QED
    BY <1>2, <2>3, QuietStep
<1> QED
  BY <1>3, <1>4 DEF LastCode

LEMMA HandlerStopsStep ==
  ASSUME IInv, NEW c \in calls, HandlerStops(c)
  PROVE  IInv'
<1>1. CallsOK(calls', sessions, tokens, codes)
  BY Others DEF HandlerStops
<1> QED
  BY <1>1, QuietStep DEF HandlerStops, server

LEMMA AnswerLostStep ==
  ASSUME IInv, NEW c \in calls, AnswerLost(c)
  PROVE  IInv'
<1> DEFINE d == [c EXCEPT !.heard = FALSE]
<1>1. /\ CallOK(c, sessions, tokens, codes) /\ Carries(c, sessions, tokens)
      /\ CallsOK(calls \ {c}, sessions, tokens, codes)
  BY Others
<1>2. /\ DOMAIN d = DOMAIN c /\ d.at = c.at /\ d.held = c.held
      /\ d.tab = c.tab /\ d.access = c.access /\ d.refresh = c.refresh
  BY <1>1 DEF CallOK, Carries, Fields
<1>3. calls' = (calls \ {c}) \cup {d} \/ calls' = calls \ {c}
  BY DEF AnswerLost
<1> HIDE DEF d
<1>4. CallOK(d, sessions, tokens, codes)
  BY <1>1, <1>2 DEF CallOK, Carries
<1>5. d.at \in Alone => \A g \in calls \ {c} : ~(g.at = d.at /\ g.held = d.held)
  BY <1>2 DEF IInv, CallsOK, Exclusive
<1>6. CallsOK((calls \ {c}) \cup {d}, sessions, tokens, codes)
  BY <1>1, <1>4, <1>5, HolderJoins, Zenon
<1>7. CallsOK(calls', sessions, tokens, codes)
  BY <1>1, <1>3, <1>6, Zenon
<1> QED
  BY <1>7, QuietStep DEF AnswerLost, server

------------------------------------------------------------------------------
(* Steps of a tab.                                                         *)
LEMMA JarIs ==
  ASSUME IInv, NEW t \in Tabs
  PROVE  jar[browser[t]] \in Cookies(sessions, tokens)
BY DEF IInv, JarInv, Cookies

LEMMA SendOK ==
  ASSUME IInv, NEW t \in Tabs, NEW op \in Operations, NEW typed, Send(t, op, typed)
  PROVE  CallsOK(calls', sessions, tokens, codes)
<1> DEFINE d == Request(t, op, page[t], typed, jar[browser[t]], calls)
<1>1. CallsOK(calls, sessions, tokens, codes) /\ jar[browser[t]] \in Cookies(sessions, tokens)
  BY JarIs DEF IInv
<1>2. CallOK(d, sessions, tokens, codes) /\ d.at \notin Alone
  BY <1>1, Lens, RequestOK
<1>3. calls' = calls \cup {d}
  BY DEF Send
<1> HIDE DEF d
<1> QED
  BY <1>1, <1>2, <1>3, CallJoins

LEMMA GoToOK ==
  ASSUME IInv, NEW t \in Tabs, NEW p, NEW cookies \in Cookies(sessions, tokens),
         NEW cs, CallsOK(cs, sessions, tokens, codes), GoTo(t, p, cookies, cs)
  PROVE  CallsOK(calls', sessions, tokens, codes)
<1> DEFINE d == Request(t, "ask", p, None, cookies, cs)
<1>1. CallsOK(Left(t, cs), sessions, tokens, codes)
  BY LeftOK
<1>2. "ask" \in Operations
  BY DEF Operations
<1>3. CallOK(d, sessions, tokens, codes) /\ d.at \notin Alone
  BY <1>2, Lens, RequestOK
<1>4. calls' = Left(t, cs) \cup {d} \/ calls' = Left(t, cs)
  BY DEF GoTo
<1> HIDE DEF d
<1> QED
  BY <1>1, <1>3, <1>4, CallJoins

LEMMA TabSteps ==
  ASSUME IInv, NEW t \in Tabs, TabStep(t)
  PROVE  IInv'
<1>1. CallsOK(calls, sessions, tokens, codes) /\ jar[browser[t]] \in Cookies(sessions, tokens)
  BY JarIs DEF IInv
<1>2. CASE \E p \in Pages : Visit(t, p)
  <2>1. \E p : GoTo(t, p, jar[browser[t]], calls)
    BY <1>2 DEF Visit
  <2>2. CallsOK(calls', sessions, tokens, codes)
    BY <1>1, <2>1, GoToOK
  <2>3. UNCHANGED <<browser, jar, sessions, tokens, codes>>
    BY <1>2 DEF Visit, server
  <2> QED
    BY <2>2, <2>3, QuietStep
<1>3. CASE \/ CallAPI(t) \/ LogIn(t) \/ Register(t) \/ SendCode(t)
           \/ LogOut(t) \/ RevokeOtherSessions(t)
  <2>1. \E op \in Operations : \E typed : Send(t, op, typed)
    <3>1. CASE CallAPI(t)
      BY <3>1 DEF CallAPI, Operations
    <3>2. CASE LogIn(t)
      BY <3>2 DEF LogIn, Submit, Operations
    <3>3. CASE Register(t)
      BY <3>3 DEF Register, Submit, Operations
    <3>4. CASE SendCode(t)
      BY <3>4 DEF SendCode, Operations
    <3>5. CASE LogOut(t)
      BY <3>5 DEF LogOut, Operations
    <3>6. CASE RevokeOtherSessions(t)
      BY <3>6 DEF RevokeOtherSessions, Operations
    <3> QED
      BY <1>3, <3>1, <3>2, <3>3, <3>4, <3>5, <3>6
  <2>2. CallsOK(calls', sessions, tokens, codes)
    BY <2>1, SendOK
  <2>3. UNCHANGED <<browser, jar, sessions, tokens, codes>>
    BY <1>3 DEF CallAPI, LogIn, Register, Submit, SendCode, LogOut, RevokeOtherSessions, server
  <2> QED
    BY <2>2, <2>3, QuietStep
<1>4. CASE CooldownEnds(t)
  <2>1. calls' = calls /\ UNCHANGED <<browser, jar, sessions, tokens, codes>>
    BY <1>4 DEF CooldownEnds, server
  <2> QED
    BY <1>1, <2>1, QuietStep
<1> QED
  BY <1>2, <1>3, <1>4 DEF TabStep

LEMMA AnswerArrivesStep ==
  ASSUME IInv, NEW c \in calls, AnswerArrives(c)
  PROVE  IInv'
<1>1. /\ CallOK(c, sessions, tokens, codes) /\ c.tab \in Tabs
      /\ CallsOK(calls \ {c}, sessions, tokens, codes)
  BY Others
<1>2. UNCHANGED <<browser, sessions, tokens, codes>>
  BY DEF AnswerArrives, server
<1>3. Stored(c) \in Cookies(sessions, tokens)
  <2>1. jar[browser[c.tab]] \in Cookies(sessions, tokens)
    BY <1>1, JarIs
  <2>2. c.access \in -1..Len(sessions) /\ c.refresh \in -1..Len(tokens)
    BY <1>1 DEF CallOK, Carries
  <2>3. ASSUME NEW n \in Nat, NEW x \in -1..n, x # -1
        PROVE  x \in 0..n
    BY <2>3
  <2>4. /\ c.access # Kept => c.access \in 0..Len(sessions)
        /\ c.refresh # Kept => c.refresh \in 0..Len(tokens)
    BY <2>2, <2>3, Lens DEF Kept
  <2> QED
    BY <2>1, <2>4 DEF Stored, Cookies
<1>4. jar' \in [Browsers -> Cookies(sessions, tokens)]
  BY <1>1, <1>3 DEF AnswerArrives, IInv, JarInv, Cookies
<1>5. ASSUME CheckGoesOn(c)
      PROVE  CallsOK(calls', sessions, tokens, codes)
  <2> DEFINE at == IF NextStep(c) = "refresh" THEN "lock token" ELSE FirstStatement(c.op)
             d == [[c EXCEPT !.step = NextStep(c), !.ok = FALSE, !.at = at]
                     EXCEPT !.access = Stored(c).access, !.refresh = Stored(c).refresh]
  <2>1. at \in {"lock token", "session"}
    BY <1>5 DEF CheckGoesOn, Checks, FirstStatement
  <2>2. calls' = (calls \ {c}) \cup {d}
    BY <1>5 DEF CheckGoesOn, Becomes, WithCookies
  <2> HIDE DEF at
  <2>3. /\ DOMAIN d = DOMAIN c /\ d.at = at /\ d.tab = c.tab
        /\ d.access = Stored(c).access /\ d.refresh = Stored(c).refresh
    BY <1>1 DEF CallOK, Carries, Fields
  <2>4. /\ Stored(c).access \in -1..Len(sessions) /\ Stored(c).access # -1
        /\ Stored(c).refresh \in -1..Len(tokens) /\ Stored(c).refresh # -1
    BY <1>3 DEF Cookies
  <2> HIDE DEF d
  <2>5. CallOK(d, sessions, tokens, codes) /\ d.at \notin Alone
    BY <1>1, <2>1, <2>3, <2>4 DEF CallOK, Carries, Relies, Alone
  <2> QED
    BY <1>1, <2>2, <2>5, CallJoins
<1>6. ASSUME CheckEnds(c)
      PROVE  CallsOK(calls', sessions, tokens, codes)
  <2>1. (\E p : GoTo(c.tab, p, Stored(c), calls \ {c})) \/ calls' = calls \ {c}
    BY <1>6 DEF CheckEnds
  <2> QED
    BY <1>1, <1>3, <2>1, GoToOK
<1>7. ASSUME RequestEnds(c)
      PROVE  CallsOK(calls', sessions, tokens, codes)
  <2>1. (\E p : GoTo(c.tab, p, Stored(c), calls \ {c})) \/ calls' = calls \ {c}
    BY <1>7 DEF RequestEnds
  <2> QED
    BY <1>1, <1>3, <2>1, GoToOK
<1>8. CallsOK(calls', sessions, tokens, codes)
  BY <1>5, <1>6, <1>7 DEF AnswerArrives
<1> QED
  BY <1>2, <1>4, <1>8
     DEF IInv, TokensInv, TokenRow, CodesInv, JarInv, OneLivePerLogin, CodeRow, Cookies

------------------------------------------------------------------------------
(* Steps that change auth_sessions.                                        *)
LEMMA SessionsMove ==
  ASSUME IInv, sessions' \in Seq(BOOLEAN), Len(sessions) <= Len(sessions'),
         UNCHANGED <<browser, jar, tokens, codes>>
  PROVE  /\ CallsOK(calls, sessions', tokens, codes)
         /\ CallsOK(calls', sessions', tokens, codes) => IInv'
<1>1. Len(sessions') \in Nat
  BY LenIsNat, Zenon
<1>2. CallsOK(calls, sessions', tokens, codes)
  <2>1. CallsOK(calls, sessions, tokens, codes)
    BY DEF IInv
  <2>2. /\ \A g \in calls : g.at = "rotate" => tokens[g.held].live
        /\ \A g \in calls : g.at = "create token" =>
             \A i \in 1..Len(tokens) : tokens[i].login # g.held
        /\ \A g \in calls : g.at = "compare" => codes[g.held].open
    BY <2>1 DEF CallsOK, CallOK, Relies
  <2>3. Len(tokens) <= Len(tokens) /\ Len(codes) <= Len(codes)
    BY Lens
  <2> QED
    BY <1>1, <2>1, <2>2, <2>3, Lens, TablesGrow
<1>3. 1..Len(sessions) \subseteq 1..Len(sessions') /\ 0..Len(sessions) \subseteq 0..Len(sessions')
  BY <1>1, Lens, WiderIntervals
<1>4. tokens' \in Seq([live : BOOLEAN, login : 1..Len(sessions')])
  <2>1. ASSUME NEW A, NEW B, A \subseteq B, NEW s \in Seq(A)
        PROVE  s \in Seq(B)
    BY <2>1
  <2>2. TokenRow \subseteq [live : BOOLEAN, login : 1..Len(sessions')]
    BY <1>3 DEF TokenRow
  <2>3. tokens \in Seq(TokenRow)
    BY DEF IInv, TokensInv
  <2> HIDE DEF TokenRow
  <2>4. tokens \in Seq([live : BOOLEAN, login : 1..Len(sessions')])
    BY <2>1, <2>2, <2>3, Zenon
  <2> QED
    BY <2>4
<1>5. jar' \in [Browsers -> [access : 0..Len(sessions'), refresh : 0..Len(tokens')]]
  BY <1>3 DEF IInv, JarInv
<1>6. ASSUME CallsOK(calls', sessions', tokens, codes)
      PROVE  IInv'
  BY <1>4, <1>5, <1>6 DEF IInv, TokensInv, TokenRow, CodesInv, CodeRow, JarInv, OneLivePerLogin
<1> QED
  BY <1>2, <1>6

LEMMA OtherCalls ==
  ASSUME NEW ss, NEW ts, NEW cs, CallsOK(calls, ss, ts, cs), NEW c \in calls
  PROVE  CallsOK(calls \ {c}, ss, ts, cs) /\ Carries(c, ss, ts)
<1>1. CallsOK(calls \ {c}, ss, ts, cs)
  BY FewerCalls
<1> QED
  BY <1>1 DEF CallsOK, CallOK

LEMMA Longer ==
  ASSUME NEW R, NEW s \in Seq(R), NEW e \in R
  PROVE  /\ Append(s, e) \in Seq(R) /\ Len(Append(s, e)) = Len(s) + 1
         /\ Len(s) <= Len(Append(s, e))
         /\ \A i \in 1..Len(s) : Append(s, e)[i] = s[i]
         /\ Append(s, e)[Len(s) + 1] = e
         /\ Len(s) + 1 \in 1..Len(Append(s, e))
         /\ \A i \in 1..Len(Append(s, e)) : i \in 1..Len(s) \/ i = Len(s) + 1
OBVIOUS

LEMMA SessionAdded ==
  ASSUME IInv, sessions' = Append(sessions, TRUE)
  PROVE  /\ sessions' \in Seq(BOOLEAN) /\ Len(sessions) <= Len(sessions')
         /\ Len(sessions) + 1 \in 1..Len(sessions')
<1>1. sessions \in Seq(BOOLEAN) /\ TRUE \in BOOLEAN
  BY Zenon DEF IInv
<1> QED
  BY <1>1, Longer, Zenon

LEMMA LoginIsSession ==
  ASSUME IInv, NEW i \in 1..Len(tokens)
  PROVE  tokens[i] \in TokenRow /\ tokens[i].login \in 1..Len(sessions)
<1>1. tokens \in Seq(TokenRow)
  BY DEF IInv, TokensInv
<1>2. \A R : \A s \in Seq(R) : \A j \in 1..Len(s) : s[j] \in R
  OBVIOUS
<1>3. tokens[i] \in TokenRow
  BY <1>1, <1>2, Zenon
<1> QED
  BY <1>3 DEF TokenRow

(* Rows that are revoked.                                                  *)
LEMMA SessionsRevoked ==
  ASSUME NEW s \in Seq(BOOLEAN), NEW k
  PROVE  [s EXCEPT ![k] = FALSE] \in Seq(BOOLEAN) /\ Len([s EXCEPT ![k] = FALSE]) = Len(s)
<1>1. s \in [1..Len(s) -> BOOLEAN] /\ Len(s) \in Nat
  OBVIOUS
<1>2. [s EXCEPT ![k] = FALSE] \in [1..Len(s) -> BOOLEAN]
  BY <1>1, Zenon
<1> QED
  BY <1>1, <1>2, SeqOfFunction, Zenon

LEMMA RevokeSessionStep ==
  ASSUME IInv, NEW c \in calls, RevokeSession(c)
  PROVE  IInv'
<1>1. /\ c.at = "revoke session" /\ UNCHANGED <<browser, jar, tokens, codes>>
      /\ GoesOn(c, "revoke token")
  BY DEF RevokeSession
<1>2. sessions \in Seq(BOOLEAN) /\ Len(sessions) <= Len(sessions)
  BY Lens DEF IInv
<1>3. sessions' \in Seq(BOOLEAN) /\ Len(sessions) <= Len(sessions')
  BY <1>2, SessionsRevoked DEF RevokeSession
<1>4. CallsOK(calls, sessions', tokens, codes)
  BY <1>1, <1>3, SessionsMove
<1>5. CallsOK(calls \ {c}, sessions', tokens, codes) /\ Carries(c, sessions', tokens)
  BY <1>4, OtherCalls
<1>6. "revoke token" \notin Holding
  BY DEF Holding
<1>7. CallsOK(calls', sessions', tokens, codes)
  BY <1>1, <1>5, <1>6, GoesOnOK
<1> QED
  BY <1>1, <1>3, <1>7, SessionsMove

LEMMA SessionExpiresStep ==
  ASSUME IInv, NEW b \in Browsers, SessionExpires(b)
  PROVE  IInv'
<1>1. calls' = calls /\ UNCHANGED <<browser, jar, tokens, codes>>
  BY DEF SessionExpires
<1>2. sessions \in Seq(BOOLEAN) /\ Len(sessions) <= Len(sessions)
  BY Lens DEF IInv
<1>3. sessions' \in Seq(BOOLEAN) /\ Len(sessions) <= Len(sessions')
  BY <1>2, SessionsRevoked DEF SessionExpires
<1> QED
  BY <1>1, <1>3, SessionsMove

LEMMA RevokeOtherAccessStep ==
  ASSUME IInv, NEW c \in calls, RevokeOtherAccess(c)
  PROVE  IInv'
<1>1. /\ c.at = "other sessions" /\ UNCHANGED <<browser, jar, tokens, codes>>
      /\ GoesOn(c, "other tokens")
  BY DEF RevokeOtherAccess
<1>2. sessions \in Seq(BOOLEAN)
  BY DEF IInv
<1>3. sessions' \in Seq(BOOLEAN) /\ Len(sessions') = Len(sessions)
  <2>1. DOMAIN sessions = 1..Len(sessions) /\ \A i \in 1..Len(sessions) : sessions[i] \in BOOLEAN
    BY <1>2
  <2>2. sessions' = [i \in 1..Len(sessions) |-> sessions[i] /\ i = c.access]
    BY <2>1 DEF RevokeOtherAccess
  <2>3. \A i \in 1..Len(sessions) : (sessions[i] /\ i = c.access) \in BOOLEAN
    OBVIOUS
  <2>4. sessions' \in [1..Len(sessions) -> BOOLEAN]
    BY <2>2, <2>3, Zenon
  <2> QED
    BY <2>4, SeqOfFunction, Lens, Zenon
<1>4. Len(sessions) <= Len(sessions')
  BY <1>3, Lens
<1>5. CallsOK(calls, sessions', tokens, codes)
  BY <1>1, <1>3, <1>4, SessionsMove
<1>6. CallsOK(calls \ {c}, sessions', tokens, codes) /\ Carries(c, sessions', tokens)
  BY <1>5, OtherCalls
<1>7. "other tokens" \notin Holding
  BY DEF Holding
<1>8. CallsOK(calls', sessions', tokens, codes)
  BY <1>1, <1>6, <1>7, GoesOnOK
<1> QED
  BY <1>1, <1>3, <1>4, <1>8, SessionsMove

LEMMA CreateSessionStep ==
  ASSUME IInv, NEW c \in calls, CreateSession(c)
  PROVE  IInv'
<1> DEFINE n == Len(sessions) + 1
<1>1. /\ c.at = "create session" /\ UNCHANGED <<browser, jar, tokens, codes>>
      /\ sessions' = Append(sessions, TRUE)
      /\ Becomes(c, [c EXCEPT !.at = "create token", !.held = n])
  BY DEF CreateSession
<1>2. /\ sessions' \in Seq(BOOLEAN) /\ Len(sessions) <= Len(sessions')
      /\ n \in 1..Len(sessions')
  BY <1>1, SessionAdded
<1>3. CallsOK(calls, sessions', tokens, codes)
  BY <1>1, <1>2, SessionsMove
<1>4. CallsOK(calls \ {c}, sessions', tokens, codes) /\ Carries(c, sessions', tokens)
  BY <1>3, OtherCalls
<1>5. n \notin 1..Len(sessions)
  BY Lens
<1>6. \A i \in 1..Len(tokens) : tokens[i].login # n
  <2>1. \A i \in 1..Len(tokens) : tokens[i].login \in 1..Len(sessions)
    BY LoginIsSession
  <2> QED
    BY <1>5, <2>1, Zenon
<1>7. \A g \in calls \ {c} : ~(g.at = "create token" /\ g.held = n)
  <2>1. \A g \in calls : g.at = "create token" => g.held \in 1..Len(sessions)
    BY DEF IInv, CallsOK, CallOK, Relies
  <2> QED
    BY <1>5, <2>1, Zenon
<1> HIDE DEF n
<1>8. Relies("create token", n, sessions', tokens, codes)
  BY <1>2, <1>6 DEF Relies
<1>9. CallsOK(calls', sessions', tokens, codes)
  BY <1>1, <1>4, <1>7, <1>8, HoldsOK
<1> QED
  BY <1>1, <1>2, <1>9, SessionsMove

LEMMA CreateSessionOfRefreshStep ==
  ASSUME IInv, NEW c \in calls, CreateSessionOfRefresh(c)
  PROVE  IInv'
<1> DEFINE n == Len(sessions) + 1
<1>1. /\ c.at = "session of refresh" /\ UNCHANGED <<browser, jar, tokens, codes>>
      /\ sessions' = Append(sessions, TRUE)
      /\ Answers(c, TRUE, n, c.held)
  BY DEF CreateSessionOfRefresh
<1>2. /\ sessions' \in Seq(BOOLEAN) /\ Len(sessions) <= Len(sessions')
      /\ n \in 1..Len(sessions')
  BY <1>1, SessionAdded
<1>3. CallsOK(calls, sessions', tokens, codes)
  BY <1>1, <1>2, SessionsMove
<1>4. CallsOK(calls \ {c}, sessions', tokens, codes) /\ Fields \subseteq DOMAIN c /\ c.tab \in Tabs
  BY <1>3, OtherCalls DEF Carries
<1>5. c.held \in 1..Len(tokens)
  BY <1>1, Others DEF CallOK, Relies
<1>6. n \in -1..Len(sessions') /\ c.held \in -1..Len(tokens)
  BY <1>2, <1>5, Lens
<1> HIDE DEF n
<1>7. CallsOK(calls', sessions', tokens, codes)
  BY <1>1, <1>4, <1>6, AnswersOK
<1> QED
  BY <1>1, <1>2, <1>7, SessionsMove

LEMMA CreateRefreshTokenFailsStep ==
  ASSUME IInv, NEW c \in calls, CreateRefreshTokenFails(c)
  PROVE  IInv'
<1>1. UNCHANGED <<browser, jar, tokens, codes>> /\ Answers(c, FALSE, None, Kept)
  BY DEF CreateRefreshTokenFails
<1>2. sessions \in Seq(BOOLEAN) /\ Len(sessions) <= Len(sessions)
  BY Lens DEF IInv
<1>3. sessions' \in Seq(BOOLEAN) /\ Len(sessions) <= Len(sessions')
  BY <1>2, SessionsRevoked DEF CreateRefreshTokenFails
<1>4. CallsOK(calls, sessions', tokens, codes)
  BY <1>1, <1>3, SessionsMove
<1>5. CallsOK(calls \ {c}, sessions', tokens, codes) /\ Fields \subseteq DOMAIN c /\ c.tab \in Tabs
  BY <1>4, OtherCalls DEF Carries
<1>6. None \in -1..Len(sessions') /\ Kept \in -1..Len(tokens)
  BY <1>3, Lens, NoCookies
<1>7. CallsOK(calls', sessions', tokens, codes)
  BY <1>1, <1>5, <1>6, AnswersOK
<1> QED
  BY <1>1, <1>3, <1>7, SessionsMove

------------------------------------------------------------------------------
(* Steps that change auth_refresh_tokens.                                  *)
LEMMA TokensMove ==
  ASSUME IInv, tokens' \in Seq(TokenRow), Len(tokens) <= Len(tokens'), OneLivePerLogin',
         UNCHANGED <<browser, jar, sessions, codes>>,
         CallsOK(calls', sessions, tokens', codes)
  PROVE  IInv'
<1>1. Len(tokens') \in Nat
  BY LenIsNat, Zenon
<1>2. 0..Len(tokens) \subseteq 0..Len(tokens')
  BY <1>1, Lens, WiderIntervals
<1>3. jar' \in [Browsers -> [access : 0..Len(sessions'), refresh : 0..Len(tokens')]]
  BY <1>2 DEF IInv, JarInv
<1> QED
  BY <1>3 DEF IInv, TokensInv, TokenRow, CodesInv, CodeRow, JarInv

(* What the other handlers rely on is kept by a change of the tokens that  *)
(* revokes none that is being rotated and gives no login a second token.   *)
LEMMA OthersKeepTokens ==
  ASSUME IInv, NEW c \in calls, tokens' \in Seq(TokenRow), Len(tokens) <= Len(tokens'),
         \A g \in calls \ {c} : g.at = "rotate" => tokens'[g.held].live,
         \A g \in calls \ {c} : g.at = "create token" =>
            \A i \in 1..Len(tokens') : tokens'[i].login # g.held
  PROVE  CallsOK(calls \ {c}, sessions, tokens', codes)
<1>1. Len(tokens') \in Nat
  BY LenIsNat, Zenon
<1>2. Len(sessions) <= Len(sessions) /\ Len(codes) <= Len(codes)
  BY AtMostItself, Lens, Zenon
<1>3. CallsOK(calls \ {c}, sessions, tokens, codes)
  BY Others
<1>4. \A g \in calls \ {c} : g.at = "compare" => codes[g.held].open
  BY <1>3 DEF CallsOK, CallOK, Relies
<1> QED
  BY <1>1, <1>2, <1>3, <1>4, Lens, TablesGrow

LEMMA CarriesMore ==
  ASSUME IInv, NEW c \in calls, tokens' \in Seq(TokenRow), Len(tokens) <= Len(tokens')
  PROVE  Carries(c, sessions, tokens')
<1>1. Len(tokens') \in Nat
  BY LenIsNat, Zenon
<1>2. -1..Len(tokens) \subseteq -1..Len(tokens')
  BY <1>1, Lens, WiderIntervals
<1>3. Carries(c, sessions, tokens)
  BY Others
<1> QED
  BY <1>2, <1>3, Zenon DEF Carries

(* What the handlers rely on.                                              *)
LEMMA Holders ==
  ASSUME IInv
  PROVE  /\ \A g \in calls : g.at = "rotate" => g.held \in 1..Len(tokens) /\ tokens[g.held].live
         /\ \A g \in calls : g.at = "create token" =>
              /\ g.held \in 1..Len(sessions)
              /\ \A i \in 1..Len(tokens) : tokens[i].login # g.held
         /\ \A g \in calls : g.at = "compare" => g.held \in 1..Len(codes) /\ codes[g.held].open
         /\ \A g, h \in calls : g.at \in Alone /\ g.at = h.at /\ g # h => g.held # h.held
BY DEF IInv, CallsOK, CallOK, Relies, Exclusive

LEMMA TokenRevoked ==
  ASSUME IInv, NEW k \in 1..Len(tokens)
  PROVE  LET ts == [tokens EXCEPT ![k].live = FALSE]
         IN /\ ts \in Seq(TokenRow) /\ Len(ts) = Len(tokens)
            /\ ~ts[k].live /\ ts[k].login = tokens[k].login
            /\ \A i \in 1..Len(tokens) : i # k => ts[i] = tokens[i]
<1> DEFINE ts == [tokens EXCEPT ![k].live = FALSE]
<1>1. tokens \in Seq(TokenRow) /\ tokens[k] \in TokenRow
  BY LoginIsSession DEF IInv, TokensInv
<1>2. FALSE \in BOOLEAN
  OBVIOUS
<1>3. [tokens[k] EXCEPT !.live = FALSE] \in TokenRow
  BY <1>1, <1>2 DEF TokenRow
<1>4. ts = [tokens EXCEPT ![k] = [tokens[k] EXCEPT !.live = FALSE]]
  OBVIOUS
<1>5. ts \in [1..Len(tokens) -> TokenRow]
  <2>1. tokens \in [1..Len(tokens) -> TokenRow]
    BY <1>1
  <2> HIDE DEF ts
  <2> QED
    BY <1>3, <1>4, <2>1
<1>6. ts \in Seq(TokenRow) /\ Len(ts) = Len(tokens)
  <2> HIDE DEF ts
  <2> QED
    BY <1>5, SeqOfFunction, Lens, Zenon
<1>7. /\ ~ts[k].live /\ ts[k].login = tokens[k].login
      /\ \A i \in 1..Len(tokens) : i # k => ts[i] = tokens[i]
  BY <1>1 DEF TokenRow
<1> QED
  BY <1>6, <1>7

LEMMA RevokedKeepsOne ==
  ASSUME IInv, Len(tokens') = Len(tokens), tokens' \in Seq(TokenRow),
         \A i \in 1..Len(tokens) : /\ tokens'[i].login = tokens[i].login
                                   /\ tokens'[i].live => tokens[i].live
  PROVE  /\ OneLivePerLogin'
         /\ \A g \in calls : g.at = "create token" =>
              \A i \in 1..Len(tokens') : tokens'[i].login # g.held
<1>1. DOMAIN tokens = 1..Len(tokens) /\ DOMAIN tokens' = 1..Len(tokens)
  BY DEF IInv, TokensInv
<1>2. OneLivePerLogin'
  BY <1>1 DEF OneLivePerLogin, IInv
<1> QED
  BY <1>2, Holders

LEMMA RevokeRefreshTokenStep ==
  ASSUME IInv, NEW c \in calls, RevokeRefreshToken(c)
  PROVE  IInv'
<1>1. /\ c.at = "revoke token" /\ UNCHANGED <<browser, jar, sessions, codes>>
      /\ Answers(c, TRUE, None, None)
  BY DEF RevokeRefreshToken
<1>2. Fields \subseteq DOMAIN c /\ c.tab \in Tabs /\ Carries(c, sessions, tokens)
  BY Others
<1>3. CASE c.refresh = None
  <2>1. tokens' = tokens
    BY <1>3 DEF RevokeRefreshToken
  <2> QED
    BY <1>1, <2>1, RefusesOrGoesOn
<1>4. CASE c.refresh # None
  <2> DEFINE k == c.refresh
  <2>1. k \in 1..Len(tokens)
    <3>1. k \in -1..Len(tokens) /\ k # -1 /\ k # 0
      BY <1>1, <1>2, <1>4 DEF Carries, None
    <3> QED
      BY <3>1, Lens
  <2>2. tokens' = [tokens EXCEPT ![k].live = FALSE]
    BY <1>4 DEF RevokeRefreshToken
  <2> HIDE DEF k
  <2>3. /\ tokens' \in Seq(TokenRow) /\ Len(tokens') = Len(tokens)
        /\ ~tokens'[k].live /\ tokens'[k].login = tokens[k].login
        /\ \A i \in 1..Len(tokens) : i # k => tokens'[i] = tokens[i]
    BY <2>1, <2>2, TokenRevoked
  <2>4. Len(tokens) <= Len(tokens')
    BY <2>3, Lens
  <2>5. /\ OneLivePerLogin'
        /\ \A g \in calls : g.at = "create token" =>
             \A i \in 1..Len(tokens') : tokens'[i].login # g.held
    BY <2>3, RevokedKeepsOne
  <2>6. \A g \in calls \ {c} : g.at = "rotate" => tokens'[g.held].live
    BY <2>3, Holders DEF RevokeRefreshToken, Rotating, k
  <2>7. CallsOK(calls \ {c}, sessions, tokens', codes)
    BY <2>3, <2>4, <2>5, <2>6, OthersKeepTokens
  <2>8. None \in -1..Len(sessions) /\ None \in -1..Len(tokens')
    BY <2>3, Lens, NoCookies
  <2>9. CallsOK(calls', sessions, tokens', codes)
    BY <1>1, <1>2, <2>7, <2>8, AnswersOK
  <2> QED
    BY <1>1, <2>3, <2>4, <2>5, <2>9, TokensMove
<1> QED
  BY <1>3, <1>4

LEMMA RevokeOtherTokensStep ==
  ASSUME IInv, NEW c \in calls, RevokeOtherTokens(c)
  PROVE  IInv'
<1>1. /\ c.at = "revoking" /\ UNCHANGED <<browser, jar, sessions, codes>>
      /\ Answers(c, TRUE, Kept, Kept)
  BY DEF RevokeOtherTokens, Accepts
<1>2. /\ Fields \subseteq DOMAIN c /\ c.tab \in Tabs
      /\ c.held \in 0..Len(tokens)
  BY <1>1, Others DEF CallOK, Relies
<1> DEFINE row(i) == IF i <= c.held /\ i # c.refresh THEN [tokens[i] EXCEPT !.live = FALSE]
                     ELSE tokens[i]
<1>3. tokens' = [i \in 1..Len(tokens) |-> row(i)]
  <2>1. DOMAIN tokens = 1..Len(tokens)
    BY DEF IInv, TokensInv
  <2> QED
    BY <2>1 DEF RevokeOtherTokens
<1>4. ASSUME NEW i \in 1..Len(tokens)
      PROVE  /\ row(i) \in TokenRow /\ row(i).login = tokens[i].login
             /\ row(i).live => tokens[i].live
             /\ ~(i <= c.held /\ i # c.refresh) => row(i) = tokens[i]
  <2>1. tokens[i] \in TokenRow
    BY LoginIsSession
  <2>2. FALSE \in BOOLEAN
    OBVIOUS
  <2> QED
    BY <2>1, <2>2 DEF TokenRow
<1> HIDE DEF row
<1>5. tokens' \in Seq(TokenRow) /\ Len(tokens') = Len(tokens)
  <2>1. tokens' \in [1..Len(tokens) -> TokenRow]
    BY <1>3, <1>4
  <2> QED
    BY <2>1, SeqOfFunction, Lens, Zenon
<1>6. \A i \in 1..Len(tokens) : tokens'[i] = row(i)
  BY <1>3
<1>7. Len(tokens) <= Len(tokens')
  BY <1>5, Lens
<1>8. /\ OneLivePerLogin'
      /\ \A g \in calls : g.at = "create token" =>
           \A i \in 1..Len(tokens') : tokens'[i].login # g.held
  BY <1>4, <1>5, <1>6, RevokedKeepsOne
<1>9. \A g \in calls \ {c} : g.at = "rotate" => tokens'[g.held].live
  <2> TAKE g \in calls \ {c}
  <2> HAVE g.at = "rotate"
  <2>1. g.held \in 1..Len(tokens) /\ tokens[g.held].live
    BY Holders
  <2>2. ~(g.held \in 1..c.held /\ g.held # c.refresh)
    BY DEF RevokeOtherTokens, Rotating
  <2>3. ~(g.held <= c.held /\ g.held # c.refresh)
    BY <1>2, <2>1, <2>2, Lens
  <2> QED
    BY <1>4, <1>6, <2>1, <2>3
<1>10. CallsOK(calls \ {c}, sessions, tokens', codes)
  BY <1>5, <1>7, <1>8, <1>9, OthersKeepTokens
<1>11. Kept \in -1..Len(sessions) /\ Kept \in -1..Len(tokens')
  BY <1>5, Lens, NoCookies
<1>12. CallsOK(calls', sessions, tokens', codes)
  BY <1>1, <1>2, <1>10, <1>11, AnswersOK
<1> QED
  BY <1>1, <1>5, <1>7, <1>8, <1>12, TokensMove

LEMMA RotateRefreshTokenStep ==
  ASSUME IInv, NEW c \in calls, RotateRefreshToken(c)
  PROVE  IInv'
<1> DEFINE k == c.held
           n == Len(tokens) + 1
           ts == [tokens EXCEPT ![k].live = FALSE]
           e == [live |-> TRUE, login |-> tokens[k].login]
<1>1. /\ c.at = "rotate" /\ UNCHANGED <<browser, jar, sessions, codes>>
      /\ tokens' = Append(ts, e)
      /\ Becomes(c, [c EXCEPT !.at = "session of refresh", !.held = n])
  BY DEF RotateRefreshToken
<1>2. k \in 1..Len(tokens) /\ tokens[k].live /\ tokens[k].login \in 1..Len(sessions)
  BY <1>1, Holders, LoginIsSession
<1>3. /\ ts \in Seq(TokenRow) /\ Len(ts) = Len(tokens)
      /\ ~ts[k].live /\ ts[k].login = tokens[k].login
      /\ \A i \in 1..Len(tokens) : i # k => ts[i] = tokens[i]
  BY <1>2, TokenRevoked
<1>4. e \in TokenRow /\ e.login = tokens[k].login
  <2>1. TRUE \in BOOLEAN
    OBVIOUS
  <2> QED
    BY <1>2, <2>1 DEF TokenRow
<1> HIDE DEF ts, e
<1>5. /\ tokens' \in Seq(TokenRow) /\ Len(tokens') = n
      /\ \A i \in 1..Len(tokens) : tokens'[i] = ts[i]
      /\ tokens'[n] = e
      /\ \A i \in 1..Len(tokens') : i \in 1..Len(tokens) \/ i = n
      /\ n \in 1..Len(tokens')
  BY <1>1, <1>3, <1>4, Longer
<1>6. Len(tokens) <= Len(tokens') /\ n \notin 1..Len(tokens)
  BY <1>5, Lens
<1> HIDE DEF n
<1>7. \A i \in 1..Len(tokens) :
         /\ tokens'[i].login = tokens[i].login
         /\ tokens'[i].live => tokens[i].live /\ i # k
  BY <1>3, <1>5
<1>8. OneLivePerLogin'
  <2>1. DOMAIN tokens' = 1..Len(tokens') /\ DOMAIN tokens = 1..Len(tokens)
    BY <1>5 DEF IInv, TokensInv
  <2>2. \A i, j \in 1..Len(tokens) :
          tokens[i].live /\ tokens[j].live /\ tokens[i].login = tokens[j].login => i = j
    BY <2>1 DEF IInv, OneLivePerLogin
  <2>3. ASSUME NEW i \in 1..Len(tokens), tokens'[i].live
        PROVE  tokens'[i].login # tokens'[n].login
    BY <1>2, <1>4, <1>5, <1>7, <2>2, <2>3
  <2>4. ASSUME NEW i \in 1..Len(tokens'), NEW j \in 1..Len(tokens'),
               tokens'[i].live, tokens'[j].live, tokens'[i].login = tokens'[j].login
        PROVE  i = j
    BY <1>5, <1>7, <2>2, <2>3, <2>4
  <2> QED
    BY <2>1, <2>4 DEF OneLivePerLogin
<1>9. \A g \in calls \ {c} : g.at = "rotate" => tokens'[g.held].live
  <2> TAKE g \in calls \ {c}
  <2> HAVE g.at = "rotate"
  <2>1. g.held \in 1..Len(tokens) /\ tokens[g.held].live /\ g.held # k
    BY <1>1, Holders DEF Alone
  <2> QED
    BY <1>3, <1>5, <2>1
<1>10. \A g \in calls \ {c} : g.at = "create token" =>
          \A i \in 1..Len(tokens') : tokens'[i].login # g.held
  <2> TAKE g \in calls \ {c}
  <2> HAVE g.at = "create token"
  <2>1. \A i \in 1..Len(tokens) : tokens[i].login # g.held
    BY Holders
  <2>2. \A i \in 1..Len(tokens) : tokens'[i].login # g.held
    BY <1>7, <2>1, Zenon
  <2>3. tokens'[n].login # g.held
    BY <1>2, <1>4, <1>5, <2>1, Zenon
  <2> QED
    BY <1>5, <2>2, <2>3, Zenon
<1>11. CallsOK(calls \ {c}, sessions, tokens', codes)
  BY <1>5, <1>6, <1>9, <1>10, OthersKeepTokens
<1>12. Carries(c, sessions, tokens')
  BY <1>5, <1>6, CarriesMore
<1>13. /\ Relies("session of refresh", n, sessions, tokens', codes)
       /\ "session of refresh" \notin Alone
  BY <1>5 DEF Relies, Alone
<1>14. CallsOK(calls', sessions, tokens', codes)
  BY <1>1, <1>11, <1>12, <1>13, HoldsOK
<1> QED
  BY <1>1, <1>5, <1>6, <1>8, <1>14, TokensMove

LEMMA CreateRefreshTokenStep ==
  ASSUME IInv, NEW c \in calls, CreateRefreshToken(c)
  PROVE  IInv'
<1> DEFINE k == c.held
           n == Len(tokens) + 1
           e == [live |-> TRUE, login |-> k]
<1>1. /\ c.at = "create token" /\ UNCHANGED <<browser, jar, sessions, codes>>
      /\ tokens' = Append(tokens, e)
      /\ Answers(c, TRUE, k, n)
  BY DEF CreateRefreshToken
<1>2. k \in 1..Len(sessions) /\ \A i \in 1..Len(tokens) : tokens[i].login # k
  BY <1>1, Holders
<1>3. e \in TokenRow /\ e.login = k
  <2>1. TRUE \in BOOLEAN
    OBVIOUS
  <2> QED
    BY <1>2, <2>1 DEF TokenRow
<1>4. tokens \in Seq(TokenRow)
  BY DEF IInv, TokensInv
<1> HIDE DEF e
<1>5. /\ tokens' \in Seq(TokenRow) /\ Len(tokens') = n
      /\ \A i \in 1..Len(tokens) : tokens'[i] = tokens[i]
      /\ tokens'[n] = e
      /\ \A i \in 1..Len(tokens') : i \in 1..Len(tokens) \/ i = n
      /\ n \in 1..Len(tokens')
  <2>1. /\ Append(tokens, e) \in Seq(TokenRow) /\ Len(Append(tokens, e)) = n
        /\ Len(tokens) <= Len(Append(tokens, e))
        /\ \A i \in 1..Len(tokens) : Append(tokens, e)[i] = tokens[i]
        /\ Append(tokens, e)[n] = e
        /\ \A i \in 1..Len(Append(tokens, e)) : i \in 1..Len(tokens) \/ i = n
        /\ n \in 1..Len(Append(tokens, e))
    BY <1>3, <1>4, Longer
  <2> QED
    BY <1>1, <2>1
<1>6. Len(tokens) <= Len(tokens')
  BY <1>5, Lens
<1>7. k \in -1..Len(sessions) /\ n \in -1..Len(tokens')
  BY <1>2, <1>5, Lens
<1> HIDE DEF n
<1>8. OneLivePerLogin'
  <2>1. DOMAIN tokens' = 1..Len(tokens') /\ DOMAIN tokens = 1..Len(tokens)
    BY <1>4, <1>5
  <2>2. \A i, j \in 1..Len(tokens) :
          tokens[i].live /\ tokens[j].live /\ tokens[i].login = tokens[j].login => i = j
    BY <2>1 DEF IInv, OneLivePerLogin
  <2>3. ASSUME NEW i \in 1..Len(tokens'), NEW j \in 1..Len(tokens'),
               tokens'[i].live, tokens'[j].live, tokens'[i].login = tokens'[j].login
        PROVE  i = j
    BY <1>2, <1>3, <1>5, <2>2, <2>3
  <2> QED
    BY <2>1, <2>3 DEF OneLivePerLogin
<1>9. \A g \in calls \ {c} : g.at = "rotate" => tokens'[g.held].live
  BY <1>5, Holders
<1>10. \A g \in calls \ {c} : g.at = "create token" =>
          \A i \in 1..Len(tokens') : tokens'[i].login # g.held
  <2> TAKE g \in calls \ {c}
  <2> HAVE g.at = "create token"
  <2>1. (\A i \in 1..Len(tokens) : tokens[i].login # g.held) /\ g.held # k
    BY <1>1, Holders DEF Alone
  <2> QED
    BY <1>3, <1>5, <2>1
<1>11. CallsOK(calls \ {c}, sessions, tokens', codes)
  BY <1>5, <1>6, <1>9, <1>10, OthersKeepTokens
<1>12. Fields \subseteq DOMAIN c /\ c.tab \in Tabs
  BY Others
<1>13. CallsOK(calls', sessions, tokens', codes)
  BY <1>1, <1>7, <1>11, <1>12, AnswersOK
<1> QED
  BY <1>1, <1>5, <1>6, <1>8, <1>13, TokensMove

------------------------------------------------------------------------------
(* Steps that change email_verification_codes.                             *)
LEMMA CodesMove ==
  ASSUME IInv, CodesInv', Len(codes) <= Len(codes'),
         UNCHANGED <<browser, jar, sessions, tokens>>,
         CallsOK(calls', sessions, tokens, codes')
  PROVE  IInv'
BY DEF IInv, TokensInv, TokenRow, JarInv, OneLivePerLogin

LEMMA OthersKeepCodes ==
  ASSUME IInv, NEW c \in calls, CodesInv', Len(codes) <= Len(codes'),
         \A g \in calls \ {c} : g.at = "compare" => codes'[g.held].open
  PROVE  CallsOK(calls \ {c}, sessions, tokens, codes')
<1>1. Len(codes') \in Nat
  BY LenIsNat, Zenon DEF CodesInv
<1>2. Len(sessions) <= Len(sessions) /\ Len(tokens) <= Len(tokens)
  BY AtMostItself, Lens, Zenon
<1>3. CallsOK(calls \ {c}, sessions, tokens, codes)
  BY Others
<1>4. /\ \A g \in calls \ {c} : g.at = "rotate" => tokens[g.held].live
      /\ \A g \in calls \ {c} : g.at = "create token" =>
           \A i \in 1..Len(tokens) : tokens[i].login # g.held
  BY Holders
<1> QED
  BY <1>1, <1>2, <1>3, <1>4, Lens, TablesGrow

(* A row is as CodesInv has it.                                            *)
GoodRow(r) == r \in CodeRow /\ r.uses <= 1 /\ (r.open => r.uses = 0)

LEMMA CodesAre ==
  ASSUME IInv
  PROVE  /\ codes \in Seq(CodeRow) /\ codes \in [1..Len(codes) -> CodeRow]
         /\ DOMAIN codes = 1..Len(codes)
         /\ \A i \in 1..Len(codes) : GoodRow(codes[i])
<1>1. codes \in Seq(CodeRow)
  BY DEF IInv, CodesInv
<1>2. codes \in [1..Len(codes) -> CodeRow] /\ DOMAIN codes = 1..Len(codes)
  <2> HIDE DEF CodeRow
  <2> QED
    BY <1>1
<1>3. \A i \in 1..Len(codes) : codes[i] \in CodeRow
  BY <1>2, Zenon
<1>4. \A i \in 1..Len(codes) : codes[i].uses <= 1 /\ (codes[i].open => codes[i].uses = 0)
  BY DEF IInv, CodesInv
<1> QED
  BY <1>1, <1>2, <1>3, <1>4, Zenon DEF GoodRow

LEMMA GoodRows ==
  ASSUME codes' \in Seq(CodeRow), \A i \in 1..Len(codes') : GoodRow(codes'[i])
  PROVE  CodesInv'
<1>1. \A i \in 1..Len(codes') : codes'[i].uses <= 1 /\ (codes'[i].open => codes'[i].uses = 0)
  BY Zenon DEF GoodRow
<1> QED
  BY <1>1, Zenon DEF CodesInv, CodeRow

(* One row is replaced.                                                    *)
LEMMA OneRow ==
  ASSUME IInv, NEW k \in 1..Len(codes), NEW r, GoodRow(r), codes' = [codes EXCEPT ![k] = r]
  PROVE  /\ CodesInv' /\ Len(codes') = Len(codes) /\ Len(codes) <= Len(codes')
         /\ codes'[k] = r /\ \A i \in 1..Len(codes) : i # k => codes'[i] = codes[i]
<1>1. codes' \in [1..Len(codes) -> CodeRow]
  <2>1. codes \in [1..Len(codes) -> CodeRow] /\ r \in CodeRow
    BY CodesAre DEF GoodRow
  <2> QED
    BY <2>1
<1>2. codes' \in Seq(CodeRow) /\ Len(codes') = Len(codes)
  BY <1>1, SeqOfFunction, Lens, Zenon
<1>3. codes'[k] = r /\ \A i \in 1..Len(codes) : i # k => codes'[i] = codes[i]
  BY CodesAre
<1>4. \A i \in 1..Len(codes) : GoodRow(codes'[i])
  BY <1>3, CodesAre, Zenon
<1>5. CodesInv'
  BY <1>2, <1>4, GoodRows, Zenon
<1> QED
  BY <1>2, <1>3, <1>5, Lens

LEMMA MailCodeStep ==
  ASSUME IInv, NEW c \in calls, MailCode(c)
  PROVE  IInv'
<1> DEFINE k == c.held
           r == [codes[k] EXCEPT !.mailed = TRUE]
<1>1. /\ c.at = "mail" /\ UNCHANGED <<browser, jar, sessions, tokens>>
      /\ codes' = [codes EXCEPT ![k] = r] /\ Answers(c, TRUE, Kept, Kept)
  BY DEF MailCode, Accepts
<1>2. k \in 1..Len(codes)
  BY <1>1, Others DEF CallOK, Relies
<1>3. GoodRow(r) /\ (codes[k].open => r.open)
  <2>1. GoodRow(codes[k])
    BY <1>2, CodesAre
  <2>2. TRUE \in BOOLEAN
    OBVIOUS
  <2>3. r \in CodeRow
    BY <2>1, <2>2 DEF GoodRow, CodeRow
  <2>4. r.uses = codes[k].uses /\ r.open = codes[k].open
    BY <2>1 DEF GoodRow, CodeRow
  <2> QED
    BY <2>1, <2>3, <2>4, Zenon DEF GoodRow
<1> HIDE DEF r
<1>4. /\ CodesInv' /\ Len(codes') = Len(codes) /\ Len(codes) <= Len(codes')
      /\ codes'[k] = r /\ \A i \in 1..Len(codes) : i # k => codes'[i] = codes[i]
  BY <1>1, <1>2, <1>3, OneRow
<1>5. \A g \in calls \ {c} : g.at = "compare" => codes'[g.held].open
  <2>1. \A g \in calls : g.at = "compare" => g.held \in 1..Len(codes) /\ codes[g.held].open
    BY Holders
  <2> QED
    BY <1>3, <1>4, <2>1
<1>6. CallsOK(calls \ {c}, sessions, tokens, codes')
  BY <1>4, <1>5, OthersKeepCodes
<1>7. /\ Fields \subseteq DOMAIN c /\ c.tab \in Tabs
      /\ Kept \in -1..Len(sessions) /\ Kept \in -1..Len(tokens)
  BY Others, Lens, NoCookies
<1>8. CallsOK(calls', sessions, tokens, codes')
  BY <1>1, <1>6, <1>7, AnswersOK
<1> QED
  BY <1>1, <1>4, <1>8, CodesMove

LEMMA CreateVerificationCodeStep ==
  ASSUME IInv, NEW c \in calls, CreateVerificationCode(c)
  PROVE  IInv'
<1> DEFINE n == Len(codes) + 1
           r == [purpose |-> Purpose(c), open |-> TRUE, mailed |-> FALSE,
                 attempts |-> 0, uses |-> 0]
<1>1. /\ c.at = "insert code" /\ UNCHANGED <<browser, jar, sessions, tokens>>
      /\ codes' = Append(codes, r)
      /\ Becomes(c, [c EXCEPT !.at = "mail", !.held = n])
  BY DEF CreateVerificationCode
<1>2. GoodRow(r)
  <2>1. Purpose(c) \in {"login", "register"}
    BY DEF Purpose
  <2>2. 0 \in 0..MaxCodeAttempts /\ 0 \in Nat /\ 0 <= 1
    BY BoundsAssumption
  <2>3. TRUE \in BOOLEAN /\ FALSE \in BOOLEAN
    OBVIOUS
  <2>4. r \in CodeRow
    BY <2>1, <2>2, <2>3 DEF CodeRow
  <2> QED
    BY <2>2, <2>4 DEF GoodRow
<1> HIDE DEF r
<1>3. codes \in Seq(CodeRow) /\ r \in CodeRow /\ \A i \in 1..Len(codes) : GoodRow(codes[i])
  BY <1>2, CodesAre DEF GoodRow
<1>4. /\ codes' \in Seq(CodeRow) /\ Len(codes) <= Len(codes')
      /\ \A i \in 1..Len(codes) : codes'[i] = codes[i]
      /\ codes'[n] = r
      /\ \A i \in 1..Len(codes') : i \in 1..Len(codes) \/ i = n
      /\ n \in 1..Len(codes')
  <2>1. /\ Append(codes, r) \in Seq(CodeRow) /\ Len(Append(codes, r)) = n
        /\ Len(codes) <= Len(Append(codes, r))
        /\ \A i \in 1..Len(codes) : Append(codes, r)[i] = codes[i]
        /\ Append(codes, r)[n] = r
        /\ \A i \in 1..Len(Append(codes, r)) : i \in 1..Len(codes) \/ i = n
        /\ n \in 1..Len(Append(codes, r))
    BY <1>3, Longer
  <2> QED
    BY <1>1, <2>1
<1> HIDE DEF n
<1>5. CodesInv'
  <2>1. \A i \in 1..Len(codes') : GoodRow(codes'[i])
    BY <1>2, <1>3, <1>4, Zenon
  <2> QED
    BY <1>4, <2>1, GoodRows, Zenon
<1>6. \A g \in calls \ {c} : g.at = "compare" => codes'[g.held].open
  BY <1>4, Holders
<1>7. CallsOK(calls \ {c}, sessions, tokens, codes') /\ Carries(c, sessions, tokens)
  BY <1>4, <1>5, <1>6, OthersKeepCodes, Others
<1>8. Relies("mail", n, sessions, tokens, codes') /\ "mail" \notin Alone
  BY <1>4 DEF Relies, Alone
<1>9. CallsOK(calls', sessions, tokens, codes')
  BY <1>1, <1>7, <1>8, HoldsOK
<1> QED
  BY <1>1, <1>4, <1>5, <1>9, CodesMove

LEMMA CloseCodesStep ==
  ASSUME IInv, NEW c \in calls, CloseCodes(c)
  PROVE  IInv'
<1> DEFINE mine(i) == i <= c.held /\ codes[i].purpose = Purpose(c)
           row(i) == IF mine(i) THEN [codes[i] EXCEPT !.open = FALSE] ELSE codes[i]
<1>1. /\ c.at = "close codes" /\ UNCHANGED <<browser, jar, sessions, tokens>>
      /\ GoesOn(c, "insert code")
      /\ codes' = [i \in 1..Len(codes) |-> row(i)]
  BY CodesAre DEF CloseCodes
<1>2. ASSUME NEW i \in 1..Len(codes)
      PROVE  GoodRow(row(i)) /\ (~mine(i) => row(i) = codes[i])
  <2>1. GoodRow(codes[i])
    BY CodesAre
  <2>2. FALSE \in BOOLEAN
    OBVIOUS
  <2>3. [codes[i] EXCEPT !.open = FALSE] \in CodeRow
    BY <2>1, <2>2 DEF GoodRow, CodeRow
  <2>4. /\ [codes[i] EXCEPT !.open = FALSE].uses = codes[i].uses
        /\ ~[codes[i] EXCEPT !.open = FALSE].open
    BY <2>1 DEF GoodRow, CodeRow
  <2>5. GoodRow([codes[i] EXCEPT !.open = FALSE])
    BY <2>1, <2>3, <2>4, Zenon DEF GoodRow
  <2> QED
    BY <2>1, <2>5
<1> HIDE DEF row, mine
<1>3. codes' \in [1..Len(codes) -> CodeRow] /\ \A i \in 1..Len(codes) : codes'[i] = row(i)
  BY <1>1, <1>2 DEF GoodRow
<1>4. codes' \in Seq(CodeRow) /\ Len(codes') = Len(codes)
  BY <1>3, SeqOfFunction, Lens, Zenon
<1>5. CodesInv'
  BY <1>2, <1>3, <1>4, GoodRows, Zenon
<1>6. Len(codes) <= Len(codes')
  BY <1>4, Lens
<1>7. \A g \in calls \ {c} : g.at = "compare" => codes'[g.held].open
  <2> TAKE g \in calls \ {c}
  <2> HAVE g.at = "compare"
  <2>1. g.held \in 1..Len(codes) /\ codes[g.held].open
    BY Holders
  <2>2. Comparing(g.held)
    BY DEF Comparing
  <2>3. ~mine(g.held)
    BY <2>1, <2>2 DEF CloseCodes, OpenCodes, mine
  <2> QED
    BY <1>2, <1>3, <2>1, <2>3
<1>8. CallsOK(calls \ {c}, sessions, tokens, codes') /\ Carries(c, sessions, tokens)
  BY <1>5, <1>6, <1>7, OthersKeepCodes, Others
<1>9. "insert code" \notin Holding
  BY DEF Holding
<1>10. CallsOK(calls', sessions, tokens, codes')
  BY <1>1, <1>8, <1>9, GoesOnOK
<1> QED
  BY <1>1, <1>5, <1>6, <1>10, CodesMove

LEMMA ConsumeVerificationCodeStep ==
  ASSUME IInv, NEW c \in calls, ConsumeVerificationCode(c)
  PROVE  IInv'
<1> DEFINE k == c.held
           tried == [codes[k] EXCEPT !.attempts = @ + 1]
           used == [codes[k] EXCEPT !.open = FALSE, !.uses = @ + 1]
<1>1. c.at = "compare" /\ UNCHANGED <<browser, jar, sessions, tokens>>
  BY DEF ConsumeVerificationCode
<1>2. /\ k \in 1..Len(codes) /\ codes[k].open
      /\ \A g \in calls \ {c} : g.at = "compare" =>
            g.held \in 1..Len(codes) /\ codes[g.held].open /\ g.held # k
  BY <1>1, Holders DEF Alone
<1>3. GoodRow(codes[k]) /\ codes[k] \in CodeRow /\ codes[k].uses = 0
  BY <1>2, CodesAre DEF GoodRow
<1>4. /\ Fields \subseteq DOMAIN c /\ c.tab \in Tabs
      /\ Kept \in -1..Len(sessions) /\ Kept \in -1..Len(tokens)
      /\ Carries(c, sessions, tokens)
  BY Others, Lens, NoCookies
<1>5. ASSUME NEW r, GoodRow(r), codes' = [codes EXCEPT ![k] = r],
             Refuses(c) \/ \E a : a \notin Holding /\ GoesOn(c, a)
      PROVE  IInv'
  <2>1. /\ CodesInv' /\ Len(codes) <= Len(codes')
        /\ \A i \in 1..Len(codes) : i # k => codes'[i] = codes[i]
    BY <1>2, <1>5, OneRow
  <2>2. \A g \in calls \ {c} : g.at = "compare" => codes'[g.held].open
    BY <1>2, <2>1
  <2>3. CallsOK(calls \ {c}, sessions, tokens, codes')
    BY <2>1, <2>2, OthersKeepCodes
  <2>4. CASE Refuses(c)
    BY <1>1, <1>4, <2>1, <2>3, <2>4, AnswersOK, CodesMove DEF Refuses
  <2>5. CASE \E a : a \notin Holding /\ GoesOn(c, a)
    <3>1. CallsOK(calls', sessions, tokens, codes')
      BY <1>1, <1>4, <2>3, <2>5, GoesOnOK
    <3> QED
      BY <1>1, <2>1, <3>1, CodesMove
  <2> QED
    BY <1>5, <2>4, <2>5
<1>6. CASE Exhausted(k) /\ Refuses(c) /\ UNCHANGED codes
  BY <1>1, <1>6, RefusesOrGoesOn
<1>7. CASE ~Exhausted(k) /\ codes' = [codes EXCEPT ![k] = tried] /\ Refuses(c)
  <2>1. codes[k].attempts \in 0..MaxCodeAttempts /\ ~(codes[k].attempts >= MaxCodeAttempts)
    BY <1>3, <1>7 DEF Exhausted, CodeRow
  <2>2. codes[k].attempts + 1 \in 0..MaxCodeAttempts
    BY <2>1, BoundsAssumption
  <2>3. tried \in CodeRow
    BY <1>3, <2>2 DEF CodeRow
  <2>4. tried.uses = codes[k].uses /\ tried.open = codes[k].open
    BY <1>3 DEF CodeRow
  <2> HIDE DEF tried
  <2>5. GoodRow(tried)
    BY <1>3, <2>3, <2>4, Zenon DEF GoodRow
  <2> QED
    BY <1>5, <1>7, <2>5
<1>8. CASE /\ codes' = [codes EXCEPT ![k] = used]
           /\ GoesOn(c, IF c.op = "register" THEN "user" ELSE "user of code")
  <2>1. FALSE \in BOOLEAN /\ codes[k].uses + 1 \in Nat /\ codes[k].uses + 1 = 1
    BY <1>3
  <2>2. used \in CodeRow
    BY <1>3, <2>1 DEF CodeRow
  <2>3. used.uses = codes[k].uses + 1 /\ ~used.open
    BY <1>3 DEF CodeRow
  <2> HIDE DEF used
  <2>4. GoodRow(used)
    BY <2>1, <2>2, <2>3 DEF GoodRow
  <2>5. "user" \notin Holding /\ "user of code" \notin Holding
    BY DEF Holding
  <2> QED
    BY <1>5, <1>8, <2>4, <2>5
<1> QED
  BY <1>6, <1>7, <1>8 DEF ConsumeVerificationCode

------------------------------------------------------------------------------
LEMMA InitIInv ==
  ASSUME Init
  PROVE  IInv
<1>1. browser \in [Tabs -> Browsers] /\ codes = << >> /\ calls = {}
  BY DEF Init
<1>2. CodesInv
  <2>1. Len(codes) = 0 /\ codes \in Seq(CodeRow)
    BY <1>1
  <2> QED
    BY <2>1 DEF CodesInv
<1>3. CallsOK(calls, sessions, tokens, codes)
  BY <1>1 DEF CallsOK, Exclusive
<1>4. CASE /\ jar = [b \in Browsers |-> [access |-> None, refresh |-> None]]
           /\ sessions = << >> /\ tokens = << >>
  <2>1. sessions \in Seq(BOOLEAN) /\ tokens \in Seq(TokenRow) /\ DOMAIN tokens = {}
    BY <1>4
  <2>2. Len(sessions) = 0 /\ Len(tokens) = 0
    BY <1>4
  <2>3. JarInv
    BY <1>1, <1>4, <2>2 DEF JarInv, None
  <2> QED
    BY <1>2, <1>3, <2>1, <2>3 DEF IInv, TokensInv, OneLivePerLogin
<1>5. CASE \E t \in Tabs :
             /\ jar = [b \in Browsers |-> IF b = browser[t] THEN [access |-> 1, refresh |-> 1]
                                          ELSE [access |-> None, refresh |-> None]]
             /\ sessions = <<TRUE>> /\ tokens = <<[live |-> TRUE, login |-> 1]>>
  <2>1. TRUE \in BOOLEAN
    OBVIOUS
  <2>2. \A R : \A e \in R : <<e>> \in Seq(R) /\ Len(<<e>>) = 1 /\ DOMAIN <<e>> = {1}
    OBVIOUS
  <2>3. sessions \in Seq(BOOLEAN) /\ Len(sessions) = 1
    BY <1>5, <2>1, <2>2, Zenon
  <2> DEFINE e == [live |-> TRUE, login |-> 1]
  <2>4. e \in TokenRow /\ tokens = <<e>>
    BY <1>5, <2>1, <2>3 DEF TokenRow
  <2> HIDE DEF e
  <2>5. tokens \in Seq(TokenRow) /\ Len(tokens) = 1 /\ DOMAIN tokens = {1}
    BY <2>2, <2>4, Zenon
  <2>6. JarInv
    BY <1>1, <1>5, <2>3, <2>5 DEF JarInv, None
  <2> QED
    BY <1>2, <1>3, <2>3, <2>5, <2>6 DEF IInv, TokensInv, OneLivePerLogin
<1> QED
  BY <1>4, <1>5 DEF Init

LEMMA NextIInv ==
  ASSUME IInv, [Next]_vars
  PROVE  IInv'
<1>1. CASE \E t \in Tabs : TabStep(t)
  BY <1>1, TabSteps
<1>2. ASSUME NEW c \in calls, TokenStep(c)
      PROVE  IInv'
  BY <1>2, PlainSteps, RevokeSessionStep, LockTokenStep, RotateRefreshTokenStep,
     CreateSessionOfRefreshStep, RevokeRefreshTokenStep, RevokeOtherAccessStep,
     SeeOtherTokensStep, RevokeOtherTokensStep, Zenon DEF TokenStep
<1>3. ASSUME NEW c \in calls, CodeStep(c)
      PROVE  IInv'
  BY <1>3, LastCodeStep, CloseCodesStep, CreateVerificationCodeStep, MailCodeStep,
     LockCodeStep, ConsumeVerificationCodeStep, Zenon DEF CodeStep
<1>4. ASSUME NEW c \in calls, LoginStep(c)
      PROVE  IInv'
  BY <1>4, PlainSteps, CreateSessionStep, CreateRefreshTokenStep, CreateRefreshTokenFailsStep,
     Zenon DEF LoginStep
<1>5. ASSUME NEW c \in calls, AnswerStep(c)
      PROVE  IInv'
  BY <1>5, PlainSteps, HandlerStopsStep, AnswerArrivesStep, AnswerLostStep, Zenon DEF AnswerStep
<1>6. CASE \E b \in Browsers : SessionExpires(b)
  BY <1>6, SessionExpiresStep
<1>7. CASE UNCHANGED vars
  <2>1. UNCHANGED <<browser, jar, sessions, tokens, codes>> /\ calls' = calls
    BY <1>7 DEF vars, server
  <2>2. CallsOK(calls', sessions, tokens, codes)
    BY <2>1 DEF IInv
  <2> QED
    BY <2>1, <2>2, QuietStep
<1> QED
  BY <1>1, <1>2, <1>3, <1>4, <1>5, <1>6, <1>7 DEF Next

(* A login has one live token, however many tabs refresh at the same time  *)
(* and whatever answers are lost (RotateRefreshToken, CreateRefreshToken   *)
(* and the revocations of store/identity.go): a rotation holds the row it  *)
(* replaces, and the login a token is created for has none.                *)
THEOREM OneLive == Spec => []OneLivePerLogin
<1>1. Init => IInv
  BY InitIInv
<1>2. IInv /\ [Next]_vars => IInv'
  BY NextIInv
<1>3. IInv => OneLivePerLogin
  BY DEF IInv
<1> QED
  BY <1>1, <1>2, <1>3, PTL DEF Spec

(* A verification code lets one request in, however many try it at the     *)
(* same time (ConsumeVerificationCode of store/identity.go): the row that  *)
(* is compared is open and held by one handler.                            *)
THEOREM CodesOnce == Spec => []CodeUsedOnce
<1>1. Init => IInv
  BY InitIInv
<1>2. IInv /\ [Next]_vars => IInv'
  BY NextIInv
<1>3. IInv => CodeUsedOnce
  <2> SUFFICES ASSUME IInv PROVE CodeUsedOnce
    OBVIOUS
  <2> QED
    BY CodesAre, Zenon DEF CodeUsedOnce, GoodRow
<1> QED
  BY <1>1, <1>2, <1>3, PTL DEF Spec

------------------------------------------------------------------------------
(* The types of the tab, and the ids that tell requests apart: there are   *)
(* no more than there were bounded events, so a free one is left for every *)
(* new request.                                                            *)
Form == [pending : BOOLEAN, sending : BOOLEAN, cooldown : BOOLEAN]
Ids(S) == {c.id : c \in S}
Marked(c) == {"id", "ok"} \subseteq DOMAIN c /\ c.ok \in BOOLEAN
Distinct(S) == \A c, d \in S : c.id = d.id => c = d

Marks(S, n) ==
  /\ \A c \in S : Marked(c)
  /\ Distinct(S)
  /\ IsFiniteSet(Ids(S)) /\ Cardinality(Ids(S)) <= n

Forms(p, f) == p \in [Tabs -> Pages] /\ f \in [Tabs -> Form]

TypeInv ==
  /\ account \in BOOLEAN
  /\ Forms(page, form)
  /\ events \in 0..MaxEvents
  /\ Marks(calls, events)

(* A set of numbers has a smallest.                                        *)
LEMMA LowestExists ==
  ASSUME NEW T \in SUBSET Nat, T # {}
  PROVE  \E i \in T : \A j \in T : ~(j < i)
<1>1. PICK i \in T : \A j \in T : <<j, i>> \notin OpToRel(<, Nat)
  BY NatLessThanWellFounded, WFMin
<1>2. ASSUME NEW j \in T
      PROVE  ~(j < i)
  BY <1>1, <1>2 DEF OpToRel
<1> QED
  BY <1>2

LEMMA FreeIsFree ==
  ASSUME NEW I, NEW n \in Nat, IsFiniteSet(I), Cardinality(I) <= n, n < MaxEvents
  PROVE  FirstFree(I) \notin I
<1> DEFINE T == {i \in 1..MaxEvents : i \notin I}
<1>1. MaxEvents \in Nat
  BY BoundsAssumption
<1>2. T # {}
  <2> SUFFICES ASSUME T = {} PROVE FALSE
    OBVIOUS
  <2>1. 1..MaxEvents \in SUBSET I
    OBVIOUS
  <2>2. Cardinality(1..MaxEvents) <= Cardinality(I)
    BY <2>1, FS_Subset
  <2>3. Cardinality(1..MaxEvents) = MaxEvents
    BY <1>1, FS_Interval
  <2>4. Cardinality(I) \in Nat
    BY FS_CardinalityType
  <2> QED
    BY <1>1, <2>2, <2>3, <2>4
<1>3. T \in SUBSET Nat
  BY <1>1
<1>4. PICK i \in T : \A j \in T : ~(j < i)
  <2> HIDE DEF T
  <2> QED
    BY <1>2, <1>3, LowestExists
<1>5. 1..(i - 1) \subseteq I
  BY <1>1, <1>4
<1>6. i \in 1..MaxEvents /\ i \notin I
  OBVIOUS
<1> QED
  BY <1>5, <1>6, Zenon DEF FirstFree

(* Requests that are still those there were.                               *)
LEMMA MarksCarry ==
  ASSUME NEW S, NEW n \in Nat, NEW m \in Nat, n <= m, Marks(S, n),
         NEW T, Distinct(T),
         \A d \in T : Marked(d) /\ \E c \in S : d.id = c.id
  PROVE  Marks(T, m)
<1>1. Ids(T) \in SUBSET Ids(S)
  BY DEF Ids
<1>2. /\ IsFiniteSet(Ids(T)) /\ Cardinality(Ids(T)) <= Cardinality(Ids(S))
      /\ Cardinality(Ids(S)) \in Nat /\ Cardinality(Ids(T)) \in Nat
  BY <1>1, FS_Subset, FS_CardinalityType DEF Marks
<1>3. Cardinality(Ids(T)) <= m
  BY <1>2 DEF Marks
<1> QED
  BY <1>2, <1>3 DEF Marks

LEMMA MarksFewer ==
  ASSUME NEW S, NEW n \in Nat, NEW m \in Nat, n <= m, Marks(S, n), NEW T \in SUBSET S
  PROVE  Marks(T, m)
<1>1. Distinct(T) /\ \A d \in T : Marked(d) /\ \E c \in S : d.id = c.id
  BY DEF Marks, Distinct
<1> QED
  BY <1>1, MarksCarry

LEMMA MarksReplaced ==
  ASSUME NEW S, NEW n \in Nat, NEW m \in Nat, n <= m, Marks(S, n),
         NEW c \in S, NEW d, Marked(d), d.id = c.id
  PROVE  Marks((S \ {c}) \cup {d}, m)
<1> DEFINE T == (S \ {c}) \cup {d}
<1>1. Distinct(T)
  BY DEF Marks, Distinct
<1>2. \A e \in T : Marked(e) /\ \E g \in S : e.id = g.id
  BY DEF Marks
<1> HIDE DEF T
<1>3. Marks(T, m)
  BY <1>1, <1>2, MarksCarry
<1> QED
  BY <1>3 DEF T

LEMMA MarksLeft ==
  ASSUME NEW S, NEW n \in Nat, Marks(S, n), NEW t
  PROVE  Marks(Left(t, S), n) /\ Ids(Left(t, S)) \subseteq Ids(S)
<1> DEFINE Image(c) == IF c.tab = t /\ c.from # "console" THEN [c EXCEPT !.from = "gone"] ELSE c
<1>1. ASSUME NEW c \in S
      PROVE  Marked(Image(c)) /\ Image(c).id = c.id
  BY DEF Marks, Marked
<1>2. \A g \in Left(t, S) : \E c \in S : g = Image(c)
  BY DEF Left
<1> HIDE DEF Image
<1>3. \A g \in Left(t, S) : Marked(g) /\ \E c \in S : g.id = c.id
  BY <1>1, <1>2
<1>4. Distinct(Left(t, S))
  BY <1>1, <1>2 DEF Marks, Distinct
<1>5. n <= n
  BY AtMostItself
<1> QED
  BY <1>3, <1>4, <1>5, MarksCarry DEF Ids

LEMMA MarksJoin ==
  ASSUME NEW S, NEW n \in Nat, Marks(S, n),
         NEW d, Marked(d), d.id \notin Ids(S)
  PROVE  Marks(S \cup {d}, n + 1)
<1> DEFINE T == S \cup {d}
<1>1. (\A c \in T : Marked(c)) /\ Distinct(T)
  BY DEF Marks, Distinct, Ids
<1>2. Ids(T) = Ids(S) \cup {d.id}
  BY DEF Ids
<1>3. IsFiniteSet(Ids(S)) /\ Cardinality(Ids(S)) \in Nat /\ Cardinality(Ids(S)) <= n
  BY FS_CardinalityType DEF Marks
<1> HIDE DEF T
<1>4. IsFiniteSet(Ids(T)) /\ Cardinality(Ids(T)) = Cardinality(Ids(S)) + 1
  BY <1>2, <1>3, FS_AddElement
<1>5. Cardinality(Ids(T)) <= n + 1
  BY <1>3, <1>4
<1>6. Marks(T, n + 1)
  BY <1>1, <1>4, <1>5 DEF Marks
<1> QED
  BY <1>6 DEF T

(* A new request has an id of its own.                                     *)
LEMMA NewRequest ==
  ASSUME NEW cs, NEW S, NEW n \in Nat, n < MaxEvents, Marks(cs, n), Marks(S, n),
         Ids(S) \subseteq Ids(cs),
         NEW t, NEW op, NEW from, NEW typed, NEW cookies
  PROVE  Marks(S \cup {Request(t, op, from, typed, cookies, cs)}, n + 1)
<1> DEFINE id == FirstFree(Ids(cs))
           e == [id |-> id, tab |-> t, op |-> op, from |-> from, step |-> "first",
                 at |-> FirstStatement(op), typed |-> typed, held |-> None, heard |-> TRUE,
                 ok |-> FALSE, access |-> None, refresh |-> None]
           d == [e EXCEPT !.access = cookies.access, !.refresh = cookies.refresh]
<1>1. id \notin Ids(S)
  BY FreeIsFree DEF Marks
<1> HIDE DEF id
<1>2. d.id = id /\ d.ok = FALSE /\ {"id", "ok"} \subseteq DOMAIN d
  OBVIOUS
<1>3. d = Request(t, op, from, typed, cookies, cs)
  BY DEF Request, WithCookies, id, Ids
<1> HIDE DEF d
<1>4. Marked(d)
  <2>1. FALSE \in BOOLEAN
    OBVIOUS
  <2> QED
    BY <1>2, <2>1, Zenon DEF Marked
<1>5. Marks(S \cup {d}, n + 1)
  BY <1>1, <1>2, <1>4, MarksJoin
<1> QED
  BY <1>3, <1>5

(* The request goes on, or is over.                                        *)
Continues(c) ==
  \/ calls' = calls \ {c}
  \/ \E d : Marked(d) /\ d.id = c.id /\ calls' = (calls \ {c}) \cup {d}

LEMMA BecomesContinues ==
  ASSUME TypeInv, NEW c \in calls,
         \/ \E a : GoesOn(c, a)
         \/ \E a, h : Becomes(c, [c EXCEPT !.at = a, !.held = h])
  PROVE  Continues(c)
<1>1. Marked(c)
  BY DEF TypeInv, Marks
<1>2. CASE \E a : GoesOn(c, a)
  <2>1. PICK a : calls' = (calls \ {c}) \cup {[c EXCEPT !.at = a]}
    BY <1>2 DEF GoesOn, Becomes
  <2> DEFINE d == [c EXCEPT !.at = a]
  <2>2. DOMAIN d = DOMAIN c /\ d.id = c.id /\ d.ok = c.ok
    BY <1>1 DEF Marked
  <2> HIDE DEF d
  <2>3. Marked(d)
    BY <1>1, <2>2 DEF Marked
  <2> QED
    BY <2>1, <2>2, <2>3 DEF Continues, d
<1>3. CASE \E a, h : Becomes(c, [c EXCEPT !.at = a, !.held = h])
  <2>1. PICK a, h : calls' = (calls \ {c}) \cup {[c EXCEPT !.at = a, !.held = h]}
    BY <1>3 DEF Becomes
  <2> DEFINE d == [c EXCEPT !.at = a, !.held = h]
  <2>2. DOMAIN d = DOMAIN c /\ d.id = c.id /\ d.ok = c.ok
    BY <1>1 DEF Marked
  <2> HIDE DEF d
  <2>3. Marked(d)
    BY <1>1, <2>2 DEF Marked
  <2> QED
    BY <2>1, <2>2, <2>3 DEF Continues, d
<1> QED
  BY <1>2, <1>3

LEMMA AnswersContinues ==
  ASSUME TypeInv, NEW c \in calls, NEW ok \in BOOLEAN, NEW a, NEW r, Answers(c, ok, a, r)
  PROVE  Continues(c)
<1> DEFINE d == [c EXCEPT !.at = "answered", !.ok = ok, !.access = a, !.refresh = r,
                          !.held = None, !.typed = None]
<1>1. Marked(c)
  BY DEF TypeInv, Marks
<1>2. DOMAIN d = DOMAIN c /\ d.id = c.id /\ d.ok = ok
  BY <1>1 DEF Marked
<1>3. calls' = (calls \ {c}) \cup (IF c.heard THEN {d} ELSE {})
  BY DEF Answers
<1> HIDE DEF d
<1>4. Marked(d)
  BY <1>1, <1>2 DEF Marked
<1>5. calls' = (calls \ {c}) \cup {d} \/ calls' = calls \ {c}
  BY <1>3
<1> QED
  BY <1>2, <1>4, <1>5 DEF Continues

LEMMA PlainContinues ==
  ASSUME TypeInv, NEW c \in calls,
         \/ Accepts(c)
         \/ Refuses(c)
         \/ Answers(c, TRUE, None, None)
         \/ Answers(c, FALSE, None, None)
         \/ Answers(c, FALSE, None, Kept)
         \/ \E a, r : Answers(c, TRUE, a, r)
  PROVE  Continues(c)
<1>1. TRUE \in BOOLEAN /\ FALSE \in BOOLEAN
  OBVIOUS
<1> QED
  BY <1>1, AnswersContinues, Zenon DEF Accepts, Refuses

LEMMA ContinuesOK ==
  ASSUME TypeInv, NEW c \in calls, Continues(c), account' \in BOOLEAN, Forms(page', form'),
         events' = events \/ Counted
  PROVE  TypeInv'
<1>1. events \in Nat /\ events' \in Nat /\ events <= events' /\ events' \in 0..MaxEvents
  BY BoundsAssumption DEF TypeInv, Counted
<1>2. Marks(calls, events)
  BY DEF TypeInv
<1>3. CASE calls' = calls \ {c}
  <2>1. Marks(calls \ {c}, events')
    BY <1>1, <1>2, MarksFewer
  <2> QED
    BY <1>1, <1>3, <2>1 DEF TypeInv
<1>4. CASE \E d : Marked(d) /\ d.id = c.id /\ calls' = (calls \ {c}) \cup {d}
  <2>1. PICK d : Marked(d) /\ d.id = c.id /\ calls' = (calls \ {c}) \cup {d}
    BY <1>4
  <2>2. Marks((calls \ {c}) \cup {d}, events')
    BY <1>1, <1>2, <2>1, MarksReplaced
  <2> QED
    BY <1>1, <2>1, <2>2 DEF TypeInv
<1> QED
  BY <1>3, <1>4 DEF Continues

LEMMA TypedTab ==
  ASSUME TypeInv, NEW t \in Tabs
  PROVE  /\ page \in [Tabs -> Pages] /\ form \in [Tabs -> Form]
         /\ page[t] \in Pages /\ form[t] \in Form
BY DEF TypeInv, Forms

LEMMA SendTypes ==
  ASSUME TypeInv, NEW t, NEW op, NEW typed, Send(t, op, typed),
         account' = account, Forms(page', form')
  PROVE  TypeInv'
<1>1. /\ events \in Nat /\ events < MaxEvents /\ events' = events + 1
      /\ events' \in 0..MaxEvents /\ Marks(calls, events)
  BY BoundsAssumption DEF TypeInv, Send, Counted
<1>2. Marks(calls', events + 1)
  BY <1>1, NewRequest DEF Send
<1> QED
  BY <1>1, <1>2 DEF TypeInv

LEMMA GoToTypes ==
  ASSUME TypeInv, NEW t \in Tabs, NEW p \in Pages, NEW cookies, NEW cs \in SUBSET calls,
         GoTo(t, p, cookies, cs), account' = account
  PROVE  TypeInv'
<1> DEFINE d == Request(t, "ask", p, None, cookies, cs)
<1>1. events \in Nat /\ events <= events /\ MaxEvents \in Nat /\ events <= MaxEvents
  BY BoundsAssumption DEF TypeInv
<1>2. Marks(cs, events)
  BY <1>1, MarksFewer DEF TypeInv
<1>3. Marks(Left(t, cs), events) /\ Ids(Left(t, cs)) \subseteq Ids(cs)
  BY <1>1, <1>2, MarksLeft
<1>4. Forms(page', form')
  <2>1. page' \in [Tabs -> Pages]
    BY TypedTab DEF GoTo
  <2>2. FreshForm(t) \in Form
    <3>1. FALSE \in BOOLEAN
      OBVIOUS
    <3> QED
      BY <3>1, TypedTab DEF FreshForm, Form
  <2>3. form' \in [Tabs -> Form]
    BY <2>2, TypedTab DEF GoTo
  <2> QED
    BY <2>1, <2>3 DEF Forms
<1>5. CASE Counted /\ calls' = Left(t, cs) \cup {d}
  <2>1. events < MaxEvents /\ events' = events + 1 /\ events' \in 0..MaxEvents
    BY <1>1, <1>5 DEF Counted
  <2>2. Marks(Left(t, cs) \cup {d}, events + 1)
    BY <1>1, <1>2, <1>3, <2>1, NewRequest
  <2> HIDE DEF d
  <2> QED
    BY <1>4, <1>5, <2>1, <2>2 DEF TypeInv
<1>6. CASE calls' = Left(t, cs) /\ UNCHANGED events
  BY <1>3, <1>4, <1>6 DEF TypeInv
<1> QED
  BY <1>5, <1>6 DEF GoTo

------------------------------------------------------------------------------
(* Every step keeps the types.                                             *)
LEMMA TabTypes ==
  ASSUME TypeInv, IInv, NEW t \in Tabs, TabStep(t)
  PROVE  TypeInv'
<1>1. /\ page \in [Tabs -> Pages] /\ form \in [Tabs -> Form]
      /\ page[t] \in Pages /\ form[t] \in Form /\ TRUE \in BOOLEAN /\ FALSE \in BOOLEAN
  BY TypedTab
<1>2. CASE \E p \in Pages : Visit(t, p)
  <2>1. PICK p \in Pages :
          GoTo(t, IF p = "console" /\ jar[browser[t]].access = None THEN "login" ELSE p,
               jar[browser[t]], calls)
    BY <1>2 DEF Visit
  <2>2. account' = account
    BY <1>2 DEF Visit, server
  <2>3. (IF p = "console" /\ jar[browser[t]].access = None THEN "login" ELSE p) \in Pages
    BY DEF Pages
  <2> QED
    BY <2>1, <2>2, <2>3, GoToTypes
<1>3. CASE CallAPI(t) \/ LogOut(t) \/ RevokeOtherSessions(t)
  <2>1. (\E op, typed : Send(t, op, typed)) /\ account' = account /\ page' = page /\ form' = form
    BY <1>3 DEF CallAPI, LogOut, RevokeOtherSessions, client, server
  <2> QED
    BY <1>1, <2>1, SendTypes DEF Forms
<1>4. CASE LogIn(t) \/ Register(t)
  <2>1. PICK op, typed : Submit(t, op, typed)
    BY <1>4 DEF LogIn, Register
  <2>2. [form[t] EXCEPT !.pending = TRUE] \in Form
    BY <1>1 DEF Form
  <2>3. form' \in [Tabs -> Form]
    BY <1>1, <2>1, <2>2 DEF Submit
  <2> QED
    BY <1>1, <2>1, <2>3, SendTypes DEF Forms, Submit, server
<1>5. CASE SendCode(t)
  <2>1. (\E op, typed : Send(t, op, typed)) /\ account' = account /\ page' = page
    BY <1>5 DEF SendCode, server
  <2>2. [form[t] EXCEPT !.sending = TRUE] \in Form
    BY <1>1 DEF Form
  <2>3. form' \in [Tabs -> Form]
    BY <1>1, <1>5, <2>2 DEF SendCode
  <2> QED
    BY <1>1, <2>1, <2>3, SendTypes DEF Forms
<1>6. CASE CooldownEnds(t)
  <2>1. calls' = calls /\ events' = events /\ account' = account /\ page' = page
    BY <1>6 DEF CooldownEnds, server
  <2>2. [form[t] EXCEPT !.cooldown = FALSE] \in Form
    BY <1>1 DEF Form
  <2>3. form' \in [Tabs -> Form]
    BY <1>1, <1>6, <2>2 DEF CooldownEnds
  <2> QED
    BY <1>1, <2>1, <2>3 DEF TypeInv, Forms
<1> QED
  BY <1>2, <1>3, <1>4, <1>5, <1>6 DEF TabStep

(* A statement of a handler changes nothing in a tab.                      *)
LEMMA HandlerTypes ==
  ASSUME TypeInv, NEW c \in calls, TokenStep(c) \/ CodeStep(c) \/ LoginStep(c)
  PROVE  TypeInv'
<1>1. CASE TokenStep(c)
  <2>1. Continues(c)
    <3>1. CASE SessionUser(c)
      BY <3>1, PlainContinues, BecomesContinues DEF SessionUser
    <3>2. CASE \/ RevokeSession(c) \/ SeeOtherTokens(c)
               \/ RevokeOtherAccess(c) \/ RotateRefreshToken(c)
      BY <3>2, BecomesContinues
         DEF RevokeSession, SeeOtherTokens, RevokeOtherAccess, RotateRefreshToken
    <3>3. CASE LockToken(c)
      BY <3>3, PlainContinues, BecomesContinues DEF LockToken
    <3>4. CASE CreateSessionOfRefresh(c) \/ RevokeRefreshToken(c) \/ RevokeOtherTokens(c)
      BY <3>4, PlainContinues DEF CreateSessionOfRefresh, RevokeRefreshToken, RevokeOtherTokens
    <3> QED
      BY <1>1, <3>1, <3>2, <3>3, <3>4 DEF TokenStep
  <2>2. UNCHANGED <<client, account, events>>
    BY <1>1 DEF TokenStep, SessionUser, RevokeSession, LockToken, RotateRefreshToken,
                CreateSessionOfRefresh, RevokeRefreshToken, RevokeOtherAccess, SeeOtherTokens,
                RevokeOtherTokens, server
  <2> QED
    BY <2>1, <2>2, ContinuesOK DEF TypeInv, client
<1>2. CASE CodeStep(c)
  <2>1. Continues(c)
    <3>1. CASE LastCode(c)
      BY <3>1, PlainContinues, BecomesContinues DEF LastCode
    <3>2. CASE CloseCodes(c) \/ CreateVerificationCode(c)
      BY <3>2, BecomesContinues DEF CloseCodes, CreateVerificationCode
    <3>3. CASE MailCode(c)
      BY <3>3, PlainContinues DEF MailCode
    <3>4. CASE LockCode(c)
      BY <3>4, PlainContinues, BecomesContinues DEF LockCode
    <3>5. CASE ConsumeVerificationCode(c)
      BY <3>5, PlainContinues, BecomesContinues DEF ConsumeVerificationCode
    <3> QED
      BY <1>2, <3>1, <3>2, <3>3, <3>4, <3>5 DEF CodeStep
  <2>2. UNCHANGED <<client, account, events>>
    BY <1>2 DEF CodeStep, LastCode, CloseCodes, CreateVerificationCode, MailCode, LockCode,
                ConsumeVerificationCode, server
  <2> QED
    BY <2>1, <2>2, ContinuesOK DEF TypeInv, client
<1>3. CASE LoginStep(c)
  <2>1. Continues(c)
    <3>1. CASE AuthenticatePassword(c) \/ AuthenticateCode(c) \/ CreateUser(c)
      BY <3>1, PlainContinues, BecomesContinues
         DEF AuthenticatePassword, AuthenticateCode, CreateUser
    <3>2. CASE CreateSession(c)
      BY <3>2, BecomesContinues DEF CreateSession
    <3>3. CASE CreateRefreshToken(c) \/ CreateRefreshTokenFails(c)
      BY <3>3, PlainContinues DEF CreateRefreshToken, CreateRefreshTokenFails
    <3> QED
      BY <1>3, <3>1, <3>2, <3>3 DEF LoginStep
  <2>2. UNCHANGED <<client, events>> /\ (account' = account \/ account' = TRUE)
    BY <1>3 DEF LoginStep, AuthenticatePassword, AuthenticateCode, CreateUser, CreateSession,
                CreateRefreshToken, CreateRefreshTokenFails, server
  <2>3. account' \in BOOLEAN /\ Forms(page', form')
    BY <2>2 DEF TypeInv, client
  <2> QED
    BY <2>1, <2>2, <2>3, ContinuesOK
<1> QED
  BY <1>1, <1>2, <1>3

LEMMA ReleasedTyped ==
  ASSUME TypeInv, NEW t \in Tabs, NEW c, c.ok \in BOOLEAN
  PROVE  [form EXCEPT ![t] = Released(t, c)] \in [Tabs -> Form]
<1>1. form \in [Tabs -> Form] /\ form[t] \in Form
  BY TypedTab
<1>2. FALSE \in BOOLEAN /\ (form[t].cooldown \/ c.ok) \in BOOLEAN
  OBVIOUS
<1>3. [form[t] EXCEPT !.pending = FALSE] \in Form
  BY <1>1, <1>2 DEF Form
<1> DEFINE cool == form[t].cooldown \/ c.ok
<1>4. [form[t] EXCEPT !.sending = FALSE, !.cooldown = @ \/ c.ok] =
      [form[t] EXCEPT !.sending = FALSE, !.cooldown = cool]
  OBVIOUS
<1>5. cool \in BOOLEAN
  BY <1>2
<1> HIDE DEF cool
<1>6. [form[t] EXCEPT !.sending = FALSE, !.cooldown = cool] \in Form
  BY <1>1, <1>2, <1>5 DEF Form
<1>7. Released(t, c) \in Form
  BY <1>1, <1>3, <1>4, <1>6, Zenon DEF Released
<1> QED
  BY <1>1, <1>7

LEMMA AnswerTypes ==
  ASSUME TypeInv, IInv, NEW c \in calls, AnswerStep(c)
  PROVE  TypeInv'
<1>1. Marked(c) /\ c.tab \in Tabs /\ account \in BOOLEAN /\ Forms(page, form)
  BY Others DEF TypeInv, Marks
<1>2. CASE StatementFails(c)
  <2>1. Continues(c)
    BY <1>2, PlainContinues, BecomesContinues DEF StatementFails
  <2>2. Counted /\ UNCHANGED <<account, page, form>>
    BY <1>2 DEF StatementFails, client, server
  <2> QED
    BY <1>1, <2>1, <2>2, ContinuesOK
<1>3. CASE HandlerStops(c)
  <2>1. Continues(c) /\ UNCHANGED <<account, page, form, events>>
    BY <1>3 DEF HandlerStops, Continues, client, server
  <2> QED
    BY <1>1, <2>1, ContinuesOK
<1>4. CASE AnswerLost(c)
  <2> DEFINE d == [c EXCEPT !.heard = FALSE]
             e == [c EXCEPT !.ok = FALSE]
  <2>1. DOMAIN d = DOMAIN c /\ d.id = c.id /\ d.ok = c.ok /\ e.ok = FALSE
    BY <1>1 DEF Marked
  <2>2. /\ calls' = (calls \ {c}) \cup {d} \/ calls' = calls \ {c}
        /\ form' = [form EXCEPT ![c.tab] = Released(c.tab, e)]
        /\ Counted /\ account' = account /\ page' = page
    BY <1>4 DEF AnswerLost, server
  <2> HIDE DEF d, e
  <2>3. Marked(d) /\ e.ok \in BOOLEAN
    BY <1>1, <2>1 DEF Marked
  <2>4. Continues(c)
    BY <2>1, <2>2, <2>3 DEF Continues
  <2>5. Forms(page', form')
    BY <1>1, <2>2, <2>3, ReleasedTyped DEF Forms
  <2> QED
    BY <1>1, <2>2, <2>4, <2>5, ContinuesOK
<1>5. CASE AnswerArrives(c)
  <2>1. /\ account' = account /\ calls \ {c} \in SUBSET calls
        /\ "login" \in Pages /\ "console" \in Pages
    BY <1>5 DEF AnswerArrives, server, Pages
  <2>2. ASSUME NEW p \in Pages, GoTo(c.tab, p, Stored(c), calls \ {c})
        PROVE  TypeInv'
    BY <1>1, <2>1, <2>2, GoToTypes
  <2>3. ASSUME calls' = calls \ {c}, events' = events, Forms(page', form')
        PROVE  TypeInv'
    BY <1>1, <2>1, <2>3, ContinuesOK DEF Continues
  <2>4. CASE CheckGoesOn(c)
    <3> DEFINE at == IF NextStep(c) = "refresh" THEN "lock token" ELSE FirstStatement(c.op)
               d == [[c EXCEPT !.step = NextStep(c), !.ok = FALSE, !.at = at]
                       EXCEPT !.access = Stored(c).access, !.refresh = Stored(c).refresh]
    <3>1. calls' = (calls \ {c}) \cup {d} /\ UNCHANGED <<client, events>>
      BY <2>4 DEF CheckGoesOn, Becomes, WithCookies
    <3> HIDE DEF at
    <3>2. DOMAIN d = DOMAIN c /\ d.id = c.id /\ d.ok = FALSE
      BY <1>1 DEF Marked
    <3> HIDE DEF d
    <3>3. Marked(d)
      BY <1>1, <3>2 DEF Marked
    <3>4. Continues(c)
      BY <3>1, <3>2, <3>3 DEF Continues
    <3> QED
      BY <1>1, <2>1, <3>1, <3>4, ContinuesOK DEF client
  <2>5. CASE CheckEnds(c)
    <3>1. \/ \E p \in Pages : GoTo(c.tab, p, Stored(c), calls \ {c})
          \/ calls' = calls \ {c} /\ UNCHANGED <<page, form, events>>
      BY <2>1, <2>5 DEF CheckEnds, client
    <3> QED
      BY <1>1, <2>2, <2>3, <3>1
  <2>6. CASE RequestEnds(c)
    <3>1. \/ \E p \in Pages : GoTo(c.tab, p, Stored(c), calls \ {c})
          \/ /\ form' = [form EXCEPT ![c.tab] = Released(c.tab, c)]
             /\ calls' = calls \ {c}
             /\ UNCHANGED <<page, events>>
      BY <2>1, <2>6 DEF RequestEnds
    <3>2. [form EXCEPT ![c.tab] = Released(c.tab, c)] \in [Tabs -> Form]
      BY <1>1, ReleasedTyped DEF Marked
    <3> QED
      BY <1>1, <2>2, <2>3, <3>1, <3>2 DEF Forms
  <2> QED
    BY <1>5, <2>4, <2>5, <2>6 DEF AnswerArrives
<1> QED
  BY <1>2, <1>3, <1>4, <1>5 DEF AnswerStep

LEMMA InitTypes ==
  ASSUME Init
  PROVE  TypeInv
<1>1. /\ account \in BOOLEAN /\ calls = {} /\ events = 0
      /\ page = [t \in Tabs |-> IF jar[browser[t]].access = None THEN "login" ELSE "console"]
      /\ form = [t \in Tabs |-> [pending |-> FALSE, sending |-> FALSE, cooldown |-> FALSE]]
  BY DEF Init
<1>2. Forms(page, form)
  <2>1. FALSE \in BOOLEAN
    OBVIOUS
  <2>2. [pending |-> FALSE, sending |-> FALSE, cooldown |-> FALSE] \in Form
    BY <2>1 DEF Form
  <2> QED
    BY <1>1, <2>2 DEF Forms, Pages
<1>3. Marks({}, 0)
  <2>1. Ids({}) = {}
    BY DEF Ids
  <2>2. IsFiniteSet(Ids({})) /\ Cardinality(Ids({})) = 0
    BY <2>1, FS_EmptySet
  <2> QED
    BY <2>2 DEF Marks, Distinct
<1> QED
  BY <1>1, <1>2, <1>3, BoundsAssumption DEF TypeInv

LEMMA NextTypes ==
  ASSUME TypeInv, IInv, [Next]_vars
  PROVE  TypeInv'
<1>1. CASE \E t \in Tabs : TabStep(t)
  BY <1>1, TabTypes
<1>2. CASE \E c \in calls : TokenStep(c) \/ CodeStep(c) \/ LoginStep(c) \/ AnswerStep(c)
  BY <1>2, HandlerTypes, AnswerTypes
<1>3. CASE (\E b \in Browsers : SessionExpires(b)) \/ UNCHANGED vars
  <2>1. UNCHANGED <<account, page, form, events, calls>>
    BY <1>3 DEF SessionExpires, vars, client, server
  <2> QED
    BY <2>1 DEF TypeInv
<1> QED
  BY <1>1, <1>2, <1>3 DEF Next

(* Every variable has its type: the cookies of a browser name rows there   *)
(* are, a code counts no more attempts than are allowed (maxCodeAttempts of*)
(* ConsumeVerificationCode of store/identity.go), however many requests try*)
(* it at the same time, since one handler holds the row that is compared   *)
(* and counted, and no two requests under way are taken for one.           *)
THEOREM TypeInvariance == Spec => []TypeOK
<1>1. Init => IInv /\ TypeInv
  BY InitIInv, InitTypes
<1>2. IInv /\ TypeInv /\ [Next]_vars => (IInv /\ TypeInv)'
  BY NextIInv, NextTypes
<1>3. IInv /\ TypeInv => TypeOK
  BY DEF IInv, TypeInv, TypeOK, JarInv, TokensInv, TokenRow, CodesInv, CodeRow, Forms, Form,
         Marks, Distinct
<1> QED
  BY <1>1, <1>2, <1>3, PTL DEF Spec
==============================================================================
