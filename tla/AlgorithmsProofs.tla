-------------------------- MODULE AlgorithmsProofs --------------------------
(***************************************************************************)
(* All six properties of the stateless parts, for arguments of any size.   *)
(*                                                                         *)
(* Windows.  For every length of a text and all arguments that             *)
(* split_token_windows accepts: every character is read in full from one   *)
(* of the windows, no window is empty or longer than the limit, none       *)
(* repeats another.  The window a character is read from is the last one   *)
(* that begins at or before it, or the last window there is.  The next     *)
(* window begins one step later, so a character of up to four tokens that  *)
(* begins within the step ends within the overlap: this is where the       *)
(* overlap of three is needed.                                             *)
(*                                                                         *)
(* Access.  By cases on what is configured and what a request carries.     *)
(*                                                                         *)
(* Sections.  The parser and the naming are recursive functions of how far *)
(* they have read; what they hold by then is proved by induction on it:    *)
(* the lines read so far, in order; the slugs given so far, each new one   *)
(* outside those in use, which a count of them shows to exist.             *)
(*                                                                         *)
(* Searches.  The worth of a rank falls with it, sums and cuts of what     *)
(* falls fall, and a sorted set has every element in its place.            *)
(*                                                                         *)
(* Contexts.  After n entries: what is taken, what it costs, and why each  *)
(* hit left out was left out.  The cost is a sum over a set; that it does  *)
(* not depend on the order is proved first.                                *)
(*                                                                         *)
(* Inductions are by a least counterexample (LeastOf, UpTo): the set of    *)
(* numbers that have the property is named, and all of them are in it.     *)
(***************************************************************************)
EXTENDS Algorithms, FiniteSetTheorems, SequenceTheorems, TLAPS

(* The windows advance by a step of at least one token.                    *)
LEMMA StepForward ==
  ASSUME NEW i \in Int, NEW k \in Int, NEW s \in Nat \ {0}, i < k
  PROVE  i * s + s <= k * s
<1>1. PICK d \in Nat : k = i + 1 + d
  <2>1. k - i - 1 \in Nat /\ k = i + 1 + (k - i - 1)
    OBVIOUS
  <2> QED
    BY <2>1
<1>2. k * s = i * s + s + d * s
  BY <1>1
<1>3. d * s \in Nat /\ i * s \in Int
  OBVIOUS
<1> QED
  BY <1>2, <1>3

(* Where a token lies between the starts of the windows.                    *)
LEMMA Between ==
  ASSUME NEW x \in Nat, NEW s \in Nat \ {0}
  PROVE  /\ x \div s \in Nat /\ x \div s <= x
         /\ (x \div s) * s <= x /\ x < (x \div s) * s + s
OBVIOUS

(* The last window: the first one that reaches the end of the text.         *)
FinalWindow(n, limit, s) == IF n <= limit THEN 0 ELSE ((n - limit - 1) \div s) + 1

(* It is one of the windows, and no window begins after it.                 *)
LEMMA LastWindow ==
  ASSUME NEW n \in Nat \ {0}, NEW limit \in Nat \ {0}, NEW s \in Nat \ {0}
  PROVE  LET K == FinalWindow(n, limit, s) IN
         /\ K \in 0 .. n - 1
         /\ K = 0 \/ (K - 1) * s + limit < n
         /\ n <= K * s + limit
         /\ \A k \in Nat \ {0} : n <= (k - 1) * s + limit => K < k
<1>1. CASE n <= limit
  BY <1>1 DEF FinalWindow
<1>2. CASE n > limit
  <2> DEFINE q == (n - limit - 1) \div s
  <2>1. /\ q \in Nat /\ q <= n - limit - 1
        /\ q * s <= n - limit - 1 /\ n - limit - 1 < q * s + s
    <3>1. n - limit - 1 \in Nat
      BY <1>2
    <3> QED
      BY <3>1, Between
  <2>2. FinalWindow(n, limit, s) = q + 1
    BY <1>2 DEF FinalWindow
  <2> HIDE DEF q
  <2>3. (q + 1) * s = q * s + s /\ (q + 1 - 1) * s = q * s
    BY <2>1
  <2>4. ASSUME NEW k \in Nat \ {0}, n <= (k - 1) * s + limit
        PROVE  q + 1 < k
    <3>1. k - 1 \in Nat /\ (k - 1) * s \in Nat /\ q * s \in Nat
      BY <2>1
    <3>2. q * s < (k - 1) * s
      BY <2>1, <2>4, <3>1
    <3>3. ~(k - 1 = q)
      BY <3>2, <2>1
    <3>4. ~(k - 1 < q)
      BY <3>1, <3>2, <2>1, StepForward
    <3> QED
      BY <3>1, <3>3, <3>4, <2>1
  <2> QED
    BY <1>2, <2>1, <2>2, <2>3, <2>4
<1> QED
  BY <1>1, <1>2

(* No character is lost, whatever the bytes of its tokens are.              *)
LEMMA WindowsLoseNothing ==
  ASSUME NEW n \in Nat, NEW limit \in Nat, NEW overlap \in Nat, Splits(limit, overlap)
  PROVE  Lossless(n, limit, overlap)
<1> DEFINE s == limit - overlap
<1>1. s \in Nat \ {0} /\ limit \in Nat \ {0} /\ 3 <= overlap
  BY DEF Splits, MIN_LOSSLESS_OVERLAP
<1> SUFFICES ASSUME NEW c \in Characters(n)
             PROVE  \E w \in Windows(n, limit, overlap) : Decodes(w, c)
  BY DEF Lossless
<1>2. /\ c.first \in 0 .. n - 1 /\ c.last \in 0 .. n - 1
      /\ c.first <= c.last /\ c.last <= c.first + 3 /\ n \in Nat \ {0}
  BY DEF Characters, MaxBytes
<1> DEFINE k == c.first \div s
<1>3. k \in 0 .. n - 1 /\ k * s <= c.first /\ c.first < k * s + s
  <2>1. c.first \in Nat
    BY <1>2
  <2>2. k \in Nat /\ k <= c.first /\ k * s <= c.first /\ c.first < k * s + s
    BY <1>1, <2>1, Between
  <2> HIDE DEF k
  <2> QED
    BY <1>2, <2>2
<1> HIDE DEF k
<1>4. CASE k = 0 \/ (k - 1) * s + limit < n
  <2>1. Window(k, n, limit, overlap) \in Windows(n, limit, overlap)
    BY <1>3, <1>4 DEF Windows
  <2>2. k * s \in Nat /\ c.last < k * s + limit
    BY <1>1, <1>2, <1>3
  <2>3. Decodes(Window(k, n, limit, overlap), c)
    BY <1>2, <1>3, <2>2 DEF Decodes, Window, Smaller
  <2> QED
    BY <2>1, <2>3
<1>5. CASE k # 0 /\ n <= (k - 1) * s + limit
  <2> DEFINE K == FinalWindow(n, limit, s)
  <2>1. /\ K \in 0 .. n - 1
        /\ K = 0 \/ (K - 1) * s + limit < n
        /\ n <= K * s + limit
        /\ \A i \in Nat \ {0} : n <= (i - 1) * s + limit => K < i
    BY <1>1, <1>2, LastWindow
  <2> HIDE DEF K
  <2>2. Window(K, n, limit, overlap) \in Windows(n, limit, overlap)
    BY <2>1 DEF Windows
  <2>3. K < k
    <3>1. k \in Nat \ {0}
      BY <1>2, <1>3, <1>5
    <3> QED
      BY <1>5, <2>1, <3>1
  <2>4. K * s \in Nat /\ K * s <= c.first
    <3>1. K \in Nat /\ k \in Nat
      BY <1>2, <1>3, <2>1
    <3>2. K * s + s <= k * s
      BY <1>1, <2>3, <3>1, StepForward
    <3>3. K * s \in Nat /\ k * s \in Nat /\ s \in Nat /\ c.first \in Nat
      BY <1>1, <1>2, <3>1
    <3> QED
      BY <1>3, <3>2, <3>3
  <2>5. Decodes(Window(K, n, limit, overlap), c)
    BY <1>1, <1>2, <2>1, <2>4 DEF Decodes, Window, Smaller
  <2> QED
    BY <2>2, <2>5
<1> QED
  BY <1>1, <1>3, <1>4, <1>5

(* A window that follows another ends after it.                             *)
LEMMA WindowsAreTight ==
  ASSUME NEW n \in Nat, NEW limit \in Nat, NEW overlap \in Nat, Splits(limit, overlap)
  PROVE  Tight(n, limit, overlap)
<1> DEFINE s == limit - overlap
           W(k) == Window(k, n, limit, overlap)
<1>1. s \in Nat \ {0} /\ limit \in Nat \ {0}
  BY DEF Splits, MIN_LOSSLESS_OVERLAP
<1> DEFINE I == {i \in 0 .. n - 1 : i = 0 \/ (i - 1) * s + limit < n}
<1>2. Windows(n, limit, overlap) = {W(i) : i \in I}
  BY DEF Windows
<1>3. ASSUME NEW k \in I
      PROVE  /\ k \in Nat /\ k * s \in Nat /\ k * s < n
             /\ W(k).start = k * s
             /\ W(k).end = IF n <= k * s + limit THEN n ELSE k * s + limit
  <2>1. k \in Nat /\ 0 < n /\ k * s \in Nat
    BY <1>1
  <2>2. k = 0 \/ (k - 1) * s + s = k * s
    BY <1>1, <2>1
  <2>3. k * s < n
    BY <1>1, <2>1, <2>2 DEF Splits
  <2> QED
    BY <2>1, <2>3 DEF Window, Smaller
<1>4. ASSUME NEW i \in I, NEW k \in I, i < k
      PROVE  W(i).start < W(k).start /\ W(i).end < W(k).end
  <2>1. i * s + s <= k * s
    BY <1>1, <1>3, <1>4, StepForward
  <2>2. (k - 1) * s + limit < n
    BY <1>3, <1>4
  <2>3. (k - 1) * s = k * s - s
    BY <1>1, <1>3
  <2>4. i * s + limit < n
    BY <1>1, <1>3, <2>1, <2>2, <2>3
  <2> QED
    BY <1>1, <1>3, <2>1, <2>4
<1>5. ASSUME NEW i \in I
      PROVE  W(i).start < W(i).end /\ W(i).end <= W(i).start + limit
  BY <1>1, <1>3
<1>6. ASSUME NEW i \in I, NEW k \in I, W(i).start <= W(k).start, W(k).end <= W(i).end
      PROVE  W(i) = W(k)
  <2>1. i \in Int /\ k \in Int
    BY <1>3
  <2>2. /\ W(i).start \in Int /\ W(i).end \in Int
        /\ W(k).start \in Int /\ W(k).end \in Int
    BY <1>1, <1>3
  <2> HIDE DEF W
  <2>3. ~(i < k) /\ ~(k < i)
    BY <1>4, <1>6, <2>1, <2>2
  <2> QED
    BY <2>1, <2>3
<1> HIDE DEF W, I
<1> QED
  BY <1>2, <1>5, <1>6 DEF Tight

-----------------------------------------------------------------------------
(* Access. *)

(* A later request, and the configuration it meets, after a login.          *)
Requested(c) ==
  /\ c.login \in Logins /\ c.cfg \in Configurations /\ c.same \in BOOLEAN
  /\ c.req.safe \in BOOLEAN /\ c.req.csrf \in BOOLEAN /\ c.req.key \in BOOLEAN
  /\ c.req.cookie = Kept(LoginCookie(c.login), c.same)

(* A session is that of the account logged in to, and has not ended.        *)
LEMMA SessionsAreOfLogins ==
  ASSUME NEW c, Requested(c), Session(c.cfg, c.req) # "none"
  PROVE  /\ Session(c.cfg, c.req) = Account(c.login)
         /\ Account(c.login) \in {"student", "admin"}
         /\ c.same /\ c.cfg.secret /\ c.login.cfg.secret
         /\ c.req.now < c.login.now + c.login.ttl
<1> DEFINE login == c.login
           cookie == c.req.cookie
           role == RoleOf(login.cfg, login.student, login.admin)
           left == LoginCookie(login)
<1>1. /\ login.cfg.student \in BOOLEAN /\ login.cfg.admin \in BOOLEAN
      /\ login.cfg.secret \in BOOLEAN /\ c.cfg.secret \in BOOLEAN
      /\ login.student \in BOOLEAN /\ login.admin \in BOOLEAN /\ login.early \in BOOLEAN
  BY DEF Requested, Logins, Configurations
<1>2. /\ c.cfg.secret /\ cookie.signed /\ RoleIn(cookie) \in {"student", "admin"}
      /\ c.req.now < cookie.expires /\ Session(c.cfg, c.req) = RoleIn(cookie)
  BY DEF Session
<1>3. /\ role \in {"student", "admin", "none"}
      /\ role = "student" => login.cfg.secret /\ Account(login) = "student"
      /\ role = "admin" => login.cfg.secret /\ Account(login) = "admin"
  BY <1>1 DEF RoleOf, Configured, Account
<1>4. cookie = [left EXCEPT !.signed = @ /\ c.same]
  BY DEF Requested, Kept
<1>5. left \in {NoCookie, Issued("student", login.now, login.ttl),
                Issued("platform", login.now, login.ttl), Issued("admin", login.now, login.ttl)}
      /\ (left \in {Issued("student", login.now, login.ttl),
                    Issued("platform", login.now, login.ttl)} => role = "student")
      /\ (left = Issued("admin", login.now, login.ttl) => role = "admin")
  BY <1>1, <1>3 DEF LoginCookie, Issued, NoCookie
<1> HIDE DEF role, left
<1>6. left # NoCookie
  <2> SUFFICES ASSUME left = NoCookie PROVE FALSE
    OBVIOUS
  <2>1. cookie = [NoCookie EXCEPT !.signed = @ /\ c.same] /\ c.same \in BOOLEAN
    BY <1>4 DEF Requested
  <2>2. cookie.signed = FALSE
    BY <2>1 DEF NoCookie
  <2> QED BY <1>2, <2>2
<1>7. CASE left = Issued("admin", login.now, login.ttl)
  <2>1. /\ cookie.role = "admin" /\ cookie.signed = c.same
        /\ cookie.expires = login.now + login.ttl
    BY <1>4, <1>7 DEF Issued, Requested
  <2> QED BY <1>2, <1>3, <1>5, <1>7, <2>1 DEF RoleIn
<1>8. CASE left \in {Issued("student", login.now, login.ttl), Issued("platform", login.now, login.ttl)}
  <2>1. /\ cookie.role \in {"student", "platform"} /\ cookie.signed = c.same
        /\ cookie.expires = login.now + login.ttl
    BY <1>4, <1>8 DEF Issued, Requested
  <2> QED BY <1>2, <1>3, <1>5, <1>8, <2>1 DEF RoleIn
<1> QED BY <1>5, <1>6, <1>7, <1>8

(* So every decision rests on a proof, or on a configuration without one.   *)
LEMMA DecisionsAreProven ==
  ASSUME NEW c, Requested(c)
  PROVE  DecidedByProof(c)
<1> DEFINE cfg == c.cfg
           req == c.req
           session == Session(cfg, req)
           may == req.safe \/ req.csrf
           bySession == session = "admin" /\ may
           served == PlatformAccess(cfg, req)
           admin == AdminAccess(cfg, req)
<1>1. session \in {"none", "student", "admin"}
  BY DEF Session
<1>2. /\ ~Configured(cfg) => served = IF Deployed(cfg) THEN "503" ELSE Anonymous
      /\ Configured(cfg) /\ session = "none" => served = "401"
      /\ Configured(cfg) /\ session # "none" => served = IF may THEN session ELSE "403"
  BY DEF PlatformAccess
<1>3. /\ bySession => admin = "granted"
      /\ ~bySession /\ cfg.key => admin = IF req.key THEN "granted" ELSE "401"
      /\ ~bySession /\ ~cfg.key => admin = IF Deployed(cfg) THEN "503" ELSE "granted"
  BY DEF AdminAccess
<1>4. session # "none" /\ may => session = Account(c.login) /\ Alive(c)
  BY SessionsAreOfLogins DEF Alive
<1>5. cfg.key \in BOOLEAN /\ req.key \in BOOLEAN
  BY DEF Requested, Configurations
<1> HIDE DEF session, may, served, admin
<1>6. served \in {"student", "admin"} => session # "none" /\ may /\ served = session
  BY <1>1, <1>2 DEF Anonymous
<1>7. Deployed(cfg) => served # Anonymous
  BY <1>1, <1>2 DEF Anonymous
<1>8. served = "admin" => admin = "granted"
  BY <1>3, <1>6
<1>9. admin = "granted" => bySession \/ (cfg.key /\ req.key) \/ (~cfg.key /\ ~Deployed(cfg))
  BY <1>3, <1>5
<1>10. /\ served \in {"student", "admin"} => served = Account(c.login) /\ Alive(c)
       /\ Deployed(cfg) => served # Anonymous
       /\ served = "admin" => admin = "granted"
       /\ admin = "granted" =>
            \/ cfg.key /\ req.key
            \/ Account(c.login) = "admin" /\ Alive(c)
            \/ ~cfg.key /\ ~Deployed(cfg)
  BY <1>4, <1>6, <1>7, <1>8, <1>9
<1> QED
  BY <1>10, Zenon DEF DecidedByProof, served, admin

-----------------------------------------------------------------------------
(* Numbers and recursion. *)

(* Every nonempty set of numbers has a least.                               *)
LEMMA LeastOf ==
  ASSUME NEW T \in SUBSET Nat, T # {}
  PROVE  \E n \in T : \A m \in T : n <= m
<1> DEFINE R == OpToRel(<, Nat)
<1>1. IsWellFoundedOn(R, Nat)
  BY NatLessThanWellFounded
<1>2. \A x, y \in Nat : <<y, x>> \in R <=> y < x
  BY DEF OpToRel
<1> HIDE DEF R
<1>3. PICK n \in T : \A m \in T : ~(<<m, n>> \in R)
  BY <1>1, WFMin
<1>4. ASSUME NEW m \in T PROVE n <= m
  <2>1. ~(m < n)
    BY <1>2, <1>3
  <2>2. m \in Nat /\ n \in Nat
    BY <1>3
  <2> QED BY <2>1, <2>2
<1> QED BY <1>3, <1>4

(* Induction up to n, on the set of the numbers that have the property.     *)
LEMMA UpTo ==
  ASSUME NEW n \in Nat, NEW P, 0 \in P, \A i \in 1 .. n : i - 1 \in P => i \in P
  PROVE  \A i \in 0 .. n : i \in P
<1> DEFINE T == {i \in 0 .. n : i \notin P}
<1> SUFFICES ASSUME T # {} PROVE FALSE
  OBVIOUS
<1>1. PICK i \in T : \A j \in T : i <= j
  <2>1. T \in SUBSET Nat
    OBVIOUS
  <2> HIDE DEF T
  <2> QED BY <2>1, LeastOf
<1>2. i \in 1 .. n
  BY <1>1
<1>3. i - 1 \notin T
  BY <1>1, <1>2
<1> QED BY <1>1, <1>2, <1>3

(* f begins with base and goes on by the steps of g.                        *)
Unfolds(f, n, base, g) ==
  f[0] = base /\ \A i \in 1 .. n : f[i] = g[i][f[i - 1]]

(* There is a function that does.                                           *)
LEMMA Recursion ==
  ASSUME NEW n \in Nat, NEW S, NEW base \in S, NEW g,
         g \in [1 .. n -> [S -> S]]
  PROVE  \E f \in [0 .. n -> S] : Unfolds(f, n, base, g)
<1> DEFINE Good(f, k) == /\ f \in [0 .. k -> S] /\ f[0] = base
                         /\ \A i \in 1 .. k : f[i] = g[i][f[i - 1]]
           P == {k \in 0 .. n : \E f : Good(f, k)}
<1>1. 0 \in P
  <2>1. Good([i \in 0 .. 0 |-> base], 0)
    OBVIOUS
  <2> HIDE DEF Good
  <2> QED BY <2>1
<1>2. ASSUME NEW k \in 1 .. n, k - 1 \in P
      PROVE  k \in P
  <2>1. PICK f : Good(f, k - 1)
    BY <1>2
  <2> DEFINE h == [i \in 0 .. k |-> IF i = k THEN g[k][f[k - 1]] ELSE f[i]]
  <2>2. f[k - 1] \in S
    BY <2>1
  <2>3. g[k][f[k - 1]] \in S
    BY <2>2
  <2>4. h \in [0 .. k -> S] /\ h[0] = base
    BY <2>1, <2>3
  <2>5. \A i \in 1 .. k : h[i] = g[i][h[i - 1]]
    BY <2>1
  <2>6. Good(h, k)
    BY <2>4, <2>5
  <2> HIDE DEF Good
  <2> QED BY <2>6
<1> HIDE DEF P
<1>3. \A i \in 0 .. n : i \in P
  BY <1>1, <1>2, UpTo
<1>4. \E f : Good(f, n)
  BY <1>3 DEF P
<1> QED BY <1>4 DEF Unfolds

(* The greatest of a nonempty set of numbers below a bound.                 *)
LEMMA Greatest ==
  ASSUME NEW n \in Nat, NEW T \in SUBSET (0 .. n), T # {}
  PROVE  \E i \in T : \A j \in T : j <= i
<1> DEFINE U == {m \in 0 .. n : \A j \in T : j <= m}
<1>1. n \in U
  OBVIOUS
<1>2. PICK m \in U : \A k \in U : m <= k
  <2>1. U \in SUBSET Nat /\ U # {}
    BY <1>1
  <2> HIDE DEF U
  <2> QED BY <2>1, LeastOf
<1>3. m \in T
  <2> SUFFICES ASSUME m \notin T PROVE FALSE
    OBVIOUS
  <2>1. \A j \in T : j <= m - 1
    BY <1>2
  <2>2. m - 1 \in U
    <3>1. m # 0
      <4>1. PICK j \in T : j \in 0 .. n
        OBVIOUS
      <4> QED BY <2>1, <4>1
    <3> QED BY <1>2, <2>1, <3>1
  <2> QED BY <1>2, <2>2
<1> QED BY <1>2, <1>3

-----------------------------------------------------------------------------
(* A document's sections.                                                   *)

(* A concatenation is built up sequence by sequence.                        *)
LEMMA FlattenIs ==
  ASSUME NEW S, NEW ss \in Seq(Seq(S))
  PROVE  \E f \in [0 .. Len(ss) -> Seq(S)] :
           /\ f[0] = << >>
           /\ \A i \in 1 .. Len(ss) : f[i] = f[i - 1] \o ss[i]
           /\ FlattenSeq(ss) = f[Len(ss)]
<1> DEFINE n == Len(ss)
           g == [i \in 1 .. n |-> [s \in Seq(S) |-> s \o ss[i]]]
<1>0. n \in Nat /\ \A i \in 1 .. n : ss[i] \in Seq(S)
  OBVIOUS
<1>1. PICK f \in [0 .. n -> Seq(S)] : Unfolds(f, n, << >>, g)
  <2>1. g \in [1 .. n -> [Seq(S) -> Seq(S)]] /\ << >> \in Seq(S)
    BY <1>0
  <2> HIDE DEF g
  <2> QED BY <1>0, <2>1, Recursion
<1>2. f[0] = << >> /\ \A i \in 1 .. n : f[i] = f[i - 1] \o ss[i]
  <2>1. ASSUME NEW i \in 1 .. n
        PROVE  f[i] = f[i - 1] \o ss[i]
    <3>1. f[i - 1] \in Seq(S)
      <4> HIDE DEF n, g
      <4>1. i - 1 \in 0 .. n
        BY <1>0
      <4> QED BY <1>1, <4>1, Zenon
    <3>2. g[i][f[i - 1]] = f[i - 1] \o ss[i]
      <4>1. g[i] = [s \in Seq(S) |-> s \o ss[i]]
        OBVIOUS
      <4> HIDE DEF g
      <4> QED BY <3>1, <4>1, Zenon
    <3> QED BY <1>1, <3>2, Zenon DEF Unfolds
  <2> QED BY <1>1, <2>1 DEF Unfolds
<1>3. CASE n = 0
  <2>1. FlattenSeq(ss) = ss /\ ss = << >>
    BY <1>3 DEF FlattenSeq
  <2> QED BY <1>1, <1>2, <1>3, <2>1
<1>4. CASE n # 0
  <2> DEFINE Is(h) == h = [i \in 1 .. n |-> IF i = 1 THEN ss[i] ELSE h[i - 1] \o ss[i]]
             h0 == [i \in 1 .. n |-> f[i]]
             h1 == CHOOSE h : Is(h)
  <2>1. Is(h0)
    <3>1. ASSUME NEW i \in 1 .. n
          PROVE  h0[i] = IF i = 1 THEN ss[i] ELSE h0[i - 1] \o ss[i]
      <4>1. CASE i = 1
        <5>1. ss[1] \in Seq(S) /\ f[1] = << >> \o ss[1]
          <6>1. 1 \in 1 .. n /\ 1 - 1 = 0
            BY <4>1
          <6> QED BY <1>0, <1>2, <6>1, Zenon
        <5>2. f[1] = ss[1]
          BY <5>1, ConcatEmptySeq
        <5> QED BY <4>1, <5>2
      <4>2. CASE i # 1
        <5>1. i - 1 \in 1 .. n
          BY <1>0, <4>2
        <5> QED BY <1>2, <4>2, <5>1, Zenon
      <4> QED BY <4>1, <4>2
    <3> QED BY <3>1
  <2>2. Is(h1)
    <3> HIDE DEF Is, h0
    <3> QED BY <2>1
  <2>3. FlattenSeq(ss) = h1[n]
    BY <1>4 DEF FlattenSeq
  <2> DEFINE P == {i \in 0 .. n : i = 0 \/ h1[i] = f[i]}
  <2> HIDE DEF h1
  <2>4. ASSUME NEW i \in 1 .. n, i - 1 \in P
        PROVE  i \in P
    <3>1. CASE i = 1
      <4>1. h1[i] = ss[i]
        BY <2>2, <3>1, Zenon
      <4>2. f[i] = ss[i]
        <5>1. ss[1] \in Seq(S) /\ f[1] = << >> \o ss[1]
          <6>1. 1 \in 1 .. n /\ 1 - 1 = 0
            BY <3>1
          <6> QED BY <1>0, <1>2, <6>1, Zenon
        <5> QED BY <3>1, <5>1, ConcatEmptySeq
      <4> QED BY <1>0, <4>1, <4>2
    <3>2. CASE i # 1
      <4>1. h1[i] = h1[i - 1] \o ss[i]
        BY <2>2, <3>2, Zenon
      <4>2. h1[i - 1] = f[i - 1]
        BY <1>0, <2>4, <3>2
      <4>3. h1[i] = f[i]
        BY <1>2, <4>1, <4>2, Zenon
      <4> QED BY <1>0, <4>3
    <3> QED BY <3>1, <3>2
  <2>5. \A i \in 0 .. n : i \in P
    <3>1. 0 \in P
      BY <1>0
    <3> HIDE DEF P
    <3> QED BY <1>0, <2>4, <3>1, UpTo
  <2>6. h1[n] = f[n]
    BY <1>0, <1>4, <2>5
  <2> QED BY <1>1, <1>2, <2>3, <2>6, Zenon
<1> QED BY <1>3, <1>4

(* What is flattened of nothing, and of one more.                           *)
LEMMA FlattenEmpty == FlattenSeq(<< >>) = << >>
BY DEF FlattenSeq

LEMMA FlattenAppend ==
  ASSUME NEW S, NEW ss \in Seq(Seq(S)), NEW t \in Seq(S)
  PROVE  /\ FlattenSeq(ss) \in Seq(S)
         /\ FlattenSeq(Append(ss, t)) = FlattenSeq(ss) \o t
<1> DEFINE n == Len(ss)
           tt == Append(ss, t)
<1>0. /\ n \in Nat /\ tt \in Seq(Seq(S)) /\ Len(tt) = n + 1
      /\ \A i \in 1 .. n : tt[i] = ss[i]
      /\ tt[n + 1] = t
  OBVIOUS
<1>1. PICK f \in [0 .. n -> Seq(S)] :
        /\ f[0] = << >>
        /\ \A i \in 1 .. n : f[i] = f[i - 1] \o ss[i]
        /\ FlattenSeq(ss) = f[n]
  BY FlattenIs
<1> HIDE DEF tt
<1>2. PICK h \in [0 .. Len(tt) -> Seq(S)] :
        /\ h[0] = << >>
        /\ \A i \in 1 .. Len(tt) : h[i] = h[i - 1] \o tt[i]
        /\ FlattenSeq(tt) = h[Len(tt)]
  BY <1>0, FlattenIs
<1> DEFINE P == {i \in 0 .. n : h[i] = f[i]}
<1>3. ASSUME NEW i \in 1 .. n, i - 1 \in P
      PROVE  i \in P
  <2>1. i \in 1 .. Len(tt)
    BY <1>0
  <2>2. h[i] = h[i - 1] \o tt[i] /\ f[i] = f[i - 1] \o ss[i] /\ tt[i] = ss[i]
    BY <1>0, <1>1, <1>2, <2>1, Zenon
  <2>3. h[i] = f[i]
    BY <1>3, <2>2, Zenon
  <2> QED BY <1>0, <2>3
<1>4. \A i \in 0 .. n : i \in P
  <2>1. 0 \in P
    BY <1>0, <1>1, <1>2
  <2> HIDE DEF P
  <2> QED BY <1>0, <1>3, <2>1, UpTo
<1>5. h[n] = f[n]
  BY <1>0, <1>4
<1>6. h[n + 1] = h[n] \o tt[n + 1]
  <2>1. n + 1 \in 1 .. Len(tt) /\ n + 1 - 1 = n
    BY <1>0
  <2> DEFINE m == n + 1
  <2>2. m \in 1 .. Len(tt) /\ m - 1 = n
    BY <2>1
  <2> HIDE DEF m
  <2>3. h[m] = h[m - 1] \o tt[m]
    BY <1>2, <2>2, Zenon
  <2>4. h[m] = h[n] \o tt[m]
    BY <2>2, <2>3, Zenon
  <2> QED BY <2>4 DEF m
<1>7. f[n] \in Seq(S)
  <2> HIDE DEF n
  <2>1. n \in 0 .. n
    BY <1>0
  <2> QED BY <1>1, <2>1, Zenon
<1>8. FlattenSeq(tt) = f[n] \o t
  <2>1. FlattenSeq(tt) = h[n + 1]
    BY <1>0, <1>2
  <2>2. h[n + 1] = f[n] \o t
    <3>1. tt[n + 1] = t
      BY <1>0
    <3> QED BY <1>5, <1>6, <3>1, Zenon
  <2> QED BY <2>1, <2>2, Zenon
<1> QED BY <1>1, <1>7, <1>8, Zenon DEF tt

(* What the parser holds: lines and headings of the document, and sections  *)
(* of them.                                                                 *)
Slugs == Seq(Int)

Heads == {line \in Lines : line.kind = "heading"}

RawSection == [slug: Slugs, level: Nat, lines: Seq(Lines \cup {Plain("made")})]

Parser == [fence: {NoFence} \cup Lines, heading: {NoHeading} \cup Heads,
           lines: Seq(Lines), raw: Seq(RawSection)]

(* A heading is a line with a slug and a level.                             *)
LEMMA HeadsAre ==
  /\ NoHeading.slug \in Slugs /\ NoHeading.level \in Nat
  /\ \A h \in Heads : h # NoHeading /\ h \in Lines /\ h.slug \in Slugs /\ h.level \in Nat
<1>1. NoHeading.level = 0 /\ NoHeading.slug = << >>
  BY DEF NoHeading, Heading
<1> QED BY <1>1, LinesAssumption DEF Heads, Slugs

(* A heading made for a section puts two lines before its own.              *)
LEMMA MadeLines ==
  ASSUME NEW lines \in Seq(Lines)
  PROVE  /\ lines \in Seq(Lines \cup {Plain("made")})
         /\ <<Plain("made"), Plain("made")>> \o lines \in Seq(Lines \cup {Plain("made")})
<1>1. lines \in Seq(Lines \cup {Plain("made")})
  BY SeqMonotonic
<1>2. <<Plain("made"), Plain("made")>> \in Seq(Lines \cup {Plain("made")})
  OBVIOUS
<1> QED BY <1>1, <1>2, ConcatProperties

(* The parser's state keeps its type when it closes a section or reads on.  *)
LEMMA ClosedTyped ==
  ASSUME NEW s \in Parser
  PROVE  /\ Section(s.heading, s.lines) \in RawSection
         /\ Synthetic(Stem, s.lines) \in RawSection
         /\ Closed(Stem, s) \in Seq(RawSection)
<1>1. s.lines \in Seq(Lines) /\ s.raw \in Seq(RawSection) /\ s.heading \in {NoHeading} \cup Heads
  BY DEF Parser
<1>2. Section(s.heading, s.lines) \in RawSection
  BY <1>1, HeadsAre, MadeLines DEF Section, RawSection
<1>3. Synthetic(Stem, s.lines) \in RawSection
  BY <1>1, MadeLines, LinesAssumption DEF Synthetic, Section, Heading, RawSection, Slugs
<1> QED BY <1>1, <1>2, <1>3 DEF Closed

LEMMA ReadTyped ==
  ASSUME NEW s \in Parser, NEW line \in Lines
  PROVE  Read(Stem, s, line) \in Parser
<1> DEFINE kept == [s EXCEPT !.lines = Append(@, line)]
<1>0. s.lines \in Seq(Lines)
  BY DEF Parser
<1>1. kept \in Parser
  <2>1. Append(s.lines, line) \in Seq(Lines)
    BY <1>0
  <2> QED BY <2>1 DEF Parser
<1>2. [kept EXCEPT !.fence = NoFence] \in Parser /\ [kept EXCEPT !.fence = line] \in Parser
  BY <1>1 DEF Parser
<1>3. Closed(Stem, s) \in Seq(RawSection)
  BY ClosedTyped
<1>4. line.kind = "heading" =>
        [s EXCEPT !.heading = line, !.lines = <<line>>, !.raw = Closed(Stem, s)] \in Parser
  <2>1. <<line>> \in Seq(Lines)
    OBVIOUS
  <2> QED BY <1>3, <2>1 DEF Parser, Heads
<1>5. Read(Stem, s, line) \in {kept, [kept EXCEPT !.fence = NoFence], [kept EXCEPT !.fence = line]}
      \/ (line.kind = "heading" /\ Read(Stem, s, line) =
            [s EXCEPT !.heading = line, !.lines = <<line>>, !.raw = Closed(Stem, s)])
  BY DEF Read
<1> HIDE DEF kept
<1> QED BY <1>1, <1>2, <1>4, <1>5

(* The recursive function is the one it is defined as.                      *)
LEMMA ReadingIs ==
  ASSUME NEW body \in Seq(Lines)
  PROVE  LET f == Reading(Stem, body) IN
         /\ f \in [0 .. Len(body) -> Parser]
         /\ f[0] = Start
         /\ \A i \in 1 .. Len(body) : f[i] = Read(Stem, f[i - 1], body[i])
<1> DEFINE n == Len(body)
           g == [i \in 1 .. n |-> [s \in Parser |-> Read(Stem, s, body[i])]]
           Is(h) == h = [i \in 0 .. n |-> IF i = 0 THEN Start ELSE Read(Stem, h[i - 1], body[i])]
           f == Reading(Stem, body)
<1>0. n \in Nat /\ \A i \in 1 .. n : body[i] \in Lines
  OBVIOUS
<1>1. Start \in Parser
  BY HeadsAre DEF Start, Parser
<1>2. PICK h \in [0 .. n -> Parser] : Unfolds(h, n, Start, g)
  <2>1. g \in [1 .. n -> [Parser -> Parser]]
    BY <1>0, ReadTyped
  <2> HIDE DEF g
  <2> QED BY <1>0, <1>1, <2>1, Recursion
<1>3. h[0] = Start /\ \A i \in 1 .. n : h[i] = Read(Stem, h[i - 1], body[i])
  BY <1>0, <1>2 DEF Unfolds
<1>4. Is(h)
  BY <1>0, <1>2, <1>3
<1>5. f = CHOOSE k : Is(k)
  BY DEF Reading
<1>6. Is(f)
  <2> HIDE DEF Is, f
  <2> QED BY <1>4, <1>5
<1>7. f[0] = Start /\ \A i \in 1 .. n : f[i] = Read(Stem, f[i - 1], body[i])
  <2> HIDE DEF f
  <2> QED BY <1>0, <1>6
<1>8. DOMAIN f = 0 .. n /\ f = [i \in 0 .. n |-> f[i]]
  <2> HIDE DEF f
  <2> QED BY <1>6
<1> DEFINE P == {i \in 0 .. n : f[i] \in Parser}
<1>9. \A i \in 0 .. n : i \in P
  <2> HIDE DEF f
  <2>1. ASSUME NEW i \in 1 .. n, i - 1 \in P PROVE i \in P
    BY <1>0, <1>7, <2>1, ReadTyped
  <2>2. 0 \in P
    BY <1>0, <1>1, <1>7
  <2> HIDE DEF P
  <2> QED BY <1>0, <2>1, <2>2, UpTo
<1> HIDE DEF f
<1> QED BY <1>7, <1>8, <1>9 DEF f

-----------------------------------------------------------------------------
(* The lines of the document that sections hold.                            *)
Held(sections) == FlattenSeq([i \in DOMAIN sections |-> OwnLines(sections[i])])

Documented == {section \in RawSection : OwnLines(section) \in Seq(Lines)}

(* The k elements of a sequence from place a on are a sequence.             *)
LEMMA SubSeqTaken ==
  ASSUME NEW S, NEW s, NEW a \in Int, NEW b \in Int, NEW k \in Nat,
         b - a + 1 = k, \A j \in a .. b : s[j] \in S
  PROVE  /\ SubSeq(s, a, b) \in Seq(S)
         /\ Len(SubSeq(s, a, b)) = k
         /\ \A j \in a .. b : s[j] = SubSeq(s, a, b)[j - a + 1]
<1> DEFINE u == SubSeq(s, a, b)
<1>1. /\ u \in Seq(S)
      /\ Len(u) = IF a <= b THEN b - a + 1 ELSE 0
      /\ \A i \in 1 .. b - a + 1 : u[i] = s[a + i - 1]
  BY SubSeqProperties
<1> HIDE DEF u
<1>2. (IF a <= b THEN b - a + 1 ELSE 0) = k
  OBVIOUS
<1>3. ASSUME NEW j \in a .. b PROVE s[j] = u[j - a + 1]
  <2>1. PICK i \in 1 .. b - a + 1 : i = j - a + 1
    OBVIOUS
  <2>2. a + i - 1 = j
    BY <2>1
  <2>3. u[i] = s[a + i - 1]
    BY <1>1
  <2> QED BY <2>1, <2>2, <2>3
<1>4. Len(u) = k
  BY <1>1, <1>2, Zenon
<1> QED BY <1>1, <1>3, <1>4 DEF u

(* A part of a sequence is the sequence that has its elements.              *)
LEMMA SubSeqIs ==
  ASSUME NEW S, NEW s, NEW a \in Int, NEW b \in Int, NEW t \in Seq(S),
         b - a + 1 = Len(t), \A j \in a .. b : s[j] = t[j - a + 1]
  PROVE  SubSeq(s, a, b) = t
<1>0. PICK k \in Nat : k = Len(t)
  OBVIOUS
<1>1. ASSUME NEW j \in a .. b PROVE s[j] \in S
  <2>1. j - a + 1 \in 1 .. Len(t)
    OBVIOUS
  <2>2. t[j - a + 1] \in S
    BY <2>1
  <2> QED BY <2>2
<1> DEFINE u == SubSeq(s, a, b)
<1>2. u \in Seq(S) /\ Len(u) = k /\ \A j \in a .. b : s[j] = u[j - a + 1]
  BY <1>0, <1>1, SubSeqTaken
<1> HIDE DEF u
<1>3. ASSUME NEW i \in 1 .. k PROVE u[i] = t[i]
  <2>1. PICK j \in a .. b : j = i + a - 1
    BY <1>0
  <2>2. s[j] = u[j - a + 1] /\ s[j] = t[j - a + 1]
    BY <1>2
  <2>3. j - a + 1 = i
    BY <2>1
  <2> QED BY <2>2, <2>3
<1>4. u = t
  BY <1>0, <1>2, <1>3, SeqEqual
<1> QED BY <1>4 DEF u

(* The end of a sequence that is the end of another is an end of that other. *)
LEMMA SubSeqShifted ==
  ASSUME NEW s \in Seq(Lines), NEW t \in Seq(Lines),
         NEW a \in Nat \ {0}, NEW b \in Nat,
         a <= Len(t) + 1, b = Len(s) - Len(t) + a, Len(t) <= Len(s),
         \A i \in 1 .. Len(t) : t[i] = s[Len(s) - Len(t) + i]
  PROVE  /\ SubSeq(t, a, Len(t)) = SubSeq(s, b, Len(s))
         /\ Len(SubSeq(s, b, Len(s))) = Len(s) - b + 1
<1> DEFINE v == SubSeq(s, b, Len(s))
<1>0. Len(s) - b + 1 \in Nat /\ Len(s) \in Int
  OBVIOUS
<1>1. PICK k \in Nat : k = Len(s) - b + 1
  BY <1>0
<1>2. \A j \in b .. Len(s) : s[j] \in Lines
  OBVIOUS
<1>3. /\ v \in Seq(Lines) /\ Len(v) = k
      /\ \A j \in b .. Len(s) : s[j] = v[j - b + 1]
  BY <1>0, <1>1, <1>2, SubSeqTaken
<1> HIDE DEF v
<1>4. ASSUME NEW i \in a .. Len(t) PROVE t[i] = v[i - a + 1]
  <2>0. Len(s) - Len(t) + i \in b .. Len(s)
    OBVIOUS
  <2>1. PICK j \in b .. Len(s) : j = Len(s) - Len(t) + i
    BY <2>0
  <2>2. i \in 1 .. Len(t) /\ j - b + 1 = i - a + 1
    BY <2>1
  <2>3. t[i] = s[j]
    BY <2>1, <2>2
  <2>4. s[j] = v[j - b + 1]
    BY <1>3
  <2> QED BY <2>2, <2>3, <2>4
<1>5. a \in Int /\ Len(t) \in Int /\ Len(t) - a + 1 = Len(v)
  <2>1. Len(t) - a + 1 = k
    BY <1>1
  <2> QED BY <1>3, <2>1
<1>6. SubSeq(t, a, Len(t)) = v
  BY <1>3, <1>4, <1>5, SubSeqIs
<1> QED BY <1>1, <1>3, <1>6 DEF v

(* A section made of lines has those for its own, a heading made for it or not. *)
LEMMA OwnLinesAre ==
  ASSUME NEW s \in Parser
  PROVE  /\ OwnLines(Section(s.heading, s.lines)) = s.lines
         /\ OwnLines(Synthetic(Stem, s.lines)) = s.lines
<1> DEFINE made == <<Plain("made"), Plain("made")>>
           all == made \o s.lines
<1>0. /\ s.lines \in Seq(Lines) /\ Len(s.lines) \in Nat
      /\ \A i \in 1 .. Len(s.lines) : s.lines[i].kind # "made"
  BY LinesAssumption DEF Parser
<1>1. OwnLines(Section(s.heading, s.lines)) = s.lines
  <2>1. {i \in DOMAIN s.lines : s.lines[i].kind = "made"} = {}
    BY <1>0
  <2>2. Cardinality({i \in DOMAIN s.lines : s.lines[i].kind = "made"}) = 0
    BY <2>1, FS_EmptySet
  <2>3. Section(s.heading, s.lines).lines = s.lines
    BY DEF Section
  <2>4. OwnLines(Section(s.heading, s.lines)) = SubSeq(s.lines, 0 + 1, Len(s.lines))
    BY <2>2, <2>3, Zenon DEF OwnLines
  <2> QED BY <1>0, <2>4, SubSeqFull
<1>2. OwnLines(Synthetic(Stem, s.lines)) = s.lines
  <2>1. /\ all \in Seq(Lines \cup {Plain("made")})
        /\ Len(all) = 2 + Len(s.lines)
        /\ \A i \in 1 .. 2 + Len(s.lines) :
             all[i] = IF i <= 2 THEN Plain("made") ELSE s.lines[i - 2]
    <3>1. made \in Seq(Lines \cup {Plain("made")}) /\ Len(made) = 2
          /\ made[1] = Plain("made") /\ made[2] = Plain("made")
      OBVIOUS
    <3>2. s.lines \in Seq(Lines \cup {Plain("made")})
      BY <1>0, SeqMonotonic
    <3> HIDE DEF made
    <3>3. /\ all \in Seq(Lines \cup {Plain("made")})
          /\ Len(all) = Len(made) + Len(s.lines)
          /\ \A i \in 1 .. Len(made) + Len(s.lines) :
               all[i] = IF i <= Len(made) THEN made[i] ELSE s.lines[i - Len(made)]
      BY <3>1, <3>2, ConcatProperties
    <3> QED BY <1>0, <3>1, <3>3
  <2> HIDE DEF all, made
  <2>2. {i \in DOMAIN all : all[i].kind = "made"} = 1 .. 2
    <3>1. DOMAIN all = 1 .. 2 + Len(s.lines)
      BY <1>0, <2>1
    <3>2. Plain("made").kind = "made"
      BY DEF Plain
    <3> QED BY <1>0, <2>1, <3>1, <3>2
  <2>3. Cardinality({i \in DOMAIN all : all[i].kind = "made"}) = 2
    <3>1. 1 \in Int /\ 2 \in Int
      OBVIOUS
    <3>2. Cardinality(1 .. 2) = IF 1 > 2 THEN 0 ELSE 2 - 1 + 1
      BY <3>1, FS_Interval, Zenon
    <3>3. Cardinality(1 .. 2) = 2
      BY <3>2
    <3> HIDE DEF all
    <3> QED BY <2>2, <3>3
  <2>4. Synthetic(Stem, s.lines).lines = all
    BY DEF Synthetic, Section, all, made
  <2>5. OwnLines(Synthetic(Stem, s.lines)) = SubSeq(all, 2 + 1, Len(all))
    BY <2>3, <2>4, Zenon DEF OwnLines
  <2>6. SubSeq(all, 3, Len(all)) = s.lines
    <3>1. 3 \in Int /\ Len(all) \in Int /\ Len(all) - 3 + 1 = Len(s.lines)
      BY <1>0, <2>1
    <3>2. \A j \in 3 .. Len(all) : all[j] = s.lines[j - 3 + 1]
      BY <1>0, <2>1
    <3> QED BY <1>0, <3>1, <3>2, SubSeqIs
  <2> QED BY <2>5, <2>6
<1> QED BY <1>1, <1>2

(* What sections hold is what each holds, one after the other.              *)
LEMMA HeldAppend ==
  ASSUME NEW raw \in Seq(Documented), NEW section \in Documented
  PROVE  /\ Held(raw) \in Seq(Lines)
         /\ Held(Append(raw, section)) = Held(raw) \o OwnLines(section)
<1> DEFINE own == [i \in DOMAIN raw |-> OwnLines(raw[i])]
           more == [i \in DOMAIN Append(raw, section) |-> OwnLines(Append(raw, section)[i])]
<1>1. own \in Seq(Seq(Lines)) /\ Len(own) = Len(raw)
  <2>1. \A i \in 1 .. Len(raw) : OwnLines(raw[i]) \in Seq(Lines)
    BY DEF Documented
  <2>2. DOMAIN raw = 1 .. Len(raw) /\ Len(raw) \in Nat
    OBVIOUS
  <2> QED BY <2>1, <2>2
<1>2. OwnLines(section) \in Seq(Lines)
  BY DEF Documented
<1>3. more = Append(own, OwnLines(section))
  <2>1. /\ Len(raw) \in Nat
        /\ DOMAIN Append(raw, section) = 1 .. Len(raw) + 1
        /\ \A i \in 1 .. Len(raw) : Append(raw, section)[i] = raw[i]
        /\ Append(raw, section)[Len(raw) + 1] = section
    OBVIOUS
  <2>2. /\ \A i \in 1 .. Len(raw) : more[i] = own[i]
        /\ more[Len(raw) + 1] = OwnLines(section)
    BY <2>1
  <2>3. DOMAIN more = 1 .. Len(raw) + 1 /\ more = [i \in 1 .. Len(raw) + 1 |-> more[i]]
    BY <2>1
  <2> HIDE DEF own, more
  <2>4. /\ Len(Append(own, OwnLines(section))) = Len(raw) + 1
        /\ Append(own, OwnLines(section)) \in Seq(Seq(Lines))
        /\ \A i \in 1 .. Len(raw) : Append(own, OwnLines(section))[i] = own[i]
        /\ Append(own, OwnLines(section))[Len(raw) + 1] = OwnLines(section)
    BY <1>1, <1>2, AppendProperties
  <2> DEFINE app == Append(own, OwnLines(section))
  <2>5. DOMAIN app = 1 .. Len(raw) + 1 /\ app = [i \in 1 .. Len(raw) + 1 |-> app[i]]
    <3>1. app \in Seq(Seq(Lines)) /\ Len(app) = Len(raw) + 1
      BY <2>4
    <3> HIDE DEF app
    <3> QED BY <3>1
  <2>6. \A i \in 1 .. Len(raw) + 1 : more[i] = app[i]
    BY <2>1, <2>2, <2>4
  <2> HIDE DEF app
  <2>7. more = app
    BY <2>3, <2>5, <2>6
  <2> QED BY <2>7 DEF app
<1>4. Held(raw) = FlattenSeq(own) /\ Held(Append(raw, section)) = FlattenSeq(more)
  BY DEF Held
<1> HIDE DEF own, more
<1>5. FlattenSeq(own) \in Seq(Lines)
      /\ FlattenSeq(Append(own, OwnLines(section))) = FlattenSeq(own) \o OwnLines(section)
  BY <1>1, <1>2, FlattenAppend
<1> QED BY <1>3, <1>4, <1>5, Zenon

(* What a parser has read up to line n of the body: the sections closed and  *)
(* the one open hold it all, but for k empty lines of a preamble.           *)
HoldsFrom(body, n, s, k) ==
  /\ Held(s.raw) \o s.lines = SubSeq(body, k + 1, n)
  /\ \A j \in 1 .. k : Empty(body[j])
  /\ s.heading = NoHeading => s.raw = << >> /\ k = 0

(* Every section the parser closes is made of lines of the document.        *)
LEMMA ClosedDocumented ==
  ASSUME NEW s \in Parser, s.raw \in Seq(Documented)
  PROVE  /\ Section(s.heading, s.lines) \in Documented
         /\ Synthetic(Stem, s.lines) \in Documented
         /\ Closed(Stem, s) \in Seq(Documented)
<1>1. s.lines \in Seq(Lines)
  BY DEF Parser
<1>2. /\ Section(s.heading, s.lines) \in Documented
      /\ Synthetic(Stem, s.lines) \in Documented
  BY <1>1, ClosedTyped, OwnLinesAre DEF Documented
<1> QED BY <1>2 DEF Closed

(* Closing the open section loses nothing.                                  *)
LEMMA ClosedHolds ==
  ASSUME NEW body \in Seq(Lines), NEW n \in 0 .. Len(body),
         NEW s \in Parser, s.raw \in Seq(Documented),
         NEW k \in 0 .. n, HoldsFrom(body, n, s, k)
  PROVE  \E m \in 0 .. n : /\ Held(Closed(Stem, s)) = SubSeq(body, m + 1, n)
                           /\ \A j \in 1 .. m : Empty(body[j])
<1>0. /\ s.lines \in Seq(Lines)
      /\ Section(s.heading, s.lines) \in Documented
      /\ Synthetic(Stem, s.lines) \in Documented
  BY ClosedDocumented DEF Parser
<1>1. CASE s.heading # NoHeading
  <2>1. Closed(Stem, s) = Append(s.raw, Section(s.heading, s.lines))
    BY <1>1 DEF Closed
  <2>2. Held(Append(s.raw, Section(s.heading, s.lines)))
          = Held(s.raw) \o OwnLines(Section(s.heading, s.lines))
    BY <1>0, HeldAppend
  <2>3. Held(Closed(Stem, s)) = Held(s.raw) \o s.lines
    BY <2>1, <2>2, OwnLinesAre, Zenon
  <2>4. Held(Closed(Stem, s)) = SubSeq(body, k + 1, n)
    BY <2>3, Zenon DEF HoldsFrom
  <2> QED BY <2>4 DEF HoldsFrom
<1>2. CASE s.heading = NoHeading
  <2>1. s.raw = << >> /\ k = 0 /\ Held(s.raw) = << >>
    <3>1. s.raw = << >> /\ k = 0
      BY <1>2 DEF HoldsFrom
    <3>2. [i \in DOMAIN << >> |-> OwnLines(<< >>[i])] = << >>
      OBVIOUS
    <3> QED BY <3>1, <3>2, FlattenEmpty, Zenon DEF Held
  <2>2. s.lines = SubSeq(body, 1, n)
    <3>1. << >> \o s.lines = SubSeq(body, 0 + 1, n)
      BY <2>1, Zenon DEF HoldsFrom
    <3>2. << >> \o s.lines = s.lines
      BY <1>0, ConcatEmptySeq
    <3> QED BY <3>1, <3>2
  <2>3. CASE HasContent(s.lines)
    <3>1. Closed(Stem, s) = Append(s.raw, Synthetic(Stem, s.lines))
      BY <1>2, <2>3 DEF Closed
    <3>2. Held(Append(s.raw, Synthetic(Stem, s.lines)))
            = Held(s.raw) \o OwnLines(Synthetic(Stem, s.lines))
      BY <1>0, HeldAppend
    <3>3. Held(Closed(Stem, s)) = << >> \o s.lines
      BY <2>1, <3>1, <3>2, OwnLinesAre, Zenon
    <3>4. Held(Closed(Stem, s)) = SubSeq(body, 0 + 1, n)
      BY <1>0, <2>2, <3>3, ConcatEmptySeq
    <3> QED BY <2>1, <3>4
  <2>4. CASE ~HasContent(s.lines)
    <3>1. Closed(Stem, s) = s.raw
      BY <1>2, <2>4 DEF Closed
    <3>2. Held(Closed(Stem, s)) = SubSeq(body, n + 1, n)
      <4>1. n + 1 \in Int /\ n \in Int /\ n < n + 1
        OBVIOUS
      <4>2. SubSeq(body, n + 1, n) = << >>
        BY <4>1, SubSeqEmpty
      <4> QED BY <2>1, <3>1, <4>2, Zenon
    <3>3. ASSUME NEW j \in 1 .. n PROVE Empty(body[j])
      <4>1. /\ Len(SubSeq(body, 1, n)) = n
            /\ \A i \in 1 .. n : SubSeq(body, 1, n)[i] = body[i]
        OBVIOUS
      <4>2. Len(s.lines) = n /\ \A i \in 1 .. n : s.lines[i] = body[i]
        BY <2>2, <4>1, Zenon
      <4>3. j \in DOMAIN s.lines /\ s.lines[j] = body[j]
        BY <1>0, <4>2
      <4> QED BY <2>4, <4>3 DEF HasContent
    <3>4. n \in 0 .. n
      OBVIOUS
    <3> QED BY <3>2, <3>3, <3>4, Zenon
  <2> QED BY <2>3, <2>4
<1> QED BY <1>1, <1>2

(* Nor does reading a line.                                                 *)
LEMMA ReadHolds ==
  ASSUME NEW body \in Seq(Lines), NEW n \in 1 .. Len(body),
         NEW s \in Parser, s.raw \in Seq(Documented),
         NEW k \in 0 .. n - 1, HoldsFrom(body, n - 1, s, k)
  PROVE  /\ Read(Stem, s, body[n]).raw \in Seq(Documented)
         /\ \E m \in 0 .. n : HoldsFrom(body, n, Read(Stem, s, body[n]), m)
<1> DEFINE line == body[n]
           t == Read(Stem, s, line)
<1>0. /\ line \in Lines /\ s.lines \in Seq(Lines) /\ Held(s.raw) \in Seq(Lines)
      /\ s.raw \in Seq(RawSection)
  <2>1. Held(s.raw) \in Seq(Lines)
    <3>1. PICK section \in Documented : TRUE
      BY ClosedDocumented
    <3> QED BY HeldAppend
  <2> QED BY <2>1 DEF Parser
<1>1. ASSUME NEW m \in 0 .. n - 1
      PROVE  SubSeq(body, m + 1, n - 1) \o <<line>> = SubSeq(body, m + 1, n)
  <2>1. m + 1 \in 1 .. Len(body) /\ n \in m + 1 .. Len(body)
    OBVIOUS
  <2> QED BY <2>1, SubSeqRecursiveSecond
<1>2. CASE s.fence = NoFence /\ line.kind = "heading"
  <2>1. PICK m \in 0 .. n - 1 : /\ Held(Closed(Stem, s)) = SubSeq(body, m + 1, n - 1)
                                /\ \A j \in 1 .. m : Empty(body[j])
    <3>1. n - 1 \in 0 .. Len(body)
      OBVIOUS
    <3> QED BY <3>1, ClosedHolds
  <2>2. t.raw = Closed(Stem, s) /\ t.lines = <<line>> /\ t.heading = line
    <3>1. t = [s EXCEPT !.heading = line, !.lines = <<line>>, !.raw = Closed(Stem, s)]
      BY <1>2 DEF Read
    <3> QED BY <3>1 DEF Parser
  <2>3. t.heading # NoHeading
    BY <1>0, <1>2, <2>2, HeadsAre DEF Heads
  <2>4. Held(t.raw) \o t.lines = SubSeq(body, m + 1, n)
    <3> HIDE DEF t, line
    <3>1. SubSeq(body, m + 1, n - 1) \o <<line>> = SubSeq(body, m + 1, n)
      BY <1>1
    <3> QED BY <2>1, <2>2, <3>1, Zenon
  <2>5. t.raw \in Seq(Documented)
    BY <2>2, ClosedDocumented
  <2>6. HoldsFrom(body, n, t, m)
    BY <2>1, <2>3, <2>4 DEF HoldsFrom
  <2>7. m \in 0 .. n
    OBVIOUS
  <2> HIDE DEF t
  <2> QED BY <2>5, <2>6, <2>7 DEF t
<1>3. CASE ~(s.fence = NoFence /\ line.kind = "heading")
  <2>1. t.raw = s.raw /\ t.lines = Append(s.lines, line) /\ t.heading = s.heading
    BY <1>3 DEF Read, Parser
  <2>2. Held(s.raw) \o Append(s.lines, line) = (Held(s.raw) \o s.lines) \o <<line>>
    <3> HIDE DEF line
    <3>1. Append(s.lines, line) = s.lines \o <<line>>
      BY <1>0, AppendIsConcat
    <3>a. <<line>> \in Seq(Lines)
      BY <1>0
    <3>2. (Held(s.raw) \o s.lines) \o <<line>> = Held(s.raw) \o (s.lines \o <<line>>)
      <4> DEFINE a == Held(s.raw)
                 b == s.lines
                 c == <<line>>
      <4>1. a \in Seq(Lines) /\ b \in Seq(Lines) /\ c \in Seq(Lines)
        BY <1>0, <3>a
      <4> HIDE DEF a, b, c
      <4>2. (a \o b) \o c = a \o (b \o c)
        BY ONLY <4>1
      <4> QED BY <4>2 DEF a, b, c
    <3> QED BY <3>1, <3>2, Zenon
  <2>3. Held(t.raw) \o t.lines = SubSeq(body, k + 1, n)
    <3> HIDE DEF t, line
    <3>1. SubSeq(body, k + 1, n - 1) \o <<line>> = SubSeq(body, k + 1, n)
      BY <1>1
    <3> QED BY <2>1, <2>2, <3>1, Zenon DEF HoldsFrom
  <2>4. HoldsFrom(body, n, t, k)
    <3> HIDE DEF t, line
    <3> QED BY <2>1, <2>3 DEF HoldsFrom
  <2>5. k \in 0 .. n
    OBVIOUS
  <2> HIDE DEF t
  <2> QED BY <2>1, <2>4, <2>5 DEF t
<1> QED BY <1>2, <1>3

(* The sections hold the body but for a preamble of empty lines.            *)
LEMMA RawSectionsHold ==
  ASSUME NEW body \in Seq(Lines)
  PROVE  LET raw == Closed(Stem, Reading(Stem, body)[Len(body)]) IN
         /\ raw \in Seq(Documented)
         /\ \E m \in 0 .. Len(body) : /\ Held(raw) = SubSeq(body, m + 1, Len(body))
                                     /\ \A j \in 1 .. m : Empty(body[j])
<1> DEFINE f == Reading(Stem, body)
           n == Len(body)
           P == {i \in 0 .. n : f[i].raw \in Seq(Documented)
                                /\ \E k \in 0 .. i : HoldsFrom(body, i, f[i], k)}
<1>0. /\ n \in Nat /\ f \in [0 .. n -> Parser] /\ f[0] = Start
      /\ \A i \in 1 .. n : f[i] = Read(Stem, f[i - 1], body[i])
  BY ReadingIs
<1> HIDE DEF f
<1>1. 0 \in P
  <2>1. /\ Start.raw = << >> /\ Start.lines = << >> /\ Start.heading = NoHeading
        /\ << >> \in Seq(Documented)
    BY DEF Start
  <2>2. Held(<< >>) = << >>
    <3>2. [i \in DOMAIN << >> |-> OwnLines(<< >>[i])] = << >>
      OBVIOUS
    <3> QED BY <3>2, FlattenEmpty, Zenon DEF Held
  <2>3. SubSeq(body, 0 + 1, 0) = << >>
    <3>1. 0 + 1 \in Int /\ 0 \in Int /\ 0 < 0 + 1
      OBVIOUS
    <3> QED BY <3>1, SubSeqEmpty
  <2>a. << >> \o << >> = << >>
    OBVIOUS
  <2>b. Held(Start.raw) \o Start.lines = SubSeq(body, 0 + 1, 0)
    BY <2>1, <2>2, <2>3, <2>a, Zenon
  <2>c. \A j \in 1 .. 0 : Empty(body[j])
    OBVIOUS
  <2>4. HoldsFrom(body, 0, Start, 0)
    BY <2>1, <2>b, <2>c, Zenon DEF HoldsFrom
  <2>5. f[0].raw \in Seq(Documented) /\ HoldsFrom(body, 0, f[0], 0)
    BY <1>0, <2>1, <2>4, Zenon
  <2>6. \E k \in 0 .. 0 : HoldsFrom(body, 0, f[0], k)
    BY <2>5
  <2> QED BY <1>0, <2>5, <2>6
<1>2. ASSUME NEW i \in 1 .. n, i - 1 \in P
      PROVE  i \in P
  <2>1. PICK k \in 0 .. i - 1 : HoldsFrom(body, i - 1, f[i - 1], k)
    BY <1>2
  <2>2. f[i - 1] \in Parser /\ f[i - 1].raw \in Seq(Documented)
    BY <1>0, <1>2
  <2>3. /\ f[i].raw \in Seq(Documented)
        /\ \E m \in 0 .. i : HoldsFrom(body, i, f[i], m)
    BY <1>0, <2>1, <2>2, ReadHolds
  <2> QED BY <1>0, <2>3
<1>3. \A i \in 0 .. n : i \in P
  <2> HIDE DEF P
  <2> QED BY <1>0, <1>1, <1>2, UpTo
<1>4. PICK k \in 0 .. n : HoldsFrom(body, n, f[n], k)
  BY <1>0, <1>3
<1>5. f[n] \in Parser /\ f[n].raw \in Seq(Documented)
  BY <1>0, <1>3
<1>6. n \in 0 .. n
  BY <1>0
<1> QED BY <1>4, <1>5, <1>6, ClosedHolds, ClosedDocumented DEF f

-----------------------------------------------------------------------------
(* The ancestors of a heading are the first of the stack.                   *)
LEMMA AncestorsTyped ==
  ASSUME NEW stack \in Seq(RawSection), NEW level
  PROVE  Ancestors(stack, level) \in Seq(RawSection)
<1> DEFINE shallow == {i \in DOMAIN stack : stack[i].level < level}
           last == IF shallow = {} THEN 0 ELSE CHOOSE i \in shallow : \A j \in shallow : j <= i
<1>0. Len(stack) \in Nat /\ shallow \subseteq 0 .. Len(stack)
  OBVIOUS
<1>1. last \in 0 .. Len(stack)
  <2> HIDE DEF shallow
  <2>1. CASE shallow = {}
    BY <1>0, <2>1
  <2>2. CASE shallow # {}
    <3>1. \E i \in shallow : \A j \in shallow : j <= i
      BY <1>0, <2>2, Greatest
    <3>2. last \in shallow
      BY <2>2, <3>1
    <3> QED BY <1>0, <3>2
  <2> QED BY <2>1, <2>2
<1>2. Ancestors(stack, level) = SubSeq(stack, 1, last)
  BY DEF Ancestors
<1> HIDE DEF last
<1> QED BY <1>0, <1>1, <1>2

(* The slug a section asks for, and the numbers it may be given.            *)
LEMMA NamedTyped ==
  ASSUME NEW raw, NEW stack \in Seq(RawSection), NEW section \in RawSection
  PROVE  NamedBy(raw, stack, section) \in Slugs
<1> DEFINE slugs == [i \in DOMAIN stack |-> stack[i].slug]
<1>1. slugs \in Seq(Seq(Int))
  <2>1. Len(stack) \in Nat /\ DOMAIN stack = 1 .. Len(stack)
        /\ \A i \in 1 .. Len(stack) : stack[i] \in RawSection
    OBVIOUS
  <2>2. \A s \in RawSection : s.slug \in Seq(Int)
    BY DEF RawSection, Slugs
  <2>3. \A i \in 1 .. Len(stack) : stack[i].slug \in Seq(Int)
    BY <2>1, <2>2
  <2> QED BY <2>1, <2>3
<1>2. FlattenSeq(slugs) \in Seq(Int)
  <2> HIDE DEF slugs
  <2>1. << >> \in Seq(Int)
    OBVIOUS
  <2> QED BY <1>1, <2>1, FlattenAppend
<1>3. section.slug \in Seq(Int)
  BY DEF RawSection, Slugs
<1>4. FlattenSeq(slugs) \o section.slug \in Seq(Int)
  <2> HIDE DEF slugs
  <2> QED BY <1>2, <1>3, ConcatProperties
<1>5. NamedBy(raw, stack, section) \in {FlattenSeq(slugs) \o section.slug, section.slug}
  BY DEF NamedBy
<1> HIDE DEF slugs
<1> QED BY <1>3, <1>4, <1>5 DEF Slugs

LEMMA NumbersFromTwo ==
  ASSUME NEW c \in Nat
  PROVE  IsFiniteSet(2 .. c + 2) /\ Cardinality(2 .. c + 2) = c + 1
<1>1. PICK d \in Int : d = c + 2
  OBVIOUS
<1>2. 2 \in Int
  OBVIOUS
<1>3. IsFiniteSet(2 .. d) /\ Cardinality(2 .. d) = IF 2 > d THEN 0 ELSE d - 2 + 1
  BY <1>2, FS_Interval
<1>4. Cardinality(2 .. d) = c + 1
  BY <1>1, <1>3
<1> QED BY <1>1, <1>3, <1>4

(* Of more numbers than there are slugs one is free.                        *)
LEMMA UniqueIsFree ==
  ASSUME NEW slug \in Slugs, NEW used, IsFiniteSet(used)
  PROVE  UniqueSlug(slug, used) \in Slugs /\ UniqueSlug(slug, used) \notin used
<1>1. CASE slug \notin used
  BY <1>1 DEF UniqueSlug
<1>2. CASE slug \in used
  <2> DEFINE c == Cardinality(used)
             S == 2 .. c + 2
             T == {n \in S : Append(slug, n) \notin used}
             Right(n) == Append(slug, n) \notin used /\ \A m \in 2 .. n - 1 : Append(slug, m) \in used
  <2>1. c \in Nat
    BY FS_CardinalityType
  <2>2. ASSUME NEW x \in Int, NEW y \in Int, Append(slug, x) = Append(slug, y)
        PROVE  x = y
    <3>1. /\ Append(slug, x)[Len(slug) + 1] = x
          /\ Append(slug, y)[Len(slug) + 1] = y
      BY DEF Slugs
    <3> QED BY <2>2, <3>1
  <2>3. T # {}
    <3> SUFFICES ASSUME T = {} PROVE FALSE
      OBVIOUS
    <3> DEFINE f == [n \in S |-> Append(slug, n)]
    <3>1. f \in [S -> used]
      OBVIOUS
    <3>2. IsFiniteSet(S) /\ Cardinality(S) = c + 1
      BY <2>1, NumbersFromTwo
    <3> HIDE DEF f, S
    <3>3. \E x, y \in S : x # y /\ f[x] = f[y]
      <4>1. Cardinality(used) < Cardinality(S)
        BY <2>1, <3>2
      <4> QED BY <3>1, <3>2, <4>1, FS_PigeonHole
    <3>4. PICK x \in S, y \in S : x # y /\ f[x] = f[y]
      BY <3>3
    <3>5. x \in Int /\ y \in Int /\ Append(slug, x) = Append(slug, y)
      BY <2>1, <3>4 DEF f, S
    <3> QED BY <2>2, <3>4, <3>5
  <2>4. PICK n \in T : \A m \in T : n <= m
    <3>1. T \in SUBSET Nat
      BY <2>1
    <3> HIDE DEF T
    <3> QED BY <2>3, <3>1, LeastOf
  <2>5. n \in S /\ Right(n)
    BY <2>1, <2>4
  <2> DEFINE k == CHOOSE m \in S : Right(m)
  <2>6. k \in S /\ Right(k)
    <3> HIDE DEF S, Right
    <3> QED BY <2>5
  <2>7. UniqueSlug(slug, used) = Append(slug, k)
    BY <1>2 DEF UniqueSlug
  <2>8. k \in Int /\ Append(slug, k) \notin used
    BY <2>1, <2>6
  <2> HIDE DEF k
  <2> QED BY <2>7, <2>8 DEF Slugs
<1> QED BY <1>1, <1>2

(* What is held while the slugs are assigned.                               *)
NamingState ==
  {st \in [used: SUBSET Slugs, stack: Seq(RawSection), sections: Seq(RawSection)] :
     IsFiniteSet(st.used)}

NothingNamed == [used |-> {}, stack |-> << >>, sections |-> << >>]

(* A section gets a slug no other has.                                      *)
AssignedTo(st, section, t) ==
  \E slug \in Slugs \ st.used :
    /\ t.used = st.used \cup {slug}
    /\ t.sections = Append(st.sections, [section EXCEPT !.slug = slug])

(* One section: it is given a slug not in use, and keeps its lines.         *)
LEMMA AssignIs ==
  ASSUME NEW raw, NEW st \in NamingState, NEW section \in RawSection
  PROVE  Assign(raw, st, section) \in NamingState
         /\ AssignedTo(st, section, Assign(raw, st, section))
<1> DEFINE stack == Ancestors(st.stack, section.level)
           slug  == UniqueSlug(NamedBy(raw, stack, section), st.used)
           named == [section EXCEPT !.slug = slug]
           t == [used |-> st.used \cup {slug}, stack |-> Append(stack, named),
                 sections |-> Append(st.sections, named)]
<1>0. /\ st.used \subseteq Slugs /\ st.stack \in Seq(RawSection)
      /\ st.sections \in Seq(RawSection) /\ IsFiniteSet(st.used)
  BY DEF NamingState
<1>1. Assign(raw, st, section) = t
  BY DEF Assign
<1>2. stack \in Seq(RawSection)
  BY <1>0, AncestorsTyped
<1> HIDE DEF stack
<1>3. slug \in Slugs \ st.used
  BY <1>0, <1>2, NamedTyped, UniqueIsFree
<1> HIDE DEF slug
<1>4. named \in RawSection
  BY <1>3 DEF RawSection
<1>5. IsFiniteSet(st.used \cup {slug})
  BY <1>0, FS_AddElement
<1>6. AssignedTo(st, section, t)
  BY <1>3 DEF AssignedTo
<1> HIDE DEF named
<1>7. t \in NamingState
  <2>1. Append(stack, named) \in Seq(RawSection) /\ Append(st.sections, named) \in Seq(RawSection)
    BY <1>0, <1>2, <1>4
  <2> QED BY <1>0, <1>3, <1>5, <2>1 DEF NamingState
<1> QED BY <1>1, <1>6, <1>7

(* The naming, as the recursive function it is defined as.                  *)
LEMMA NamingIs ==
  ASSUME NEW raw \in Seq(RawSection)
  PROVE  LET f == Naming(raw) IN
         /\ f \in [0 .. Len(raw) -> NamingState]
         /\ f[0] = NothingNamed
         /\ \A i \in 1 .. Len(raw) : f[i] = Assign(raw, f[i - 1], raw[i])
<1> DEFINE n == Len(raw)
           g == [i \in 1 .. n |-> [s \in NamingState |-> Assign(raw, s, raw[i])]]
           Is(h) == h = [i \in 0 .. n |->
                           IF i = 0 THEN NothingNamed ELSE Assign(raw, h[i - 1], raw[i])]
           f == Naming(raw)
<1>0. n \in Nat /\ \A i \in 1 .. n : raw[i] \in RawSection
  OBVIOUS
<1>1. NothingNamed \in NamingState
  <2>1. IsFiniteSet({})
    BY FS_EmptySet
  <2>2. << >> \in Seq(RawSection) /\ {} \in SUBSET Slugs
    OBVIOUS
  <2>3. NothingNamed \in [used: SUBSET Slugs, stack: Seq(RawSection), sections: Seq(RawSection)]
    BY <2>2 DEF NothingNamed
  <2>4. NothingNamed.used = {}
    BY DEF NothingNamed
  <2> QED BY <2>1, <2>3, <2>4 DEF NamingState
<1>2. PICK h \in [0 .. n -> NamingState] : Unfolds(h, n, NothingNamed, g)
  <2>1. g \in [1 .. n -> [NamingState -> NamingState]]
    BY <1>0, AssignIs
  <2> HIDE DEF g
  <2> QED BY <1>0, <1>1, <2>1, Recursion
<1>3. h[0] = NothingNamed /\ \A i \in 1 .. n : h[i] = Assign(raw, h[i - 1], raw[i])
  BY <1>0, <1>2 DEF Unfolds
<1>4. Is(h)
  BY <1>0, <1>2, <1>3
<1>5. f = CHOOSE k : Is(k)
  BY DEF Naming, NothingNamed
<1>6. Is(f)
  <2> HIDE DEF Is, f
  <2> QED BY <1>4, <1>5
<1>7. f[0] = NothingNamed /\ \A i \in 1 .. n : f[i] = Assign(raw, f[i - 1], raw[i])
  <2> HIDE DEF f
  <2> QED BY <1>0, <1>6
<1>8. DOMAIN f = 0 .. n /\ f = [i \in 0 .. n |-> f[i]]
  <2> HIDE DEF f
  <2> QED BY <1>6
<1> DEFINE P == {i \in 0 .. n : f[i] \in NamingState}
<1>9. \A i \in 0 .. n : i \in P
  <2> HIDE DEF f
  <2>1. ASSUME NEW i \in 1 .. n, i - 1 \in P PROVE i \in P
    BY <1>0, <1>7, <2>1, AssignIs
  <2>2. 0 \in P
    BY <1>0, <1>1, <1>7
  <2> HIDE DEF P
  <2> QED BY <1>0, <2>1, <2>2, UpTo
<1> HIDE DEF f
<1> QED BY <1>7, <1>8, <1>9 DEF f

-----------------------------------------------------------------------------
(* The first n sections have been named: each keeps its lines and has a     *)
(* slug that is used up, and no two have the same.                          *)
NamedUpTo(raw, n, st) ==
  /\ Len(st.sections) = n
  /\ \A i \in 1 .. n : st.sections[i].lines = raw[i].lines /\ st.sections[i].slug \in st.used
  /\ \A i, j \in 1 .. n : st.sections[i].slug = st.sections[j].slug => i = j

(* One more section named: the slugs given are still distinct.              *)
LEMMA AssignNames ==
  ASSUME NEW raw \in Seq(RawSection), NEW n \in 1 .. Len(raw),
         NEW st \in NamingState, NamedUpTo(raw, n - 1, st),
         NEW t \in NamingState, AssignedTo(st, raw[n], t)
  PROVE  NamedUpTo(raw, n, t)
<1> DEFINE section == raw[n]
<1>0. n \in Nat \ {0} /\ section \in RawSection /\ st.sections \in Seq(RawSection)
      /\ Len(st.sections) = n - 1
  BY DEF NamingState, NamedUpTo
<1>1. PICK slug \in Slugs \ st.used :
        /\ t.used = st.used \cup {slug}
        /\ t.sections = Append(st.sections, [section EXCEPT !.slug = slug])
  BY DEF AssignedTo
<1> HIDE DEF section
<1>2. PICK named \in RawSection : /\ t.sections = Append(st.sections, named)
                                  /\ named.slug = slug /\ named.lines = section.lines
  <2>1. [section EXCEPT !.slug = slug] \in RawSection
    BY <1>0, <1>1 DEF RawSection
  <2>2. [section EXCEPT !.slug = slug].slug = slug
        /\ [section EXCEPT !.slug = slug].lines = section.lines
    BY <1>0 DEF RawSection
  <2> QED BY <1>1, <2>1, <2>2
<1>3. /\ Len(t.sections) = n
      /\ \A i \in 1 .. n - 1 : t.sections[i] = st.sections[i]
      /\ t.sections[n] = named
  BY <1>0, <1>2, AppendProperties
<1>4. \A i \in 1 .. n - 1 : /\ t.sections[i].lines = raw[i].lines
                            /\ t.sections[i].slug \in st.used
  BY <1>3 DEF NamedUpTo
<1>5. t.sections[n].slug = slug /\ t.sections[n].lines = raw[n].lines
  BY <1>2, <1>3 DEF section
<1>6. \A i \in 1 .. n : i = n \/ i \in 1 .. n - 1
  BY <1>0
<1>7. \A i \in 1 .. n : t.sections[i].lines = raw[i].lines /\ t.sections[i].slug \in t.used
  BY <1>1, <1>4, <1>5, <1>6
<1>8. ASSUME NEW i \in 1 .. n, NEW j \in 1 .. n, t.sections[i].slug = t.sections[j].slug
      PROVE  i = j
  <2>1. CASE i \in 1 .. n - 1 /\ j \in 1 .. n - 1
    <3>1. st.sections[i].slug = st.sections[j].slug
      BY <1>3, <1>8, <2>1
    <3> QED BY <2>1, <3>1 DEF NamedUpTo
  <2>2. CASE (i = n) # (j = n)
    BY <1>1, <1>4, <1>5, <1>6, <1>8, <2>2
  <2> QED BY <1>6, <2>1, <2>2
<1> QED BY <1>3, <1>7, <1>8 DEF NamedUpTo

(* So are those of all sections.                                            *)
LEMMA NamesDiffer ==
  ASSUME NEW raw \in Seq(RawSection)
  PROVE  LET st == Naming(raw)[Len(raw)] IN
         /\ st.sections \in Seq(RawSection)
         /\ NamedUpTo(raw, Len(raw), st)
<1> DEFINE f == Naming(raw)
           n == Len(raw)
           P == {i \in 0 .. n : NamedUpTo(raw, i, f[i])}
<1>0. /\ n \in Nat /\ f \in [0 .. n -> NamingState] /\ f[0] = NothingNamed
      /\ \A i \in 1 .. n : f[i] = Assign(raw, f[i - 1], raw[i])
  BY NamingIs
<1> HIDE DEF f
<1>1. 0 \in P
  BY <1>0 DEF NamedUpTo, NothingNamed
<1>2. ASSUME NEW i \in 1 .. n, i - 1 \in P
      PROVE  i \in P
  <2>1. /\ f[i - 1] \in NamingState /\ f[i] \in NamingState
        /\ NamedUpTo(raw, i - 1, f[i - 1])
        /\ raw[i] \in RawSection /\ f[i] = Assign(raw, f[i - 1], raw[i])
    BY <1>0, <1>2
  <2>2. AssignedTo(f[i - 1], raw[i], f[i])
    BY <2>1, AssignIs
  <2>3. NamedUpTo(raw, i, f[i])
    BY <2>1, <2>2, AssignNames
  <2> QED BY <1>0, <2>3
<1>3. \A i \in 0 .. n : i \in P
  <2> HIDE DEF P
  <2> QED BY <1>0, <1>1, <1>2, UpTo
<1>4. n \in 0 .. n
  BY <1>0
<1>5. f[n] \in NamingState /\ NamedUpTo(raw, n, f[n])
  BY <1>0, <1>3, <1>4
<1> QED BY <1>5 DEF f, NamingState

(* What is taken off the head of a document.                                *)
LEMMA StripIs ==
  ASSUME NEW lines \in Seq(Lines)
  PROVE  \E d \in 0 .. Len(lines) :
           /\ StripFrontmatter(lines) = SubSeq(lines, d + 1, Len(lines))
           /\ \A i \in MetadataEnd(lines) + 1 .. d : lines[i].kind = "blank"
           /\ MetadataEnd(lines) \in 0 .. d
<1> DEFINE n == Len(lines)
           m == MetadataEnd(lines)
           rest == SubSeq(lines, m + 1, n)
           first == {i \in DOMAIN rest : rest[i].kind # "blank"}
<1>0. n \in Nat
  OBVIOUS
<1>1. m \in 0 .. n
  <2> DEFINE rules == {i \in 2 .. n : lines[i].kind = "rule"}
             close == CHOOSE i \in rules : \A j \in rules : i <= j
  <2>1. m = 0 \/ (rules # {} /\ m = close)
    BY DEF MetadataEnd
  <2>2. CASE rules # {}
    <3>1. rules \in SUBSET Nat /\ rules \subseteq 0 .. n
      BY <1>0
    <3> HIDE DEF rules
    <3>2. \E i \in rules : \A j \in rules : i <= j
      BY <2>2, <3>1, LeastOf
    <3>3. close \in rules
      BY <3>2
    <3> HIDE DEF close, m
    <3> QED BY <1>0, <2>1, <3>1, <3>3
  <2> HIDE DEF rules, close, m
  <2> QED BY <1>0, <2>1, <2>2
<1> HIDE DEF m
<1>2. /\ Len(rest) = n - m
      /\ \A i \in 1 .. n - m : rest[i] = lines[m + i]
      /\ rest \in Seq(Lines)
  BY <1>0, <1>1
<1>3. CASE m = 0
  <2>1. StripFrontmatter(lines) = lines
    BY <1>3 DEF StripFrontmatter, m
  <2>2. lines = SubSeq(lines, 1, n)
    BY SubSeqFull
  <2>3. StripFrontmatter(lines) = SubSeq(lines, 0 + 1, n)
    BY <2>1, <2>2
  <2> QED BY <1>0, <1>3, <2>3 DEF m
<1>4. CASE m # 0 /\ first = {}
  <2>1. StripFrontmatter(lines) = << >>
    BY <1>4 DEF StripFrontmatter, m
  <2>2. SubSeq(lines, n + 1, n) = << >>
    <3>1. n + 1 \in Int /\ n \in Int /\ n < n + 1
      BY <1>0
    <3> QED BY <3>1, SubSeqEmpty
  <2>3. ASSUME NEW i \in m + 1 .. n PROVE lines[i].kind = "blank"
    <3>1. i - m \in 1 .. n - m /\ m + (i - m) = i
      BY <1>0, <1>1
    <3>2. rest[i - m] = lines[i] /\ i - m \in DOMAIN rest
      BY <1>2, <3>1
    <3> QED BY <1>4, <3>2
  <2>4. n \in 0 .. n /\ m \in 0 .. n
    BY <1>0, <1>1
  <2> QED BY <2>1, <2>2, <2>3, <2>4 DEF m
<1>5. CASE m # 0 /\ first # {}
  <2> DEFINE Right(i) == \A j \in first : i <= j
             p == CHOOSE i \in first : Right(i)
  <2>1. p \in first /\ Right(p)
    <3>1. first \in SUBSET Nat
      BY <1>0, <1>2
    <3> HIDE DEF first
    <3>2. \E i \in first : Right(i)
      BY <1>5, <3>1, LeastOf
    <3> HIDE DEF Right
    <3> QED BY <3>2
  <2>2. StripFrontmatter(lines) = SubSeq(rest, p, Len(rest))
    BY <1>5 DEF StripFrontmatter, m
  <2>3. p \in 1 .. n - m
    BY <1>2, <2>1
  <2>4. ASSUME NEW i \in m + 1 .. m + p - 1 PROVE lines[i].kind = "blank"
    <3>1. i - m \in 1 .. n - m /\ m + (i - m) = i /\ ~(p <= i - m)
      <4> HIDE DEF p
      <4> QED BY <1>0, <1>1, <2>3
    <3>2. rest[i - m] = lines[i] /\ i - m \in DOMAIN rest
      BY <1>2, <3>1
    <3>3. i - m \notin first
      BY <2>1, <3>1
    <3> QED BY <3>2, <3>3
  <2> HIDE DEF p, first
  <2>5. SubSeq(rest, p, n - m) = SubSeq(lines, m + p, n)
    <3> HIDE DEF rest
    <3>0. m + p \in Nat
      BY <1>0, <1>1, <2>3
    <3>1. PICK b \in Nat : b = m + p
      BY <3>0
    <3>2. /\ p \in Nat \ {0} /\ n - Len(rest) = m
          /\ p <= Len(rest) + 1 /\ b = n - Len(rest) + p /\ Len(rest) <= n
      BY <1>0, <1>1, <1>2, <2>3, <3>1
    <3>3. lines \in Seq(Lines) /\ rest \in Seq(Lines)
      BY <1>0, <1>2
    <3>4. \A i \in 1 .. Len(rest) : rest[i] = lines[n - Len(rest) + i]
      BY <1>2, <3>2
    <3>5. SubSeq(rest, p, Len(rest)) = SubSeq(lines, b, n)
      BY <3>2, <3>3, <3>4, SubSeqShifted
    <3> QED BY <1>2, <3>1, <3>5
  <2> DEFINE d == m + p - 1
  <2>6. d \in 0 .. n /\ d + 1 = m + p /\ m \in 0 .. d
    BY <1>0, <1>1, <2>3
  <2>7. StripFrontmatter(lines) = SubSeq(lines, d + 1, n)
    BY <1>2, <2>2, <2>5, <2>6
  <2> HIDE DEF d
  <2>8. \A i \in m + 1 .. d : lines[i].kind = "blank"
    BY <2>4 DEF d
  <2> QED BY <2>6, <2>7, <2>8 DEF m
<1> QED BY <1>3, <1>4, <1>5

(* The sections have distinct slugs, and hold the document.                 *)
LEMMA SectionsAreSound ==
  ASSUME NEW lines \in Seq(Lines)
  PROVE  SlugsDistinct(Stem, lines) /\ NothingLost(Stem, lines)
<1> DEFINE body == StripFrontmatter(lines)
           raw == RawSections(Stem, lines)
           sections == ParseSections(Stem, lines)
           n == Len(lines)
           e == MetadataEnd(lines)
<1>1. PICK d \in 0 .. n : /\ body = SubSeq(lines, d + 1, n)
                          /\ \A i \in e + 1 .. d : lines[i].kind = "blank"
                          /\ e \in 0 .. d
  BY StripIs
<1>2. /\ n \in Nat
      /\ body \in Seq(Lines) /\ Len(body) = n - d
      /\ \A i \in 1 .. n - d : body[i] = lines[d + i]
  BY <1>1
<1>3. raw = Closed(Stem, Reading(Stem, body)[Len(body)])
  BY DEF RawSections
<1> HIDE DEF body
<1>4. /\ raw \in Seq(Documented)
      /\ \E m \in 0 .. Len(body) : /\ Held(raw) = SubSeq(body, m + 1, Len(body))
                                  /\ \A j \in 1 .. m : Empty(body[j])
  BY <1>2, <1>3, RawSectionsHold
<1>5. sections = Naming(raw)[Len(raw)].sections
  BY DEF ParseSections
<1> HIDE DEF raw, sections
<1>6. raw \in Seq(RawSection)
  <2>1. Documented \subseteq RawSection
    BY DEF Documented
  <2> QED BY <1>4, <2>1, SeqMonotonic
<1>7. /\ sections \in Seq(RawSection) /\ Len(sections) = Len(raw)
      /\ \A i \in 1 .. Len(raw) : sections[i].lines = raw[i].lines
      /\ \A i, j \in 1 .. Len(raw) : sections[i].slug = sections[j].slug => i = j
  BY <1>5, <1>6, NamesDiffer DEF NamedUpTo
<1>8. SlugsDistinct(Stem, lines)
  <2>1. DOMAIN sections = 1 .. Len(raw)
    BY <1>7
  <2> QED BY <1>7, <2>1 DEF SlugsDistinct, sections
<1>9. Held(sections) = Held(raw)
  <2>1. DOMAIN sections = DOMAIN raw
        /\ \A i \in DOMAIN raw : sections[i].lines = raw[i].lines
    BY <1>6, <1>7
  <2>2. \A i \in DOMAIN raw : OwnLines(sections[i]) = OwnLines(raw[i])
    BY <2>1, Zenon DEF OwnLines
  <2>3. [i \in DOMAIN sections |-> OwnLines(sections[i])]
          = [i \in DOMAIN raw |-> OwnLines(raw[i])]
    BY <2>1, <2>2
  <2> QED BY <2>3, Zenon DEF Held
<1>10. PICK m \in 0 .. n - d : /\ Held(raw) = SubSeq(body, m + 1, n - d)
                               /\ \A j \in 1 .. m : Empty(body[j])
  BY <1>2, <1>4
<1>11. SubSeq(body, m + 1, n - d) = SubSeq(lines, d + m + 1, n)
       /\ Len(SubSeq(lines, d + m + 1, n)) = n - (d + m)
  <2>0. m + 1 \in Nat /\ d + m + 1 \in Nat
    BY <1>2
  <2>a. PICK a \in Nat : a = m + 1
    BY <2>0
  <2>b. PICK b \in Nat : b = d + m + 1
    BY <2>0
  <2>1. /\ a \in Nat \ {0} /\ n - Len(body) = d
        /\ a <= Len(body) + 1 /\ b = n - Len(body) + a /\ Len(body) <= n
    BY <1>2, <2>a, <2>b
  <2>2. lines \in Seq(Lines) /\ body \in Seq(Lines)
    BY <1>2
  <2>3. \A i \in 1 .. Len(body) : body[i] = lines[n - Len(body) + i]
    BY <1>2, <2>1
  <2>4. /\ SubSeq(body, a, Len(body)) = SubSeq(lines, b, n)
        /\ Len(SubSeq(lines, b, n)) = n - b + 1
    BY <2>1, <2>2, <2>3, SubSeqShifted
  <2>5. n - b + 1 = n - (d + m)
    BY <1>2, <2>b
  <2> QED BY <1>2, <2>a, <2>b, <2>4, <2>5
<1>12. NothingLost(Stem, lines)
  <2> DEFINE read == FlattenSeq([i \in DOMAIN sections |-> OwnLines(sections[i])])
             skipped == n - Len(read)
  <2>1. read = SubSeq(lines, d + m + 1, n)
    BY <1>9, <1>10, <1>11, Zenon DEF Held
  <2> HIDE DEF read
  <2>a. Len(read) = n - (d + m)
    BY <1>11, <2>1, Zenon
  <2>2. skipped = d + m
    BY <1>1, <1>2, <1>10, <2>a
  <2> HIDE DEF skipped
  <2>3. ASSUME NEW i \in e + 1 .. skipped PROVE Empty(lines[i])
    <3>1. CASE i <= d
      <4>1. i \in e + 1 .. d
        BY <1>1, <1>2, <2>2, <3>1
      <4> QED BY <1>1, <4>1 DEF Empty
    <3>2. CASE ~(i <= d)
      <4>1. i - d \in 1 .. m /\ i - d \in 1 .. n - d /\ d + (i - d) = i
        BY <1>1, <1>2, <2>2, <3>2
      <4> QED BY <1>2, <1>10, <4>1
    <3> QED BY <3>1, <3>2
  <2>4. read = SubSeq(lines, skipped + 1, n)
    BY <2>1, <2>2
  <2>5. LET r == FlattenSeq([i \in DOMAIN sections |-> OwnLines(sections[i])])
            k == n - Len(r)
        IN  /\ r = SubSeq(lines, k + 1, n)
            /\ \A i \in e + 1 .. k : Empty(lines[i])
    <3>1. /\ read = SubSeq(lines, skipped + 1, n)
          /\ \A i \in e + 1 .. skipped : Empty(lines[i])
      BY <2>3, <2>4
    <3> QED BY <3>1, Zenon DEF read, skipped
  <2> QED BY <2>5, Zenon DEF NothingLost, sections
<1> QED BY <1>8, <1>12

-----------------------------------------------------------------------------
(* Sorting. *)

(* A strict and total order on a set, as a set of pairs.                    *)
Orders(S, R) ==
  /\ \A x \in S : <<x, x>> \notin R
  /\ \A x, y, z \in S : <<x, y>> \in R /\ <<y, z>> \in R => <<x, z>> \in R
  /\ \A x, y \in S : x = y \/ <<x, y>> \in R \/ <<y, x>> \in R

(* A finite set is sorted by it: every element has one place.               *)
LEMMA SortedIs ==
  ASSUME NEW S, IsFiniteSet(S), NEW R, Orders(S, R)
  PROVE  LET o == Sorted(S, R) IN
         /\ o \in [1 .. Cardinality(S) -> S]
         /\ Cardinality(S) \in Nat
         /\ \A x \in S : \E i \in 1 .. Cardinality(S) : o[i] = x
         /\ \A i, j \in 1 .. Cardinality(S) : i < j => <<o[i], o[j]>> \in R
<1> DEFINE n == Cardinality(S)
           Below(x) == {y \in S : <<y, x>> \in R}
           rank == [x \in S |-> Cardinality(Below(x))]
           o == Sorted(S, R)
<1>0. n \in Nat
  BY FS_CardinalityType
<1>1. ASSUME NEW x \in S
      PROVE  /\ IsFiniteSet(Below(x)) /\ rank[x] \in Nat /\ x \notin Below(x)
             /\ IsFiniteSet(Below(x) \cup {x})
             /\ Cardinality(Below(x) \cup {x}) = rank[x] + 1
  <2>1. Below(x) \subseteq S
    OBVIOUS
  <2>2. x \notin Below(x)
    BY DEF Orders
  <2>3. rank[x] = Cardinality(Below(x))
    OBVIOUS
  <2> HIDE DEF Below, rank
  <2>4. IsFiniteSet(Below(x))
    BY <2>1, FS_Subset
  <2>5. Cardinality(Below(x)) \in Nat
    BY <2>4, FS_CardinalityType
  <2>6. IsFiniteSet(Below(x) \cup {x})
        /\ Cardinality(Below(x) \cup {x}) = Cardinality(Below(x)) + 1
    BY <2>2, <2>4, FS_AddElement
  <2> QED BY <2>2, <2>3, <2>4, <2>5, <2>6
<1>2. ASSUME NEW x \in S, NEW y \in S, <<x, y>> \in R
      PROVE  rank[x] < rank[y]
  <2>1. Below(x) \cup {x} \subseteq Below(y)
    BY <1>2 DEF Orders
  <2>2. rank[y] = Cardinality(Below(y)) /\ IsFiniteSet(Below(y))
    BY <1>1
  <2>3. Cardinality(Below(x) \cup {x}) = rank[x] + 1 /\ rank[x] \in Nat /\ rank[y] \in Nat
    BY <1>1
  <2> HIDE DEF Below, rank
  <2>4. Cardinality(Below(x) \cup {x}) <= Cardinality(Below(y))
    BY <2>1, <2>2, FS_Subset
  <2> QED BY <2>2, <2>3, <2>4
<1>3. ASSUME NEW x \in S
      PROVE  rank[x] \in 0 .. n - 1
  <2>1. Below(x) \cup {x} \subseteq S
    OBVIOUS
  <2>2. Cardinality(Below(x) \cup {x}) = rank[x] + 1 /\ rank[x] \in Nat
    BY <1>1
  <2> HIDE DEF Below, rank
  <2>3. Cardinality(Below(x) \cup {x}) <= Cardinality(S)
    BY <2>1, FS_Subset
  <2> QED BY <1>0, <2>2, <2>3
<1>4. ASSUME NEW x \in S, NEW y \in S, rank[x] = rank[y]
      PROVE  x = y
  <2>1. rank[x] \in Nat /\ rank[y] \in Nat
    BY <1>1
  <2> HIDE DEF rank
  <2>2. ~(<<x, y>> \in R) /\ ~(<<y, x>> \in R)
    BY <1>2, <1>4, <2>1
  <2> QED BY <2>2 DEF Orders
<1>5. ASSUME NEW k \in 0 .. n - 1
      PROVE  \E x \in S : rank[x] = k
  <2> SUFFICES ASSUME \A x \in S : rank[x] # k PROVE FALSE
    OBVIOUS
  <2> DEFINE T == (0 .. n - 1) \ {k}
  <2>1. rank \in [S -> T]
    <3>1. \A x \in S : rank[x] \in T
      BY <1>3
    <3> HIDE DEF T
    <3>2. rank = [x \in S |-> rank[x]]
      OBVIOUS
    <3> HIDE DEF rank
    <3> QED BY <3>1, <3>2
  <2>2. IsFiniteSet(T) /\ Cardinality(T) = n - 1
    <3>1. PICK m \in Int : m = n - 1
      BY <1>0
    <3>2. IsFiniteSet(0 .. m) /\ Cardinality(0 .. m) = IF 0 > m THEN 0 ELSE m - 0 + 1
      <4>1. 0 \in Int /\ m \in Int
        BY <3>1
      <4> QED BY <4>1, FS_Interval
    <3>3. k \in 0 .. m /\ Cardinality(0 .. m) = n
      BY <1>0, <3>1, <3>2
    <3>4. T = (0 .. m) \ {k}
      BY <3>1
    <3> HIDE DEF T
    <3>5. IsFiniteSet(T) /\ Cardinality(T) = Cardinality(0 .. m) - 1
      BY <3>2, <3>3, <3>4, FS_RemoveElement
    <3> QED BY <3>3, <3>5
  <2> HIDE DEF T, rank
  <2>3. \E x, y \in S : x # y /\ rank[x] = rank[y]
    <3>1. Cardinality(T) < Cardinality(S)
      BY <1>0, <2>2
    <3> QED BY <2>1, <2>2, <3>1, FS_PigeonHole
  <2> QED BY <1>4, <2>3
<1>6. o = [i \in 1 .. n |-> CHOOSE x \in S : Cardinality(Below(x)) = i - 1]
  BY DEF Sorted
<1>7. ASSUME NEW i \in 1 .. n
      PROVE  o[i] \in S /\ rank[o[i]] = i - 1
  <2>1. i - 1 \in 0 .. n - 1
    BY <1>0
  <2>2. \E x \in S : Cardinality(Below(x)) = i - 1
    BY <1>5, <2>1
  <2>3. o[i] = CHOOSE x \in S : Cardinality(Below(x)) = i - 1
    BY <1>6
  <2> HIDE DEF o, Below
  <2>4. o[i] \in S /\ Cardinality(Below(o[i])) = i - 1
    BY <2>2, <2>3
  <2> QED BY <2>4
<1>8. o \in [1 .. n -> S]
  <2>1. \A i \in 1 .. n : o[i] \in S
    BY <1>7
  <2>2. o = [i \in 1 .. n |-> o[i]]
    BY <1>6
  <2> HIDE DEF o
  <2> QED BY <2>1, <2>2
<1> HIDE DEF o, rank
<1>9. ASSUME NEW x \in S PROVE \E i \in 1 .. n : o[i] = x
  <2>1. PICK i \in 1 .. n : i - 1 = rank[x]
    <3> DEFINE k == rank[x] + 1
    <3>1. k \in 1 .. n /\ k - 1 = rank[x]
      BY <1>0, <1>3
    <3> HIDE DEF k
    <3> QED BY <3>1
  <2>2. o[i] \in S /\ rank[o[i]] = rank[x]
    BY <1>7, <2>1
  <2>3. o[i] = x
    BY <1>4, <2>2
  <2> QED BY <2>1, <2>3
<1>10. ASSUME NEW i \in 1 .. n, NEW j \in 1 .. n, i < j
       PROVE  <<o[i], o[j]>> \in R
  <2>1. /\ o[i] \in S /\ o[j] \in S /\ rank[o[i]] = i - 1 /\ rank[o[j]] = j - 1
    BY <1>7
  <2>2. o[i] # o[j]
    BY <1>10, <2>1
  <2>3. ~(<<o[j], o[i]>> \in R)
    <3> SUFFICES ASSUME <<o[j], o[i]>> \in R PROVE FALSE
      OBVIOUS
    <3>1. rank[o[j]] < rank[o[i]]
      BY <1>2, <2>1
    <3> QED BY <1>10, <2>1, <3>1
  <2> QED BY <2>1, <2>2, <2>3 DEF Orders
<1> QED BY <1>0, <1>8, <1>9, <1>10 DEF o

-----------------------------------------------------------------------------
(* Sums over a finite set.  The element that CHOOSE counts last.            *)
Picked(s) == CHOOSE x \in s : TRUE

(* f sums w over the subsets of S, element by element.                      *)
Sums(f, w, S) ==
  \A s \in SUBSET S : f[s] = IF s = {} THEN 0 ELSE w[Picked(s)] + f[s \ {Picked(s)}]

(* It is an element, and without it a set is smaller by one.                *)
LEMMA PickedIs ==
  ASSUME NEW s, s # {}
  PROVE  Picked(s) \in s
BY DEF Picked

LEMMA LessOne ==
  ASSUME NEW S, IsFiniteSet(S), NEW s \in SUBSET S, NEW x \in s
  PROVE  /\ IsFiniteSet(s) /\ Cardinality(s) \in Nat \ {0}
         /\ s \ {x} \in SUBSET S /\ IsFiniteSet(s \ {x})
         /\ Cardinality(s \ {x}) = Cardinality(s) - 1
<1>1. IsFiniteSet(s)
  BY FS_Subset
<1>2. IsFiniteSet(s \ {x}) /\ Cardinality(s \ {x}) = Cardinality(s) - 1
  BY <1>1, FS_RemoveElement
<1>3. Cardinality(s) \in Nat /\ Cardinality(s \ {x}) \in Nat
  BY <1>1, <1>2, FS_CardinalityType
<1> QED BY <1>1, <1>2, <1>3

(* There is such a function.                                                *)
LEMMA SumsExist ==
  ASSUME NEW S, IsFiniteSet(S), NEW w \in [S -> Nat]
  PROVE  \E f \in [SUBSET S -> Nat] : Sums(f, w, S)
<1> DEFINE n == Cardinality(S)
           F == [SUBSET S -> Nat]
           Step(h) == [s \in SUBSET S |->
                         IF s = {} THEN 0 ELSE w[Picked(s)] + h[s \ {Picked(s)}]]
           zero == [s \in SUBSET S |-> 0]
           g == [k \in 1 .. n + 1 |-> [h \in F |-> Step(h)]]
<1>0. n \in Nat
  BY FS_CardinalityType
<1>1. ASSUME NEW h \in F PROVE Step(h) \in F
  <2>1. ASSUME NEW s \in SUBSET S, s # {}
        PROVE  w[Picked(s)] + h[s \ {Picked(s)}] \in Nat
    <3>1. Picked(s) \in S
      BY <2>1, PickedIs
    <3>2. s \ {Picked(s)} \in SUBSET S
      OBVIOUS
    <3>3. w[Picked(s)] \in Nat /\ h[s \ {Picked(s)}] \in Nat
      BY <3>1, <3>2
    <3> QED BY <3>3
  <2> QED BY <2>1
<1>2. zero \in F
  OBVIOUS
<1> HIDE DEF Step, zero
<1>3. PICK f \in [0 .. n + 1 -> F] : Unfolds(f, n + 1, zero, g)
  <2> DEFINE m == n + 1
  <2> HIDE DEF F
  <2>1. g \in [1 .. m -> [F -> F]] /\ m \in Nat
    <3>1. [h \in F |-> Step(h)] \in [F -> F]
      BY <1>1
    <3> QED BY <1>0, <3>1
  <2> HIDE DEF g, m
  <2>2. \E f \in [0 .. m -> F] : Unfolds(f, m, zero, g)
    BY <1>2, <2>1, Recursion
  <2> QED BY <2>2 DEF m
<1>4. f[0] = zero /\ \A k \in 1 .. n + 1 : f[k] = Step(f[k - 1])
  <2>1. ASSUME NEW k \in 1 .. n + 1 PROVE f[k] = Step(f[k - 1])
    <3>1. f[k - 1] \in F
      <4>1. k - 1 \in 0 .. n + 1
        BY <1>0
      <4> HIDE DEF F
      <4> QED BY <1>3, <4>1, Zenon
    <3>2. g[k] = [h \in F |-> Step(h)]
      OBVIOUS
    <3> HIDE DEF F, g
    <3>3. f[k] = g[k][f[k - 1]]
      BY <1>3, Zenon DEF Unfolds
    <3> QED BY <3>1, <3>2, <3>3, Zenon
  <2> QED BY <1>3, <2>1 DEF Unfolds
<1> DEFINE P == {k \in 0 .. n : \A s \in SUBSET S : Cardinality(s) <= k => f[k + 1][s] = f[k][s]}
<1>5. \A k \in 0 .. n : f[k] \in F /\ f[k + 1] \in F /\ f[k + 1] = Step(f[k])
  <2>1. ASSUME NEW k \in 0 .. n PROVE f[k] \in F /\ f[k + 1] \in F /\ f[k + 1] = Step(f[k])
    <3>1. k \in 0 .. n + 1 /\ k + 1 \in 0 .. n + 1 /\ k + 1 \in 1 .. n + 1 /\ k + 1 - 1 = k
      BY <1>0
    <3> DEFINE j == k + 1
    <3>2. j \in 1 .. n + 1 /\ j - 1 = k /\ j \in 0 .. n + 1
      BY <3>1
    <3> HIDE DEF F, j
    <3>3. f[j] = Step(f[j - 1]) /\ f[j] \in F /\ f[k] \in F
      BY <1>3, <1>4, <3>1, <3>2, Zenon
    <3> QED BY <3>2, <3>3, Zenon DEF j
  <2> QED BY <2>1
<1>6. 0 \in P
  <2>1. ASSUME NEW s \in SUBSET S, Cardinality(s) <= 0 PROVE f[0 + 1][s] = f[0][s]
    <3>1. s = {}
      <4>1. IsFiniteSet(s)
        BY FS_Subset
      <4>2. Cardinality(s) = 0
        BY <2>1, <4>1, FS_CardinalityType
      <4> QED BY <4>1, <4>2, FS_EmptySet
    <3>2. f[0 + 1] = Step(f[0])
      BY <1>0, <1>5
    <3>3. Step(f[0])[s] = 0
      BY <3>1 DEF Step
    <3>4. f[0][s] = 0
      BY <1>4 DEF zero
    <3> QED BY <3>2, <3>3, <3>4, Zenon
  <2> QED BY <1>0, <2>1
<1>7. ASSUME NEW k \in 1 .. n, k - 1 \in P
      PROVE  k \in P
  <2>1. ASSUME NEW s \in SUBSET S, Cardinality(s) <= k PROVE f[k + 1][s] = f[k][s]
    <3>1. f[k + 1] = Step(f[k]) /\ f[k] = Step(f[k - 1])
      BY <1>0, <1>4, <1>5
    <3>2. CASE s = {}
      <4>1. Step(f[k])[s] = 0 /\ Step(f[k - 1])[s] = 0
        BY <3>2 DEF Step
      <4> QED BY <3>1, <4>1, Zenon
    <3>3. CASE s # {}
      <4> DEFINE r == s \ {Picked(s)}
      <4>1. Picked(s) \in s
        BY <3>3, PickedIs
      <4>2. r \in SUBSET S /\ Cardinality(r) = Cardinality(s) - 1 /\ Cardinality(s) \in Nat
        BY <4>1, LessOne
      <4>3. /\ Step(f[k])[s] = w[Picked(s)] + f[k][r]
            /\ Step(f[k - 1])[s] = w[Picked(s)] + f[k - 1][r]
        BY <3>3 DEF Step
      <4> HIDE DEF r
      <4>4. f[k - 1 + 1][r] = f[k - 1][r]
        BY <1>7, <2>1, <4>2
      <4>5. k - 1 + 1 = k
        OBVIOUS
      <4>6. f[k][r] = f[k - 1][r]
        BY <4>4, <4>5
      <4> QED BY <3>1, <4>3, <4>6, Zenon
    <3> QED BY <3>2, <3>3
  <2> QED BY <2>1
<1>8. \A k \in 0 .. n : k \in P
  <2> HIDE DEF P
  <2> QED BY <1>0, <1>6, <1>7, UpTo
<1>9. n \in 0 .. n
  BY <1>0
<1>10. f[n] \in F /\ f[n + 1] = Step(f[n])
  BY <1>5, <1>9
<1>11. ASSUME NEW s \in SUBSET S
       PROVE  f[n][s] = IF s = {} THEN 0 ELSE w[Picked(s)] + f[n][s \ {Picked(s)}]
  <2>1. Cardinality(s) <= n
    BY FS_Subset
  <2>2. f[n + 1][s] = f[n][s]
    BY <1>8, <1>9, <2>1
  <2>3. Step(f[n])[s] = IF s = {} THEN 0 ELSE w[Picked(s)] + f[n][s \ {Picked(s)}]
    BY DEF Step
  <2> QED BY <1>10, <2>2, <2>3, Zenon
<1> QED BY <1>10, <1>11, Zenon DEF Sums

(* All of them agree.                                                       *)
LEMMA SumsAgree ==
  ASSUME NEW S, IsFiniteSet(S), NEW w, NEW f, NEW h, NEW T \in SUBSET S,
         Sums(f, w, S), Sums(h, w, T)
  PROVE  f[T] = h[T]
<1> DEFINE n == Cardinality(S)
           P == {k \in 0 .. n : \A s \in SUBSET T : Cardinality(s) = k => f[s] = h[s]}
<1>0. n \in Nat
  BY FS_CardinalityType
<1>1. 0 \in P
  <2>1. ASSUME NEW s \in SUBSET T, Cardinality(s) = 0 PROVE f[s] = h[s]
    <3>1. s \in SUBSET S
      OBVIOUS
    <3>2. s = {}
      <4>1. IsFiniteSet(s)
        BY <3>1, FS_Subset
      <4> QED BY <2>1, <4>1, FS_EmptySet
    <3> QED BY <3>1, <3>2, Zenon DEF Sums
  <2> QED BY <1>0, <2>1
<1>2. ASSUME NEW k \in 1 .. n, k - 1 \in P
      PROVE  k \in P
  <2>1. ASSUME NEW s \in SUBSET T, Cardinality(s) = k PROVE f[s] = h[s]
    <3>1. s \in SUBSET S
      OBVIOUS
    <3>2. s # {}
      BY <2>1, FS_EmptySet
    <3>3. Picked(s) \in s
      BY <3>2, PickedIs
    <3> DEFINE r == s \ {Picked(s)}
    <3>4. Cardinality(r) = k - 1 /\ r \in SUBSET T
      BY <2>1, <3>1, <3>3, LessOne
    <3>5. f[s] = w[Picked(s)] + f[r] /\ h[s] = w[Picked(s)] + h[r]
      BY <3>1, <3>2, Zenon DEF Sums
    <3> HIDE DEF r
    <3>6. f[r] = h[r]
      BY <1>2, <3>4
    <3> QED BY <3>5, <3>6, Zenon
  <2> QED BY <2>1
<1>3. \A k \in 0 .. n : k \in P
  <2> HIDE DEF P
  <2> QED BY <1>0, <1>1, <1>2, UpTo
<1>4. Cardinality(T) \in 0 .. n
  <2>1. IsFiniteSet(T) /\ Cardinality(T) <= n
    BY FS_Subset
  <2>2. Cardinality(T) \in Nat
    BY <2>1, FS_CardinalityType
  <2> QED BY <1>0, <2>1, <2>2
<1> QED BY <1>3, <1>4

(* It makes no difference which element is counted last.                    *)
Adds(f, w, S) == \A T \in SUBSET S : \A y \in T : f[T] = w[y] + f[T \ {y}]

(* By induction on the size: the last counted and any other change places.  *)
LEMMA SumsAdd ==
  ASSUME NEW S, IsFiniteSet(S), NEW w, w \in [S -> Nat],
         NEW f, f \in [SUBSET S -> Nat], Sums(f, w, S)
  PROVE  Adds(f, w, S)
<1> SUFFICES ASSUME NEW T \in SUBSET S, NEW y \in T PROVE f[T] = w[y] + f[T \ {y}]
  BY DEF Adds
<1> DEFINE n == Cardinality(S)
           P == {k \in 0 .. n : \A s \in SUBSET S : Cardinality(s) = k =>
                                  \A x \in s : f[s] = w[x] + f[s \ {x}]}
<1>0. n \in Nat
  BY FS_CardinalityType
<1>1. 0 \in P
  <2>1. ASSUME NEW s \in SUBSET S, Cardinality(s) = 0 PROVE s = {}
    <3>1. IsFiniteSet(s)
      BY FS_Subset
    <3> QED BY <2>1, <3>1, FS_EmptySet
  <2> QED BY <1>0, <2>1
<1>2. ASSUME NEW k \in 1 .. n, k - 1 \in P
      PROVE  k \in P
  <2>1. ASSUME NEW s \in SUBSET S, Cardinality(s) = k, NEW x \in s
        PROVE  f[s] = w[x] + f[s \ {x}]
    <3> DEFINE c == Picked(s)
               r == s \ {c}
               q == s \ {x}
               b == r \ {x}
    <3>1. c \in s
      BY PickedIs
    <3>2. Cardinality(r) = k - 1 /\ r \in SUBSET S /\ Cardinality(q) = k - 1 /\ q \in SUBSET S
      BY <2>1, <3>1, LessOne
    <3>3. f[s] = w[c] + f[r]
      BY <3>1, Zenon DEF Sums
    <3>4. CASE c = x
      BY <3>3, <3>4
    <3>5. CASE c # x
      <4>1. x \in r /\ c \in q /\ b = q \ {c} /\ b \in SUBSET S
        BY <3>1, <3>5
      <4>2. w[c] \in Nat /\ w[x] \in Nat /\ f[b] \in Nat
        BY <3>1, <4>1
      <4> HIDE DEF r, q, b, c
      <4>3. \A t \in SUBSET S : Cardinality(t) = k - 1 => \A z \in t : f[t] = w[z] + f[t \ {z}]
        BY <1>2
      <4>4. f[r] = w[x] + f[r \ {x}] /\ f[q] = w[c] + f[q \ {c}]
        BY <3>2, <4>1, <4>3
      <4>5. f[r] = w[x] + f[b] /\ f[q] = w[c] + f[b]
        BY <4>1, <4>4, Zenon DEF b
      <4>6. f[s] = w[x] + f[q]
        BY <3>3, <4>2, <4>5
      <4> QED BY <4>6 DEF q
    <3> QED BY <3>4, <3>5
  <2> QED BY <2>1
<1>3. \A k \in 0 .. n : k \in P
  <2> HIDE DEF P
  <2> QED BY <1>0, <1>1, <1>2, UpTo
<1>4. Cardinality(T) \in 0 .. n
  <2>1. IsFiniteSet(T) /\ Cardinality(T) <= n
    BY FS_Subset
  <2>2. Cardinality(T) \in Nat
    BY <2>1, FS_CardinalityType
  <2> QED BY <1>0, <2>1, <2>2
<1> QED BY <1>3, <1>4

-----------------------------------------------------------------------------
(* What a set of entries costs is such a sum.                               *)
LEMMA CostIs ==
  ASSUME NEW S, IsFiniteSet(S), \A e \in S : e.tokens \in Nat
  PROVE  \E f \in [SUBSET S -> Nat] :
           /\ Sums(f, [e \in S |-> e.tokens], S)
           /\ \A T \in SUBSET S : Cost(T) = f[T]
<1> DEFINE w == [e \in S |-> e.tokens]
<1>1. PICK f \in [SUBSET S -> Nat] : Sums(f, w, S)
  <2>1. w \in [S -> Nat]
    OBVIOUS
  <2> HIDE DEF w
  <2> QED BY <2>1, SumsExist
<1>2. ASSUME NEW T \in SUBSET S PROVE Cost(T) = f[T]
  <2> DEFINE Is(h) == h = [s \in SUBSET T |->
                             IF s = {} THEN 0
                             ELSE (CHOOSE x \in s : TRUE).tokens + h[s \ {CHOOSE x \in s : TRUE}]]
             h0 == [s \in SUBSET T |-> f[s]]
             h1 == CHOOSE h : Is(h)
  <2>1. Is(h0)
    <3>1. ASSUME NEW s \in SUBSET T, s # {}
          PROVE  f[s] = Picked(s).tokens + h0[s \ {Picked(s)}]
      <4>1. Picked(s) \in s
        BY <3>1, PickedIs
      <4>2. w[Picked(s)] = Picked(s).tokens
        BY <4>1
      <4>3. s \in SUBSET S /\ s \ {Picked(s)} \in SUBSET T
        OBVIOUS
      <4>4. h0[s \ {Picked(s)}] = f[s \ {Picked(s)}]
        BY <4>3
      <4> HIDE DEF h0, w
      <4>5. f[s] = w[Picked(s)] + f[s \ {Picked(s)}]
        BY <1>1, <3>1, <4>3, Zenon DEF Sums
      <4> QED BY <4>2, <4>4, <4>5, Zenon
    <3>2. f[{}] = 0
      <4>1. {} \in SUBSET S
        OBVIOUS
      <4> HIDE DEF w
      <4> QED BY <1>1, <4>1, Zenon DEF Sums
    <3>3. ASSUME NEW s \in SUBSET T
          PROVE  h0[s] = IF s = {} THEN 0 ELSE Picked(s).tokens + h0[s \ {Picked(s)}]
      <4>1. h0[s] = f[s]
        OBVIOUS
      <4> HIDE DEF h0
      <4> QED BY <3>1, <3>2, <4>1, Zenon
    <3>4. h0 = [s \in SUBSET T |-> h0[s]]
      OBVIOUS
    <3>5. h0 = [s \in SUBSET T |->
                  IF s = {} THEN 0 ELSE Picked(s).tokens + h0[s \ {Picked(s)}]]
      <4> HIDE DEF h0
      <4> QED BY <3>3, <3>4, Zenon
    <3> HIDE DEF h0
    <3> QED BY <3>5 DEF Picked
  <2>2. Is(h1)
    <3> HIDE DEF Is, h0
    <3> QED BY <2>1
  <2>3. Cost(T) = h1[T]
    BY DEF Cost, MapThenSumSet, MapThenFoldSet
  <2> HIDE DEF h1
  <2>4. Sums(h1, w, T)
    <3>1. ASSUME NEW s \in SUBSET T
          PROVE  h1[s] = IF s = {} THEN 0 ELSE w[Picked(s)] + h1[s \ {Picked(s)}]
      <4>1. h1[s] = IF s = {} THEN 0 ELSE Picked(s).tokens + h1[s \ {Picked(s)}]
        BY <2>2, Zenon DEF Picked
      <4>2. s # {} => w[Picked(s)] = Picked(s).tokens
        BY PickedIs
      <4> HIDE DEF w
      <4> QED BY <4>1, <4>2, Zenon
    <3> HIDE DEF w
    <3> QED BY <3>1 DEF Sums
  <2> HIDE DEF w
  <2>5. f[T] = h1[T]
    BY <1>1, <2>4, SumsAgree
  <2> QED BY <2>3, <2>5
<1> QED BY <1>1, <1>2

(* So is the cost of entries, and one more adds its tokens.                 *)
LEMMA CostAdds ==
  ASSUME NEW T, IsFiniteSet(T), \A e \in T : e.tokens \in Nat,
         NEW x, x \notin T, x.tokens \in Nat
  PROVE  Cost(T) \in Nat /\ Cost(T \cup {x}) = Cost(T) + x.tokens
<1> DEFINE S == T \cup {x}
           w == [e \in S |-> e.tokens]
<1>1. IsFiniteSet(S) /\ \A e \in S : e.tokens \in Nat
  BY FS_AddElement
<1>2. S \ {x} = T /\ T \in SUBSET S /\ S \in SUBSET S /\ x \in S
  OBVIOUS
<1>3. w \in [S -> Nat] /\ w[x] = x.tokens
  BY <1>1
<1> HIDE DEF S
<1>4. PICK f \in [SUBSET S -> Nat] : Sums(f, w, S) /\ \A R \in SUBSET S : Cost(R) = f[R]
  BY <1>1, CostIs
<1> HIDE DEF w
<1>5. f[S] = w[x] + f[S \ {x}]
  <2>1. IsFiniteSet(S) /\ S \in SUBSET S /\ x \in S
    BY <1>1, <1>2
  <2>2. w \in [S -> Nat] /\ f \in [SUBSET S -> Nat] /\ Sums(f, w, S)
    BY <1>3, <1>4
  <2>3. Adds(f, w, S)
    BY <2>1, <2>2, SumsAdd, Zenon
  <2> QED BY <2>1, <2>3, Zenon DEF Adds
<1>6. Cost(S) = f[S] /\ Cost(T) = f[T] /\ f[T] \in Nat
  BY <1>2, <1>4
<1>7. f[S] = x.tokens + f[T]
  BY <1>2, <1>3, <1>5, Zenon
<1>8. Cost(S) = x.tokens + Cost(T) /\ Cost(T) \in Nat
  BY <1>6, <1>7, Zenon
<1>9. Cost(S) = Cost(T) + x.tokens
  BY <1>8
<1> QED BY <1>8, <1>9 DEF S

LEMMA CostOfNothing == Cost({}) = 0
<1>1. IsFiniteSet({}) /\ \A e \in {} : e.tokens \in Nat
  BY FS_EmptySet
<1>2. PICK f \in [SUBSET {} -> Nat] :
        Sums(f, [e \in {} |-> e.tokens], {}) /\ \A T \in SUBSET {} : Cost(T) = f[T]
  BY <1>1, CostIs
<1>3. {} \in SUBSET {}
  OBVIOUS
<1>4. f[{}] = 0
  BY <1>2, <1>3, Zenon DEF Sums
<1> QED BY <1>2, <1>3, <1>4, Zenon

-----------------------------------------------------------------------------
(* Contexts. *)

(* What an assembly is called with.                                         *)
Assembly(s) ==
  /\ s.hits \in Seq(Index) /\ s.hits # << >>
  /\ s.tokens \in [Index -> Nat]
  /\ s.budget \in Nat \ {0} /\ s.trim \in 0 .. 1
  /\ \A h \in Range(s.hits) : s.score[h] \in Nat
  /\ \A i, j \in DOMAIN s.hits : i < j => s.score[s.hits[i]] > s.score[s.hits[j]]

(* Hits are sections of the index with scores of their own, the first the best. *)
LEMMA HitsAre ==
  ASSUME NEW s, Assembly(s)
  PROVE  /\ Range(s.hits) \subseteq Index /\ s.hits[1] \in Range(s.hits)
         /\ \A h \in Range(s.hits) : s.score[h] \in Nat /\ s.score[h] <= s.score[s.hits[1]]
         /\ \A g, h \in Range(s.hits) : s.score[g] = s.score[h] => g = h
<1>1. /\ s.hits \in Seq(Index) /\ s.hits # << >> /\ Len(s.hits) \in Nat \ {0}
      /\ DOMAIN s.hits = 1 .. Len(s.hits)
      /\ Range(s.hits) = {s.hits[i] : i \in 1 .. Len(s.hits)}
  BY DEF Assembly, Range
<1>2. \A i, j \in 1 .. Len(s.hits) : i < j => s.score[s.hits[i]] > s.score[s.hits[j]]
  BY <1>1 DEF Assembly
<1>3. \A i \in 1 .. Len(s.hits) : s.hits[i] \in Index /\ s.score[s.hits[i]] \in Nat
  BY <1>1 DEF Assembly
<1>4. 1 \in 1 .. Len(s.hits)
  BY <1>1
<1>5. ASSUME NEW h \in Range(s.hits) PROVE s.score[h] \in Nat /\ s.score[h] <= s.score[s.hits[1]]
  <2>1. PICK i \in 1 .. Len(s.hits) : h = s.hits[i]
    BY <1>1
  <2>2. i = 1 \/ 1 < i
    OBVIOUS
  <2> QED BY <1>2, <1>3, <1>4, <2>1, <2>2
<1>6. ASSUME NEW g \in Range(s.hits), NEW h \in Range(s.hits), s.score[g] = s.score[h]
      PROVE  g = h
  <2>1. PICK i \in 1 .. Len(s.hits) : g = s.hits[i]
    BY <1>1
  <2>2. PICK j \in 1 .. Len(s.hits) : h = s.hits[j]
    BY <1>1
  <2>3. ~(i < j) /\ ~(j < i)
    BY <1>2, <1>3, <1>6, <2>1, <2>2
  <2> QED BY <2>1, <2>2, <2>3
<1> QED BY <1>1, <1>3, <1>4, <1>5, <1>6

(* What an entry is: every one has a hit of its file as its anchor, a hit   *)
(* itself.                                                                  *)
Entry(s, e) ==
  /\ e.section \in Index /\ e.tokens = s.tokens[e.section]
  /\ e.hit \in BOOLEAN /\ e.placed \in BOOLEAN /\ e.distance \in Nat /\ e.found \in Nat
  /\ e.hit <=> e.section \in Range(s.hits)
  /\ e.hit => e.distance = 0 /\ e.anchor = s.score[e.section]
  /\ \E h \in Range(s.hits) :
       /\ h.file = e.section.file /\ e.anchor = s.score[h]
       /\ e.distance = Distance(e.section.position, h.position)

(* Both kinds of entries are.                                               *)
LEMMA HitEntryIs ==
  ASSUME NEW s, Assembly(s), NEW h \in Range(s.hits)
  PROVE  HitEntry(s, h).section = h /\ Entry(s, HitEntry(s, h))
<1>1. h \in Index /\ h.position \in Int
  BY HitsAre, IndexAssumption
<1>2. Distance(h.position, h.position) = 0
  BY <1>1 DEF Distance
<1>3. PICK i \in DOMAIN s.hits : i = CHOOSE j \in DOMAIN s.hits : s.hits[j] = h
  BY DEF Range
<1>4. i \in Nat
  BY DEF Assembly
<1> QED BY <1>1, <1>2, <1>3, <1>4 DEF HitEntry, Entry

LEMMA NeighborEntryIs ==
  ASSUME NEW s, Assembly(s), NEW x \in Index \ Range(s.hits),
         \E h \in Present(s) : x \in Near(s, h)
  PROVE  NeighborEntry(s, x).section = x /\ Entry(s, NeighborEntry(s, x))
<1> DEFINE hits == {h \in Present(s) : x \in Near(s, h)}
           far == {Distance(x.position, h.position) : h \in hits}
           near == Min(far)
           top == {s.score[h] : h \in {g \in hits : Distance(x.position, g.position) = near}}
           best == Max(top)
           up == {i \in DOMAIN s.hits : s.hits[i] \in hits}
<1>1. NeighborEntry(s, x) = [section |-> x, hit |-> FALSE, distance |-> near, anchor |-> best,
                             found |-> Min(up),
                             tokens |-> s.tokens[x], placed |-> TRUE, cut |-> FALSE]
  BY DEF NeighborEntry
<1>2. ASSUME NEW h \in hits
      PROVE  /\ h \in Range(s.hits) /\ h.file = x.file
             /\ Distance(x.position, h.position) \in Nat
  <2>1. h \in Range(s.hits) /\ h.file = x.file
    BY DEF Present, Near
  <2>2. h.position \in Int /\ x.position \in Int
    BY <2>1, HitsAre, IndexAssumption
  <2> QED BY <2>1, <2>2 DEF Distance
<1>3. hits # {}
  OBVIOUS
<1>8. Min(up) \in Nat
  <2>1. up \subseteq Nat
    BY DEF Assembly
  <2>2. PICK h \in hits : TRUE
    BY <1>3
  <2>3. PICK i \in DOMAIN s.hits : s.hits[i] = h
    BY <1>2 DEF Range
  <2>4. up # {}
    BY <2>2, <2>3
  <2> HIDE DEF up
  <2>5. \E n \in up : \A m \in up : n <= m
    BY <2>1, <2>4, LeastOf
  <2> QED BY <2>1, <2>5 DEF Min
<1> HIDE DEF hits, up
<1>4. near \in far
  <2>1. far \in SUBSET Nat /\ far # {}
    BY <1>2, <1>3
  <2> HIDE DEF far
  <2>2. \E n \in far : \A m \in far : n <= m
    BY <2>1, LeastOf
  <2> QED BY <2>2 DEF Min
<1>5. near \in Nat /\ \E g \in hits : Distance(x.position, g.position) = near
  BY <1>2, <1>4
<1> HIDE DEF far, near
<1>6. best \in top
  <2> DEFINE m == s.score[s.hits[1]]
  <2>1. m \in Nat
    BY HitsAre
  <2>2. top \in SUBSET (0 .. m) /\ top # {}
    <3>1. ASSUME NEW h \in hits PROVE s.score[h] \in 0 .. m
      BY <1>2, HitsAre
    <3> QED BY <1>5, <3>1
  <2> HIDE DEF top, m
  <2>3. \E i \in top : \A j \in top : j <= i
    BY <2>1, <2>2, Greatest
  <2>4. \E i \in top : \A j \in top : i >= j
    <3>1. \A i, j \in top : j <= i => i >= j
      BY <2>1, <2>2
    <3> QED BY <2>3, <3>1
  <2> QED BY <2>4 DEF Max
<1>7. PICK h \in hits : best = s.score[h] /\ Distance(x.position, h.position) = near
  BY <1>6
<1> HIDE DEF best
<1> QED BY <1>1, <1>2, <1>5, <1>7, <1>8 DEF Entry

(* The entries are finitely many, and one for a section.                    *)
LEMMA EntriesAre ==
  ASSUME NEW s, Assembly(s)
  PROVE  /\ IsFiniteSet(Entries(s))
         /\ \A e \in Entries(s) : Entry(s, e)
         /\ \A e, f \in Entries(s) : e.section = f.section => e = f
         /\ \A h \in Range(s.hits) : HitEntry(s, h) \in Entries(s)
<1> DEFINE N == (UNION {Near(s, h) : h \in Present(s)}) \ Range(s.hits)
           E == Entries(s)
           Of(x) == IF x \in Range(s.hits) THEN HitEntry(s, x) ELSE NeighborEntry(s, x)
           D == Range(s.hits) \cup N
           f == [x \in D |-> Of(x)]
<1>1. \A x \in N : x \in Index \ Range(s.hits) /\ \E h \in Present(s) : x \in Near(s, h)
  <2>1. DOMAIN s.tokens = Index
    BY DEF Assembly
  <2>2. \A h : Near(s, h) \subseteq Index
    BY <2>1 DEF Near
  <2>3. ASSUME NEW x \in N
        PROVE  x \in Index \ Range(s.hits) /\ \E h \in Present(s) : x \in Near(s, h)
    <3>1. PICK h \in Present(s) : x \in Near(s, h)
      OBVIOUS
    <3>2. x \in Index
      BY <2>2, <3>1
    <3>3. x \notin Range(s.hits)
      OBVIOUS
    <3> QED BY <3>1, <3>2, <3>3
  <2> QED BY <2>3
<1>2. D \subseteq Index
  BY <1>1, HitsAre
<1>3. E = {HitEntry(s, h) : h \in Range(s.hits)} \cup {NeighborEntry(s, x) : x \in N}
  BY DEF Entries
<1> HIDE DEF N, E
<1>4. \A x \in D : Of(x).section = x /\ Entry(s, Of(x)) /\ Of(x) \in E
  BY <1>1, <1>3, HitEntryIs, NeighborEntryIs
<1>5. \A e \in E : \E x \in D : e = Of(x)
  <2>1. \A x \in N : x \notin Range(s.hits)
    BY <1>1
  <2> QED BY <1>3, <2>1
<1> HIDE DEF Of
<1>6. IsFiniteSet(E)
  <2>1. IsFiniteSet(D)
    BY <1>2, FS_Subset, IndexAssumption
  <2>2. f \in Surjection(D, E)
    <3>1. f \in [D -> E]
      BY <1>4
    <3>2. \A e \in E : \E x \in D : f[x] = e
      BY <1>5
    <3> HIDE DEF f, D
    <3> QED BY <3>1, <3>2 DEF Surjection
  <2> HIDE DEF D, f
  <2> QED BY <2>1, <2>2, FS_Surjection
<1>7. \A e \in E : Entry(s, e)
  BY <1>4, <1>5
<1>8. ASSUME NEW e \in E, NEW g \in E, e.section = g.section PROVE e = g
  BY <1>4, <1>5, <1>8
<1>9. \A h \in Range(s.hits) : HitEntry(s, h) \in E
  BY <1>3
<1> QED BY <1>6, <1>7, <1>8, <1>9 DEF E

-----------------------------------------------------------------------------
(* The order in which entries are served is a strict and total one.         *)
LEMMA ServedIsOrder ==
  ASSUME NEW s, Assembly(s)
  PROVE  LET E == Entries(s) IN Orders(E, {p \in E \X E : ServedBefore(p[1], p[2])})
<1> DEFINE E == Entries(s)
           R == {p \in E \X E : ServedBefore(p[1], p[2])}
<1>1. ASSUME NEW e \in E
      PROVE  /\ e.hit \in BOOLEAN /\ e.distance \in Nat /\ e.anchor \in Nat /\ e.found \in Nat
             /\ e.section.position \in Int /\ e.section \in Index
  <2>1. Entry(s, e)
    BY EntriesAre
  <2>2. e.anchor \in Nat
    BY <2>1, HitsAre DEF Entry
  <2> QED BY <2>1, <2>2, IndexAssumption DEF Entry
<1>2. ASSUME NEW e \in E, NEW f \in E
      PROVE  <<e, f>> \in R <=> ServedBefore(e, f)
  OBVIOUS
<1>3. ASSUME NEW e \in E, NEW f \in E, ~ServedBefore(e, f), ~ServedBefore(f, e)
      PROVE  e = f
  <2>1. Entry(s, e) /\ Entry(s, f)
    BY EntriesAre
  <2> HIDE DEF E
  <2>2. e.hit = f.hit
    BY <1>1, <1>3 DEF ServedBefore
  <2>3. e.distance = f.distance
    BY <1>1, <1>3, <2>2 DEF ServedBefore
  <2>4. e.anchor = f.anchor
    BY <1>1, <1>3, <2>2, <2>3 DEF ServedBefore
  <2>12. e.found = f.found
    BY <1>1, <1>3, <2>2, <2>3, <2>4 DEF ServedBefore
  <2>5. e.section.position = f.section.position
    BY <1>1, <1>3, <2>2, <2>3, <2>4, <2>12 DEF ServedBefore
  <2>6. PICK g \in Range(s.hits) : g.file = e.section.file /\ e.anchor = s.score[g]
    BY <2>1 DEF Entry
  <2>7. PICK h \in Range(s.hits) : h.file = f.section.file /\ f.anchor = s.score[h]
    BY <2>1 DEF Entry
  <2>8. g = h
    BY <2>4, <2>6, <2>7, HitsAre
  <2>9. e.section.file = f.section.file
    BY <2>6, <2>7, <2>8
  <2>10. /\ e.section = [file |-> e.section.file, position |-> e.section.position]
         /\ f.section = [file |-> f.section.file, position |-> f.section.position]
    BY <1>1, IndexAssumption
  <2>11. e.section = f.section
    BY <2>5, <2>9, <2>10
  <2> QED BY <2>11, EntriesAre DEF E
<1>4. \A e \in E : ~ServedBefore(e, e)
  <2> HIDE DEF E
  <2> QED BY <1>1 DEF ServedBefore
<1>5. ASSUME NEW e \in E, NEW f \in E, NEW g \in E, ServedBefore(e, f), ServedBefore(f, g)
      PROVE  ServedBefore(e, g)
  <2> HIDE DEF E
  <2>1. /\ e.hit \in BOOLEAN /\ e.distance \in Nat /\ e.anchor \in Nat /\ e.section.position \in Int
        /\ f.hit \in BOOLEAN /\ f.distance \in Nat /\ f.anchor \in Nat /\ f.section.position \in Int
        /\ g.hit \in BOOLEAN /\ g.distance \in Nat /\ g.anchor \in Nat /\ g.section.position \in Int
        /\ e.found \in Nat /\ f.found \in Nat /\ g.found \in Nat
    BY <1>1
  <2> QED BY <1>5, <2>1 DEF ServedBefore
<1> HIDE DEF R, E
<1>6. \A x \in E : <<x, x>> \notin R
  BY <1>2, <1>4
<1>7. \A x, y, z \in E : <<x, y>> \in R /\ <<y, z>> \in R => <<x, z>> \in R
  BY <1>2, <1>5
<1>8. \A x, y \in E : x = y \/ <<x, y>> \in R \/ <<y, x>> \in R
  BY <1>2, <1>3
<1> QED BY <1>6, <1>7, <1>8 DEF Orders, R, E

(* Every entry is served, the best hit first.                               *)
LEMMA OrderedIs ==
  ASSUME NEW s, Assembly(s)
  PROVE  LET o == Ordered(s)
             n == Cardinality(Entries(s)) IN
         /\ n \in Nat \ {0} /\ Len(o) = n /\ o \in [1 .. n -> Entries(s)]
         /\ \A e \in Entries(s) : \E i \in 1 .. n : o[i] = e
         /\ \A i, j \in 1 .. n : i < j => ServedBefore(o[i], o[j]) /\ o[i].section # o[j].section
         /\ o[1] = HitEntry(s, s.hits[1])
<1> DEFINE E == Entries(s)
           n == Cardinality(E)
           R == {p \in E \X E : ServedBefore(p[1], p[2])}
           o == Sorted(E, R)
           best == HitEntry(s, s.hits[1])
<1>1. IsFiniteSet(E) /\ Orders(E, R)
  BY EntriesAre, ServedIsOrder
<1>2. /\ o \in [1 .. n -> E] /\ n \in Nat
      /\ \A x \in E : \E i \in 1 .. n : o[i] = x
      /\ \A i, j \in 1 .. n : i < j => <<o[i], o[j]>> \in R
  <2> HIDE DEF E, R
  <2> QED BY <1>1, SortedIs
<1>3. Ordered(s) = o
  BY DEF Ordered
<1>4. best \in E /\ best.section = s.hits[1]
  BY EntriesAre, HitsAre DEF HitEntry
<1> HIDE DEF E, o, best
<1>5. PICK b \in 1 .. n : o[b] = best
  BY <1>2, <1>4
<1>6. ASSUME NEW i \in 1 .. n, NEW j \in 1 .. n, i < j
      PROVE  ServedBefore(o[i], o[j]) /\ o[i].section # o[j].section
  <2>1. <<o[i], o[j]>> \in R
    BY <1>2, <1>6
  <2>2. ServedBefore(o[i], o[j]) /\ o[i] \in E /\ o[j] \in E
    BY <2>1
  <2>3. o[i] # o[j]
    BY <1>1, <2>1, <2>2 DEF Orders
  <2> HIDE DEF R
  <2>4. \A e, f \in Entries(s) : e.section = f.section => e = f
    BY EntriesAre
  <2> QED BY <2>2, <2>3, <2>4 DEF E
<1>7. b = 1
  <2> SUFFICES ASSUME b # 1 PROVE FALSE
    OBVIOUS
  <2>1. 1 \in 1 .. n /\ 1 < b
    BY <1>2
  <2>2. ServedBefore(o[1], best) /\ o[1].section # best.section /\ o[1] \in E
    BY <1>2, <1>5, <1>6, <2>1
  <2>3. Entry(s, o[1]) /\ Entry(s, best)
    BY <1>4, <2>2, EntriesAre DEF E
  <2>4. best.section \in Range(s.hits) /\ best.hit /\ best.distance = 0
        /\ best.anchor = s.score[best.section]
    BY <1>4, <2>3, HitsAre DEF Entry
  <2>5. o[1].hit
    BY <2>2, <2>3, <2>4 DEF ServedBefore, Entry
  <2>6. /\ o[1].section \in Range(s.hits) /\ o[1].distance = 0
        /\ o[1].anchor = s.score[o[1].section]
    BY <2>3, <2>5 DEF Entry
  <2>7. s.score[o[1].section] <= s.score[best.section]
        /\ s.score[o[1].section] \in Nat /\ s.score[best.section] \in Nat
    BY <1>4, <2>4, <2>6, HitsAre
  <2>8. s.score[o[1].section] # s.score[best.section]
    BY <2>2, <2>4, <2>6, HitsAre
  <2> QED BY <2>2, <2>4, <2>5, <2>6, <2>7, <2>8 DEF ServedBefore
<1>8. n \in Nat \ {0} /\ Len(o) = n
  BY <1>2, <1>5
<1> QED BY <1>2, <1>3, <1>5, <1>6, <1>7, <1>8 DEF E, best

-----------------------------------------------------------------------------
(* What may be taken: an entry, or one cut to the budget.                   *)
CutOf(s, e) == [e EXCEPT !.tokens = s.budget - s.trim, !.cut = TRUE]
Served(s) == Entries(s) \cup {CutOf(s, e) : e \in Entries(s)}
Taking(s) == [taken: Seq(Served(s)), used: Nat, dropped: SUBSET Entries(s)]

Like(e, f) ==
  /\ e.section = f.section /\ e.hit = f.hit /\ e.anchor = f.anchor /\ e.placed = f.placed

(* A cut entry costs no more than the budget and stands for the same section. *)
LEMMA ServedAre ==
  ASSUME NEW s, Assembly(s), NEW e \in Entries(s)
  PROVE  /\ e \in Served(s) /\ CutOf(s, e) \in Served(s)
         /\ e.tokens \in Nat /\ CutOf(s, e).tokens \in Nat
         /\ CutOf(s, e).tokens = s.budget - s.trim /\ s.budget - s.trim <= s.budget
         /\ Like(CutOf(s, e), e) /\ Like(e, e)
<1>1. e.tokens \in Nat
  <2>1. Entry(s, e)
    BY EntriesAre
  <2> QED BY <2>1 DEF Entry, Assembly
<1>2. e \in {HitEntry(s, h) : h \in Range(s.hits)} \/ \E x : e = NeighborEntry(s, x)
  BY DEF Entries
<1>3. /\ CutOf(s, e).tokens = s.budget - s.trim /\ CutOf(s, e).section = e.section
      /\ CutOf(s, e).hit = e.hit /\ CutOf(s, e).anchor = e.anchor /\ CutOf(s, e).placed = e.placed
  BY <1>2 DEF CutOf, HitEntry, NeighborEntry
<1>4. s.budget - s.trim \in Nat /\ s.budget - s.trim <= s.budget
  BY DEF Assembly
<1>5. e \in Served(s) /\ CutOf(s, e) \in Served(s)
  BY DEF Served
<1> QED BY <1>1, <1>3, <1>4, <1>5 DEF Like

(* What is appended is one more.                                            *)
LEMMA RangeOfAppend ==
  ASSUME NEW S, NEW q \in Seq(S), NEW x \in S
  PROVE  Range(Append(q, x)) = Range(q) \cup {x}
<1> DEFINE n == Len(q)
<1>1. /\ n \in Nat /\ DOMAIN q = 1 .. n /\ DOMAIN Append(q, x) = 1 .. n + 1
      /\ \A i \in 1 .. n : Append(q, x)[i] = q[i]
      /\ Append(q, x)[n + 1] = x
  OBVIOUS
<1>2. \A i \in 1 .. n + 1 : i \in 1 .. n \/ i = n + 1
  BY <1>1
<1>3. 1 .. n \subseteq 1 .. n + 1 /\ n + 1 \in 1 .. n + 1
  BY <1>1
<1> QED BY <1>1, <1>2, <1>3, Zenon DEF Range

(* One entry: it is taken, cut or dropped.                                  *)
TakenWhole(s, acc, e, t) ==
  /\ acc.used + e.tokens <= s.budget
  /\ Range(t.taken) = Range(acc.taken) \cup {e} /\ t.used = acc.used + e.tokens

TakenCut(s, acc, e, t) ==
  /\ acc.taken = << >> /\ e.hit
  /\ Range(t.taken) = {CutOf(s, e)} /\ t.used = s.budget - s.trim

NotTaken(s, acc, e, t) ==
  /\ acc.used + e.tokens > s.budget /\ ~(acc.taken = << >> /\ e.hit)
  /\ t.taken = acc.taken /\ t.used = acc.used

(* There is no fourth case.                                                 *)
LEMMA TakeIs ==
  ASSUME NEW s, Assembly(s), NEW acc \in Taking(s), NEW e \in Entries(s)
  PROVE  LET t == Take(s, acc, e) IN
         /\ t \in Taking(s)
         /\ TakenWhole(s, acc, e, t) \/ TakenCut(s, acc, e, t) \/ NotTaken(s, acc, e, t)
<1> DEFINE t == Take(s, acc, e)
           T == Served(s)
<1>0. /\ acc.taken \in Seq(T) /\ acc.used \in Nat /\ e.tokens \in Nat
      /\ e \in T /\ CutOf(s, e) \in T /\ s.budget - s.trim \in Nat /\ s.budget \in Nat
      /\ CutOf(s, e).tokens = s.budget - s.trim
  BY ServedAre DEF Taking, Assembly
<1> HIDE DEF T
<1>1. CASE acc.used + e.tokens <= s.budget
  <2>1. t = [acc EXCEPT !.taken = Append(acc.taken, e), !.used = acc.used + e.tokens]
    BY <1>0, <1>1 DEF Take
  <2>2. Append(acc.taken, e) \in Seq(T) /\ Range(Append(acc.taken, e)) = Range(acc.taken) \cup {e}
    BY <1>0, RangeOfAppend
  <2>3. t.taken = Append(acc.taken, e) /\ t.used = acc.used + e.tokens
    BY <2>1 DEF Taking
  <2>4. t \in Taking(s)
    <3> DEFINE q == Append(acc.taken, e)
               u == acc.used + e.tokens
    <3>1. q \in Seq(T) /\ u \in Nat /\ t = [acc EXCEPT !.taken = q, !.used = u]
      BY <1>0, <2>1, <2>2
    <3> HIDE DEF q, u, t
    <3> QED BY <3>1 DEF Taking, T
  <2> HIDE DEF t
  <2>5. TakenWhole(s, acc, e, t)
    BY <1>1, <2>2, <2>3 DEF TakenWhole
  <2> QED BY <2>4, <2>5 DEF t
<1>2. CASE acc.used + e.tokens > s.budget /\ acc.taken = << >> /\ e.hit
  <2>1. t = [acc EXCEPT !.taken = <<CutOf(s, e)>>, !.used = CutOf(s, e).tokens]
    BY <1>0, <1>2 DEF Take, CutOf
  <2>2. <<CutOf(s, e)>> \in Seq(T) /\ Range(<<CutOf(s, e)>>) = {CutOf(s, e)}
    BY <1>0 DEF Range
  <2>3. t.taken = <<CutOf(s, e)>> /\ t.used = s.budget - s.trim
    BY <1>0, <2>1 DEF Taking
  <2>4. t \in Taking(s)
    BY <1>0, <2>1, <2>2 DEF Taking, T
  <2> HIDE DEF t
  <2>5. TakenCut(s, acc, e, t)
    BY <1>2, <2>2, <2>3 DEF TakenCut
  <2> QED BY <2>4, <2>5 DEF t
<1>3. CASE ~(acc.used + e.tokens <= s.budget) /\ ~(acc.taken = << >> /\ e.hit)
  <2>1. t = [acc EXCEPT !.dropped = acc.dropped \cup {e}]
    BY <1>0, <1>3 DEF Take
  <2>2. t \in Taking(s) /\ t.taken = acc.taken /\ t.used = acc.used
    BY <2>1 DEF Taking
  <2>3. acc.used + e.tokens > s.budget
    BY <1>0, <1>3
  <2> HIDE DEF t
  <2>4. NotTaken(s, acc, e, t)
    BY <1>3, <2>2, <2>3 DEF NotTaken
  <2> QED BY <2>2, <2>4 DEF t
<1>4. acc.used + e.tokens <= s.budget \/ acc.used + e.tokens > s.budget
  BY <1>0
<1> QED BY <1>1, <1>2, <1>3, <1>4

(* The selection, as the recursive function it is defined as.               *)
LEMMA SelectingIs ==
  ASSUME NEW s, Assembly(s)
  PROVE  LET f == Selecting(s)
             o == Ordered(s)
             n == Cardinality(Entries(s)) IN
         /\ f \in [0 .. n -> Taking(s)] /\ f[0] = NothingTaken
         /\ \A i \in 1 .. n : f[i] = Take(s, f[i - 1], o[i])
<1> DEFINE o == Ordered(s)
           n == Cardinality(Entries(s))
           A == Taking(s)
           g == [i \in 1 .. n |-> [acc \in A |-> Take(s, acc, o[i])]]
           Is(h) == h = [i \in 0 .. n |-> IF i = 0 THEN NothingTaken ELSE Take(s, h[i - 1], o[i])]
           f == Selecting(s)
<1>0. n \in Nat /\ Len(o) = n /\ \A i \in 1 .. n : o[i] \in Entries(s)
  BY OrderedIs
<1>5. f = CHOOSE k : Is(k)
  <2>1. f = CHOOSE k : k = [i \in 0 .. Len(o) |-> IF i = 0 THEN NothingTaken
                                                   ELSE Take(s, k[i - 1], o[i])]
    BY DEF Selecting
  <2> HIDE DEF f, o, n
  <2> QED BY <1>0, <2>1
<1> HIDE DEF o, n, A
<1>1. NothingTaken \in A
  BY DEF NothingTaken, Taking, A
<1>a. ASSUME NEW acc \in A, NEW i \in 1 .. n PROVE Take(s, acc, o[i]) \in A
  BY <1>0, TakeIs DEF A
<1>2. PICK h \in [0 .. n -> A] : Unfolds(h, n, NothingTaken, g)
  <2>1. g \in [1 .. n -> [A -> A]]
    BY <1>0, <1>a
  <2> HIDE DEF g
  <2>2. \E h \in [0 .. n -> A] : Unfolds(h, n, NothingTaken, g)
    BY <1>0, <1>1, <2>1, Recursion
  <2> QED BY <2>2
<1>3. h[0] = NothingTaken /\ \A i \in 1 .. n : h[i] = Take(s, h[i - 1], o[i])
  <2>1. h[0] = NothingTaken /\ \A i \in 1 .. n : h[i] = g[i][h[i - 1]]
    <3> HIDE DEF g
    <3> QED BY <1>2 DEF Unfolds
  <2>2. ASSUME NEW i \in 1 .. n PROVE h[i] = Take(s, h[i - 1], o[i])
    <3>1. i - 1 \in 0 .. n
      BY <1>0
    <3>2. h[i - 1] \in A
      BY <1>2, <3>1
    <3>3. g[i][h[i - 1]] = Take(s, h[i - 1], o[i])
      BY <3>2
    <3> QED BY <2>1, <3>3
  <2> QED BY <2>1, <2>2
<1>4. Is(h)
  BY <1>0, <1>2, <1>3
<1>6. Is(f)
  <2> HIDE DEF Is, f
  <2> QED BY <1>4, <1>5
<1>7. f[0] = NothingTaken /\ \A i \in 1 .. n : f[i] = Take(s, f[i - 1], o[i])
  <2> HIDE DEF f
  <2> QED BY <1>0, <1>6
<1>8. DOMAIN f = 0 .. n /\ f = [i \in 0 .. n |-> f[i]]
  <2> HIDE DEF f
  <2> QED BY <1>6
<1> DEFINE P == {i \in 0 .. n : f[i] \in A}
<1>9. \A i \in 0 .. n : i \in P
  <2> HIDE DEF f
  <2>1. ASSUME NEW i \in 1 .. n, i - 1 \in P PROVE i \in P
    BY <1>0, <1>7, <1>a, <2>1
  <2>2. 0 \in P
    BY <1>0, <1>1, <1>7
  <2> HIDE DEF P
  <2> QED BY <1>0, <2>1, <2>2, UpTo
<1> HIDE DEF f
<1> QED BY <1>7, <1>8, <1>9 DEF f, o, n, A

-----------------------------------------------------------------------------
(* A hit is served after hits that score more.                              *)
LEMMA HitsBefore ==
  ASSUME NEW s, Assembly(s),
         NEW i \in 1 .. Cardinality(Entries(s)), NEW k \in 1 .. Cardinality(Entries(s)), i < k
  PROVE  LET o == Ordered(s) IN
         /\ o[i].section # o[k].section /\ o[i].anchor \in Nat /\ o[k].anchor \in Nat
         /\ o[k].hit => o[i].hit /\ o[i].anchor > o[k].anchor
<1> DEFINE e == Ordered(s)[i]
           f == Ordered(s)[k]
<1>1. ServedBefore(e, f) /\ e.section # f.section /\ e \in Entries(s) /\ f \in Entries(s)
  BY OrderedIs
<1>2. Entry(s, e) /\ Entry(s, f)
  BY <1>1, EntriesAre
<1> HIDE DEF e, f
<1>3. e.anchor \in Nat /\ f.anchor \in Nat
  BY <1>2, HitsAre DEF Entry
<1>4. ASSUME f.hit PROVE e.hit /\ e.anchor > f.anchor
  <2>1. e.hit
    BY <1>1, <1>4 DEF ServedBefore
  <2>2. e.distance = 0 /\ f.distance = 0 /\ e.anchor = s.score[e.section]
        /\ f.anchor = s.score[f.section]
        /\ e.section \in Range(s.hits) /\ f.section \in Range(s.hits)
    BY <1>2, <1>4, <2>1 DEF Entry
  <2>3. e.anchor # f.anchor
    BY <1>1, <2>2, HitsAre
  <2> QED BY <1>1, <1>4, <2>1, <2>2, <2>3 DEF ServedBefore
<1> QED BY <1>1, <1>3, <1>4 DEF e, f

(* What holds of the entries T taken of the first k, which cost used.       *)
LeftOut(T, e) == \A f \in T : f.section # e.section
Above(T, e) == {f \in T : f.hit /\ f.anchor >= e.anchor}

Chosen(s, k, T, used) ==
  /\ IsFiniteSet(T)
  /\ \A e \in T : e.tokens \in Nat /\ \E j \in 1 .. k : Like(e, Ordered(s)[j])
  /\ \A e, f \in T : e.section = f.section => e = f
  /\ used = Cost(T) /\ used <= s.budget
  /\ \A i \in 1 .. k :
       LET e == Ordered(s)[i]
       IN  e.hit /\ LeftOut(T, e) => Cost(Above(T, e)) + e.tokens > s.budget
  /\ k > 0 => \E e \in T : e.section = s.hits[1] /\ e.hit

(* It holds of nothing, and whatever becomes of the next entry.             *)
LEMMA ChosenBegins ==
  ASSUME NEW s, Assembly(s)
  PROVE  Chosen(s, 0, {}, 0)
<1>1. Cost({}) = 0 /\ IsFiniteSet({})
  BY CostOfNothing, FS_EmptySet
<1>2. s.budget \in Nat
  BY DEF Assembly
<1> QED BY <1>1, <1>2 DEF Chosen

LEMMA ChosenWhole ==
  ASSUME NEW s, Assembly(s), NEW k \in 1 .. Cardinality(Entries(s)), NEW T, NEW used,
         Chosen(s, k - 1, T, used), used + Ordered(s)[k].tokens <= s.budget
  PROVE  Chosen(s, k, T \cup {Ordered(s)[k]}, used + Ordered(s)[k].tokens)
<1> DEFINE o == Ordered(s)
           n == Cardinality(Entries(s))
           e == o[k]
           U == T \cup {e}
<1>0. n \in Nat /\ k \in 1 .. n /\ \A i \in 1 .. n : o[i] \in Entries(s)
  BY OrderedIs
<1>1. e \in Entries(s) /\ e.tokens \in Nat /\ Like(e, e)
  BY <1>0, ServedAre
<1>2. \A f \in T : f.tokens \in Nat /\ \E j \in 1 .. k - 1 : Like(f, o[j])
  BY DEF Chosen
<1>3. \A f \in T : f.section # e.section
  <2>1. ASSUME NEW f \in T PROVE f.section # e.section
    <3>1. PICK j \in 1 .. k - 1 : Like(f, o[j])
      BY <1>2
    <3>2. o[j].section # e.section
      BY <1>0, HitsBefore
    <3> QED BY <3>1, <3>2 DEF Like
  <2> QED BY <2>1
<1> HIDE DEF o, n, e
<1>4. IsFiniteSet(U) /\ Cost(U) = used + e.tokens
  <2>1. e \notin T
    BY <1>3
  <2>2. IsFiniteSet(T) /\ used = Cost(T)
    BY DEF Chosen
  <2>3. Cost(T \cup {e}) = Cost(T) + e.tokens
    BY <1>1, <1>2, <2>1, <2>2, CostAdds
  <2> QED BY <2>2, <2>3, FS_AddElement
<1>5. \A f \in U : f.tokens \in Nat /\ \E j \in 1 .. k : Like(f, o[j])
  <2>1. ASSUME NEW f \in T PROVE \E j \in 1 .. k : Like(f, o[j])
    BY <1>2, <1>0
  <2>2. \E j \in 1 .. k : Like(e, o[j])
    BY <1>1, <1>0 DEF e
  <2> QED BY <1>1, <1>2, <2>1, <2>2
<1>6. \A f, g \in U : f.section = g.section => f = g
  <2>1. \A f, g \in T : f.section = g.section => f = g
    BY DEF Chosen
  <2> QED BY <1>3, <2>1
<1>7. ASSUME NEW i \in 1 .. k, o[i].hit, LeftOut(U, o[i])
      PROVE  Cost(Above(U, o[i])) + o[i].tokens > s.budget
  <2>1. i # k
    BY <1>7 DEF LeftOut, e
  <2>2. i \in 1 .. k - 1 /\ i < k /\ i \in 1 .. n
    BY <1>0, <2>1
  <2>3. ~(e.hit /\ e.anchor >= o[i].anchor)
    <3>1. /\ o[i].anchor \in Nat /\ e.anchor \in Nat
          /\ e.hit => o[i].hit /\ o[i].anchor > e.anchor
      BY <2>2, HitsBefore DEF o, n, e
    <3> QED BY <3>1
  <2>4. Above(U, o[i]) = Above(T, o[i])
    BY <2>3 DEF Above
  <2>5. LeftOut(T, o[i])
    BY <1>7 DEF LeftOut
  <2>6. Cost(Above(T, o[i])) + o[i].tokens > s.budget
    BY <1>7, <2>2, <2>5 DEF Chosen, o
  <2> QED BY <2>4, <2>6
<1>8. \E f \in U : f.section = s.hits[1] /\ f.hit
  <2>1. CASE k = 1
    <3>1. e = HitEntry(s, s.hits[1])
      BY <2>1, OrderedIs DEF e, o
    <3>2. e.section = s.hits[1] /\ e.hit
      BY <3>1 DEF HitEntry
    <3> QED BY <3>2
  <2>2. CASE k # 1
    <3>1. k - 1 > 0
      BY <1>0, <2>2
    <3>2. \E f \in T : f.section = s.hits[1] /\ f.hit
      BY <3>1 DEF Chosen
    <3> QED BY <3>2
  <2> QED BY <2>1, <2>2
<1>9. used + e.tokens <= s.budget
  BY DEF e, o
<1> HIDE DEF U
<1>10. Chosen(s, k, U, used + e.tokens)
  BY <1>4, <1>5, <1>6, <1>7, <1>8, <1>9 DEF Chosen, o
<1> QED BY <1>10 DEF U, e, o

LEMMA ChosenCut ==
  ASSUME NEW s, Assembly(s), NEW k \in 1 .. Cardinality(Entries(s)), NEW used,
         Chosen(s, k - 1, {}, used), Ordered(s)[k].hit
  PROVE  Chosen(s, k, {CutOf(s, Ordered(s)[k])}, s.budget - s.trim)
<1> DEFINE e == Ordered(s)[k]
           c == CutOf(s, e)
<1>0. Cardinality(Entries(s)) \in Nat
  BY OrderedIs
<1>1. k = 1
  <2>1. ~(k - 1 > 0)
    BY DEF Chosen
  <2> QED BY <1>0, <2>1
<1>2. e = HitEntry(s, s.hits[1]) /\ e \in Entries(s)
  BY <1>1, OrderedIs
<1>3. e.section = s.hits[1] /\ e.hit
  BY <1>2 DEF HitEntry
<1>4. /\ c.tokens = s.budget - s.trim /\ c.tokens \in Nat /\ s.budget - s.trim <= s.budget
      /\ Like(c, e)
  BY <1>2, ServedAre
<1> HIDE DEF c
<1>5. IsFiniteSet({c}) /\ Cost({c}) = c.tokens
  <2>1. IsFiniteSet({}) /\ c \notin {} /\ Cost({}) = 0
    BY FS_EmptySet, CostOfNothing
  <2>2. Cost({} \cup {c}) = Cost({}) + c.tokens
    BY <1>4, <2>1, CostAdds
  <2>3. {} \cup {c} = {c}
    OBVIOUS
  <2>4. IsFiniteSet({c})
    BY FS_Singleton
  <2> QED BY <1>4, <2>1, <2>2, <2>3, <2>4
<1>6. c.section = e.section /\ c.hit
  BY <1>3, <1>4 DEF Like
<1> HIDE DEF e
<1>7. \A i \in 1 .. k : ~LeftOut({c}, Ordered(s)[i])
  BY <1>1, <1>6 DEF LeftOut, e
<1>8. \A f \in {c} : f.tokens \in Nat /\ \E j \in 1 .. k : Like(f, Ordered(s)[j])
  BY <1>1, <1>4 DEF e
<1>9. Chosen(s, k, {c}, s.budget - s.trim)
  BY <1>3, <1>4, <1>5, <1>6, <1>7, <1>8 DEF Chosen
<1> QED BY <1>9 DEF c, e

LEMMA ChosenDropped ==
  ASSUME NEW s, Assembly(s), NEW k \in 1 .. Cardinality(Entries(s)), NEW T, NEW used,
         Chosen(s, k - 1, T, used), used + Ordered(s)[k].tokens > s.budget,
         ~(T = {} /\ Ordered(s)[k].hit)
  PROVE  Chosen(s, k, T, used)
<1> DEFINE o == Ordered(s)
           n == Cardinality(Entries(s))
           e == o[k]
<1>0. n \in Nat /\ k \in 1 .. n /\ \A i \in 1 .. n : o[i] \in Entries(s)
  BY OrderedIs
<1>1. \A f \in T : f.tokens \in Nat /\ \E j \in 1 .. k - 1 : Like(f, o[j])
  BY DEF Chosen
<1>2. \A f \in T : f.tokens \in Nat /\ \E j \in 1 .. k : Like(f, o[j])
  BY <1>0, <1>1
<1> HIDE DEF n
<1>3. ASSUME NEW i \in 1 .. k, o[i].hit, LeftOut(T, o[i])
      PROVE  Cost(Above(T, o[i])) + o[i].tokens > s.budget
  <2>1. CASE i = k
    <3>1. ASSUME NEW f \in T PROVE f.hit /\ f.anchor >= e.anchor
      <4>1. PICK j \in 1 .. k - 1 : Like(f, o[j])
        BY <1>1
      <4>2. j < k /\ j \in 1 .. n
        BY <1>0
      <4>3. o[j].hit /\ o[j].anchor > o[k].anchor /\ o[j].anchor \in Nat /\ o[k].anchor \in Nat
        BY <1>3, <2>1, <4>2, HitsBefore DEF n
      <4> HIDE DEF o
      <4> QED BY <4>1, <4>3 DEF Like
    <3>2. Above(T, e) = T
      BY <3>1 DEF Above
    <3>3. Cost(T) = used
      BY DEF Chosen
    <3> QED BY <2>1, <3>2, <3>3
  <2>2. CASE i # k
    <3>1. i \in 1 .. k - 1
      BY <1>0, <2>2 DEF n
    <3> QED BY <1>3, <3>1 DEF Chosen
  <2> QED BY <2>1, <2>2
<1>4. \E f \in T : f.section = s.hits[1] /\ f.hit
  <2>1. CASE k = 1
    <3>1. e = HitEntry(s, s.hits[1])
      BY <2>1, OrderedIs
    <3>2. e.hit
      BY <3>1 DEF HitEntry
    <3>3. T = {}
      BY <1>1, <2>1
    <3> QED BY <3>2, <3>3
  <2>2. CASE k # 1
    <3>1. k - 1 > 0
      BY <1>0, <2>2 DEF n
    <3> QED BY <3>1 DEF Chosen
  <2> QED BY <2>1, <2>2
<1>5. /\ IsFiniteSet(T) /\ used = Cost(T) /\ used <= s.budget
      /\ \A f, g \in T : f.section = g.section => f = g
  BY DEF Chosen
<1> HIDE DEF e
<1> QED BY <1>2, <1>3, <1>4, <1>5 DEF Chosen

(* Of all entries it holds of what the selection takes.                     *)
LEMMA SelectionIs ==
  ASSUME NEW s, Assembly(s)
  PROVE  /\ Selection(s).taken \in Seq(Served(s))
         /\ Chosen(s, Cardinality(Entries(s)), Range(Selection(s).taken), Selection(s).used)
<1> DEFINE o == Ordered(s)
           n == Cardinality(Entries(s))
           f == Selecting(s)
           P == {k \in 0 .. n : Chosen(s, k, Range(f[k].taken), f[k].used)}
<1>0. n \in Nat /\ Len(o) = n /\ \A i \in 1 .. n : o[i] \in Entries(s)
  BY OrderedIs
<1>1. /\ f \in [0 .. n -> Taking(s)] /\ f[0] = NothingTaken
      /\ \A i \in 1 .. n : f[i] = Take(s, f[i - 1], o[i])
  BY SelectingIs
<1>2. Selection(s) = f[n]
  BY <1>0 DEF Selection
<1> HIDE DEF f, n
<1>3. 0 \in P
  <2>1. Range(NothingTaken.taken) = {} /\ NothingTaken.used = 0
    BY DEF NothingTaken, Range
  <2>2. Chosen(s, 0, Range(f[0].taken), f[0].used)
    BY <1>1, <2>1, ChosenBegins
  <2> QED BY <1>0, <2>2
<1>4. ASSUME NEW k \in 1 .. n, k - 1 \in P PROVE k \in P
  <2> DEFINE acc == f[k - 1]
             t == f[k]
             e == o[k]
  <2>1. acc \in Taking(s) /\ Chosen(s, k - 1, Range(acc.taken), acc.used)
    BY <1>0, <1>1, <1>4
  <2>2. t = Take(s, acc, e) /\ e \in Entries(s)
    BY <1>0, <1>1
  <2>3. TakenWhole(s, acc, e, t) \/ TakenCut(s, acc, e, t) \/ NotTaken(s, acc, e, t)
    BY <2>1, <2>2, TakeIs
  <2> HIDE DEF acc, t
  <2>4. Range(acc.taken) = {} <=> acc.taken = << >>
    <3>1. acc.taken \in Seq(Served(s))
      BY <2>1 DEF Taking
    <3>2. Range(acc.taken) = {acc.taken[i] : i \in 1 .. Len(acc.taken)}
      BY <3>1 DEF Range
    <3>3. Len(acc.taken) \in Nat /\ (Len(acc.taken) = 0 => acc.taken = << >>)
      BY <3>1, EmptySeq
    <3>4. 1 \in 1 .. Len(acc.taken) \/ acc.taken = << >>
      BY <3>3
    <3>5. 1 \in 1 .. Len(acc.taken) => Range(acc.taken) # {}
      BY ONLY <3>2, Zenon
    <3>6. Range(<< >>) = {}
      BY DEF Range
    <3> QED BY ONLY <3>4, <3>5, <3>6, Zenon
  <2>5. CASE TakenWhole(s, acc, e, t)
    <3>1. /\ Range(t.taken) = Range(acc.taken) \cup {e} /\ t.used = acc.used + e.tokens
          /\ acc.used + e.tokens <= s.budget
      BY <2>5 DEF TakenWhole
    <3>2. Chosen(s, k, Range(acc.taken) \cup {e}, acc.used + e.tokens)
      BY <2>1, <3>1, ChosenWhole DEF n
    <3>3. Chosen(s, k, Range(t.taken), t.used)
      BY ONLY <3>1, <3>2, Zenon
    <3> QED BY <3>3 DEF t
  <2>6. CASE TakenCut(s, acc, e, t)
    <3>1. /\ Range(t.taken) = {CutOf(s, e)} /\ t.used = s.budget - s.trim
          /\ Range(acc.taken) = {} /\ e.hit
      BY <2>4, <2>6 DEF TakenCut
    <3>2. Chosen(s, k, {CutOf(s, e)}, s.budget - s.trim)
      BY <2>1, <3>1, ChosenCut DEF n
    <3>3. Chosen(s, k, Range(t.taken), t.used)
      BY ONLY <3>1, <3>2, Zenon
    <3> QED BY <3>3 DEF t
  <2>7. CASE NotTaken(s, acc, e, t)
    <3>1. /\ t.taken = acc.taken /\ t.used = acc.used /\ acc.used + e.tokens > s.budget
          /\ ~(Range(acc.taken) = {} /\ e.hit)
      BY <2>4, <2>7 DEF NotTaken
    <3>2. Chosen(s, k, Range(acc.taken), acc.used)
      BY <2>1, <3>1, ChosenDropped DEF n
    <3>3. Chosen(s, k, Range(t.taken), t.used)
      BY ONLY <3>1, <3>2, Zenon
    <3> QED BY <3>3 DEF t
  <2> QED BY <2>3, <2>5, <2>6, <2>7
<1>5. n \in P
  <2> HIDE DEF P
  <2>1. \A k \in 0 .. n : k \in P
    BY <1>0, <1>3, <1>4, UpTo
  <2> QED BY <1>0, <2>1
<1>6. f[n].taken \in Seq(Served(s))
  <2>1. f[n] \in Taking(s)
    BY <1>0, <1>1
  <2> QED BY <2>1 DEF Taking
<1> QED BY <1>2, <1>5, <1>6 DEF n

-----------------------------------------------------------------------------
(* What the entries taken are, and the best score of a document.            *)
TakenOf(s) == Range(Selection(s).taken)

(* They stand for sections of the index, one each, the best hit among them. *)
LEMMA TakenAre ==
  ASSUME NEW s, Assembly(s)
  PROVE  /\ IsFiniteSet(TakenOf(s))
         /\ \A e \in TakenOf(s) :
              /\ e.section \in Index /\ e.placed \in BOOLEAN
              /\ e.hit => e.anchor = s.score[e.section]
              /\ \E h \in Range(s.hits) : h.file = e.section.file /\ e.anchor = s.score[h]
         /\ \A e, f \in TakenOf(s) : e.section = f.section => e = f
         /\ \E e \in TakenOf(s) : e.section = s.hits[1] /\ e.hit
<1> DEFINE T == TakenOf(s)
           n == Cardinality(Entries(s))
<1>1. Chosen(s, n, T, Selection(s).used) /\ n > 0
  BY SelectionIs, OrderedIs DEF TakenOf
<1>2. ASSUME NEW e \in T
      PROVE  /\ e.section \in Index /\ e.placed \in BOOLEAN
             /\ e.hit => e.anchor = s.score[e.section]
             /\ \E h \in Range(s.hits) : h.file = e.section.file /\ e.anchor = s.score[h]
  <2>1. PICK j \in 1 .. n : Like(e, Ordered(s)[j])
    BY <1>1 DEF Chosen
  <2> DEFINE f == Ordered(s)[j]
  <2>2. Entry(s, f)
    BY OrderedIs, EntriesAre
  <2>3. Like(e, f)
    BY <2>1
  <2> HIDE DEF f, T
  <2> QED BY <2>2, <2>3 DEF Like, Entry
<1> HIDE DEF n
<1> QED BY <1>1, <1>2 DEF Chosen

(* The best score of a document is that of one of its hits.                 *)
LEMMA BestOfIs ==
  ASSUME NEW s, Assembly(s), NEW e \in TakenOf(s)
  PROVE  LET best == BestOf(TakenOf(s), e.section.file) IN
         /\ best \in Nat /\ e.anchor <= best /\ best <= s.score[s.hits[1]]
         /\ \E h \in Range(s.hits) : h.file = e.section.file /\ best = s.score[h]
<1> DEFINE T == TakenOf(s)
           file == e.section.file
           A == {f.anchor : f \in {x \in T : x.section.file = file}}
           m == s.score[s.hits[1]]
<1>1. BestOf(T, file) = Max(A)
  BY DEF BestOf
<1>2. \A f \in T : \E h \in Range(s.hits) : h.file = f.section.file /\ f.anchor = s.score[h]
  BY TakenAre
<1>3. m \in Nat /\ \A h \in Range(s.hits) : s.score[h] \in 0 .. m
  BY HitsAre
<1> HIDE DEF T, m
<1>4. e.anchor \in A
  BY DEF T
<1>5. \A a \in A : \E h \in Range(s.hits) : h.file = file /\ a = s.score[h]
  BY <1>2
<1> HIDE DEF A
<1>6. A \in SUBSET (0 .. m) /\ A # {}
  BY <1>3, <1>4, <1>5
<1>7. PICK b \in A : \A a \in A : a <= b
  BY <1>3, <1>6, Greatest
<1>8. Max(A) \in A /\ \A a \in A : Max(A) >= a
  <2>1. \A a \in A : b >= a
    BY <1>3, <1>6, <1>7
  <2> QED BY <1>7, <2>1 DEF Max
<1>9. Max(A) \in Nat /\ Max(A) <= m /\ e.anchor <= Max(A)
  <2>1. PICK x : x = Max(A)
    OBVIOUS
  <2>2. x \in A /\ e.anchor \in A /\ x >= e.anchor
    BY <1>4, <1>8, <2>1
  <2>3. x \in 0 .. m /\ e.anchor \in 0 .. m
    BY <1>6, <2>2
  <2>4. x \in Nat /\ x <= m /\ e.anchor <= x
    BY <1>3, <2>2, <2>3
  <2> QED BY <2>1, <2>4
<1>10. \E h \in Range(s.hits) : h.file = file /\ Max(A) = s.score[h]
  BY <1>5, <1>8
<1>11. BestOf(T, file) \in Nat /\ BestOf(T, file) <= m /\ e.anchor <= BestOf(T, file)
  BY <1>1, <1>9, Zenon
<1>12. \E h \in Range(s.hits) : h.file = file /\ BestOf(T, file) = s.score[h]
  BY <1>1, <1>10, Zenon
<1> QED BY <1>11, <1>12, Zenon DEF T, m

(* The order in which a context is read is a strict and total one.          *)
LEMMA ReadIsOrder ==
  ASSUME NEW s, Assembly(s)
  PROVE  LET T == TakenOf(s) IN Orders(T, {p \in T \X T : ReadBefore(T, p[1], p[2])})
<1> DEFINE T == TakenOf(s)
           R == {p \in T \X T : ReadBefore(T, p[1], p[2])}
           Best(e) == BestOf(T, e.section.file)
<1>1. ASSUME NEW e \in T
      PROVE  /\ e.section = [file |-> e.section.file, position |-> e.section.position]
             /\ e.section.position \in Int /\ e.placed \in BOOLEAN
             /\ BestOf(T, e.section.file) \in Nat
  BY TakenAre, BestOfIs, IndexAssumption
<1>2. ASSUME NEW e \in T, NEW f \in T, BestOf(T, e.section.file) = BestOf(T, f.section.file)
      PROVE  e.section.file = f.section.file
  <2>1. PICK g \in Range(s.hits) : g.file = e.section.file /\ BestOf(T, e.section.file) = s.score[g]
    BY BestOfIs
  <2>2. PICK h \in Range(s.hits) : h.file = f.section.file /\ BestOf(T, f.section.file) = s.score[h]
    BY BestOfIs
  <2>3. g = h
    BY <1>2, <2>1, <2>2, HitsAre
  <2> QED BY <2>1, <2>2, <2>3
<1>3. \A e, f \in T : e.section = f.section => e = f
  BY TakenAre
<1>4. \A e, f \in T : <<e, f>> \in R <=> ReadBefore(T, e, f)
  OBVIOUS
<1> HIDE DEF T, R
<1>5. ASSUME NEW e \in T, NEW f \in T, ~ReadBefore(T, e, f), ~ReadBefore(T, f, e)
      PROVE  e = f
  <2>0. /\ e.section.position \in Int /\ e.placed \in BOOLEAN /\ BestOf(T, e.section.file) \in Nat
        /\ f.section.position \in Int /\ f.placed \in BOOLEAN /\ BestOf(T, f.section.file) \in Nat
    BY <1>1
  <2>1. e.section.file = f.section.file
    <3>1. e.section.file # f.section.file =>
            BestOf(T, e.section.file) = BestOf(T, f.section.file)
      BY <1>5, <2>0 DEF ReadBefore
    <3> QED BY <1>2, <3>1
  <2>2. e.placed = f.placed
    BY <1>5, <2>0, <2>1 DEF ReadBefore
  <2>3. e.section.position = f.section.position
    BY <1>5, <2>0, <2>1, <2>2 DEF ReadBefore
  <2>4. e.section = f.section
    BY <1>1, <2>1, <2>3, Zenon
  <2> QED BY <1>3, <2>4
<1>6. ASSUME NEW e \in T PROVE ~ReadBefore(T, e, e)
  <2>1. e.section.position \in Int
    BY <1>1
  <2> QED BY <2>1 DEF ReadBefore
<1>7. ASSUME NEW e \in T, NEW f \in T, NEW g \in T, ReadBefore(T, e, f), ReadBefore(T, f, g)
      PROVE  ReadBefore(T, e, g)
  <2>1. /\ e.section.position \in Int /\ e.placed \in BOOLEAN /\ BestOf(T, e.section.file) \in Nat
        /\ f.section.position \in Int /\ f.placed \in BOOLEAN /\ BestOf(T, f.section.file) \in Nat
        /\ g.section.position \in Int /\ g.placed \in BOOLEAN /\ BestOf(T, g.section.file) \in Nat
    BY <1>1
  <2>2. CASE e.section.file = f.section.file
    BY <1>7, <2>1, <2>2 DEF ReadBefore
  <2>3. CASE f.section.file = g.section.file
    BY <1>7, <2>1, <2>3 DEF ReadBefore
  <2>4. CASE e.section.file # f.section.file /\ f.section.file # g.section.file
    <3>1. /\ BestOf(T, e.section.file) > BestOf(T, f.section.file)
          /\ BestOf(T, f.section.file) > BestOf(T, g.section.file)
      BY <1>7, <2>4 DEF ReadBefore
    <3>2. BestOf(T, e.section.file) > BestOf(T, g.section.file)
      BY <2>1, <3>1
    <3>3. e.section.file # g.section.file
      BY <2>1, <3>1
    <3> QED BY <3>2, <3>3 DEF ReadBefore
  <2> QED BY <2>2, <2>3, <2>4
<1>8. \A x \in T : <<x, x>> \notin R
  BY <1>4, <1>6
<1>9. \A x, y, z \in T : <<x, y>> \in R /\ <<y, z>> \in R => <<x, z>> \in R
  BY <1>4, <1>7
<1>10. \A x, y \in T : x = y \/ <<x, y>> \in R \/ <<y, x>> \in R
  BY <1>4, <1>5
<1> QED BY <1>8, <1>9, <1>10 DEF Orders, R, T

(* What was taken comes in this order, all of it once.                      *)
LEMMA OutputIs ==
  ASSUME NEW s, Assembly(s)
  PROVE  LET out == Output(s)
             T == TakenOf(s)
             n == Cardinality(T) IN
         /\ n \in Nat \ {0} /\ DOMAIN out = 1 .. n /\ \A i \in 1 .. n : out[i] \in T
         /\ \A e \in T : \E i \in 1 .. n : out[i] = e
         /\ \A i, j \in 1 .. n : i < j => ReadBefore(T, out[i], out[j])
<1> DEFINE T == TakenOf(s)
           n == Cardinality(T)
           R == {p \in T \X T : ReadBefore(T, p[1], p[2])}
           out == Sorted(T, R)
<1>1. Output(s) = out
  BY DEF Output, TakenOf
<1>2. IsFiniteSet(T) /\ T # {} /\ Orders(T, R)
  BY TakenAre, ReadIsOrder
<1>3. /\ out \in [1 .. n -> T] /\ n \in Nat
      /\ \A x \in T : \E i \in 1 .. n : out[i] = x
      /\ \A i, j \in 1 .. n : i < j => <<out[i], out[j]>> \in R
  <2> HIDE DEF T, R
  <2> QED BY <1>2, SortedIs
<1> HIDE DEF out, T
<1>4. \A i, j \in 1 .. n : i < j => ReadBefore(T, out[i], out[j])
  BY <1>3
<1>5. n # 0
  BY <1>2, <1>3
<1> QED BY <1>1, <1>3, <1>4, <1>5 DEF T

(* An assembly keeps to its budget, prefers hits, and is read in order.     *)
LEMMA ContextIsSound ==
  ASSUME NEW s, Assembly(s)
  PROVE  BudgetHolds(s) /\ HitsComeFirst(s) /\ ReadsInOrder(s)
<1> DEFINE T == TakenOf(s)
           n == Cardinality(Entries(s))
           used == Selection(s).used
<1>1. Chosen(s, n, T, used) /\ n \in Nat /\ n > 0
  BY SelectionIs, OrderedIs DEF TakenOf
<1>2. BudgetHolds(s)
  <2>1. used = Cost(T) /\ used <= s.budget /\ \E e \in T : e.section = s.hits[1] /\ e.hit
    BY <1>1 DEF Chosen
  <2> QED BY <2>1 DEF BudgetHolds, TakenOf
<1>3. HitsComeFirst(s)
  <2>1. ASSUME NEW h \in Range(s.hits), \A e \in T : e.section # h
        PROVE  Cost({e \in T : e.hit /\ e.anchor >= s.score[h]}) + s.tokens[h] > s.budget
    <3>1. PICK i \in 1 .. n : Ordered(s)[i] = HitEntry(s, h)
      BY EntriesAre, OrderedIs
    <3>2. HitEntry(s, h).section = h /\ HitEntry(s, h).hit /\ HitEntry(s, h).anchor = s.score[h]
          /\ HitEntry(s, h).tokens = s.tokens[h]
      BY DEF HitEntry
    <3> HIDE DEF T
    <3>3. LeftOut(T, Ordered(s)[i])
      BY <2>1, <3>1, <3>2 DEF LeftOut
    <3>4. Cost(Above(T, Ordered(s)[i])) + Ordered(s)[i].tokens > s.budget
      BY <1>1, <3>1, <3>2, <3>3 DEF Chosen
    <3>5. Above(T, Ordered(s)[i]) = {e \in T : e.hit /\ e.anchor >= s.score[h]}
      BY <3>1, <3>2 DEF Above
    <3> QED BY <3>1, <3>2, <3>4, <3>5
  <2> QED BY <2>1 DEF HitsComeFirst, TakenOf
<1>4. ReadsInOrder(s)
  <2> DEFINE out == Output(s)
             k == Cardinality(T)
             Best(i) == BestOf(T, out[i].section.file)
  <2>1. /\ k \in Nat \ {0} /\ DOMAIN out = 1 .. k /\ \A i \in 1 .. k : out[i] \in T
        /\ \A e \in T : \E i \in 1 .. k : out[i] = e
        /\ \A i, j \in 1 .. k : i < j => ReadBefore(T, out[i], out[j])
    BY OutputIs
  <2>2. \A i \in 1 .. k : Best(i) \in Nat /\ Best(i) <= s.score[s.hits[1]]
    BY <2>1, BestOfIs
  <2> HIDE DEF out, k
  <2>3. ASSUME NEW i \in 1 .. k, NEW j \in 1 .. k, i < j,
               out[i].section.file # out[j].section.file
        PROVE  Best(i) > Best(j)
    BY <2>1, <2>3 DEF ReadBefore
  <2>4. out[1].section.file = s.hits[1].file
    <3>1. PICK e \in T : e.section = s.hits[1] /\ e.anchor = s.score[s.hits[1]]
      <4>1. PICK e \in T : e.section = s.hits[1] /\ e.hit
        BY TakenAre
      <4>2. e.anchor = s.score[e.section]
        BY <4>1, TakenAre
      <4> QED BY <4>1, <4>2
    <3>2. PICK b \in 1 .. k : out[b] = e
      BY <2>1
    <3>3. e.anchor <= Best(b)
      BY <3>2, BestOfIs
    <3>4. s.score[s.hits[1]] \in Nat
      BY HitsAre
    <3> HIDE DEF Best
    <3>5. ~(Best(1) > Best(b))
      BY <2>1, <2>2, <3>1, <3>3, <3>4
    <3>6. b = 1 \/ 1 < b
      BY <2>1
    <3> QED BY <2>1, <2>3, <3>1, <3>2, <3>5, <3>6
  <2>5. ASSUME NEW i \in 1 .. k, NEW j \in 1 .. k, i < j,
               out[i].section.file = out[j].section.file
        PROVE  /\ \A l \in i .. j : out[l].section.file = out[i].section.file
               /\ out[i].placed /\ out[j].placed =>
                    out[i].section.position < out[j].section.position
    <3>1. ASSUME NEW l \in i .. j, out[l].section.file # out[i].section.file PROVE FALSE
      <4>1. l \in 1 .. k /\ i < l /\ l < j
        BY <2>1, <2>5, <3>1
      <4>2. Best(i) > Best(l) /\ Best(l) > Best(j)
        BY <2>3, <2>5, <3>1, <4>1
      <4>3. Best(i) = Best(j)
        BY <2>5
      <4>4. Best(i) \in Nat /\ Best(l) \in Nat /\ Best(j) \in Nat
        BY <2>2, <4>1
      <4> HIDE DEF Best
      <4> QED BY <4>2, <4>3, <4>4
    <3>2. ReadBefore(T, out[i], out[j])
      BY <2>1, <2>5
    <3> QED BY <2>5, <3>1, <3>2 DEF ReadBefore
  <2>6. \A i, j \in DOMAIN out : i < j /\ out[i].section.file = out[j].section.file =>
           /\ \A l \in i .. j : out[l].section.file = out[i].section.file
           /\ out[i].placed /\ out[j].placed =>
                out[i].section.position < out[j].section.position
    BY <2>1, <2>5
  <2> QED BY <2>4, <2>6 DEF ReadsInOrder, out
<1> QED BY <1>2, <1>3, <1>4

-----------------------------------------------------------------------------
(* Searches. *)

(* What a search is called with.                                            *)
Search(s) ==
  /\ IsFiniteSet(DOMAIN s.boosts) /\ DOMAIN s.boosts \subseteq Int
  /\ \A id \in DOMAIN s.boosts : s.boosts[id].priority \in Nat /\ s.boosts[id].words \in Nat
  /\ s.limit \in Nat
  /\ \A x \in Strategies :
       s.lists[x] \in Seq(DOMAIN s.boosts) /\ s.passed[x] \in 0 .. Len(s.lists[x])

(* A greater divisor gives no greater quotient.                             *)
LEMMA DivisionFalls ==
  ASSUME NEW n \in Nat, NEW a \in Nat \ {0}, NEW b \in Nat \ {0}, a <= b
  PROVE  /\ n \div a \in Nat /\ n \div b \in Nat /\ n \div b <= n \div a
<1> DEFINE p == n \div a
           q == n \div b
<1>1. p \in Nat /\ p * a <= n /\ n < p * a + a
  OBVIOUS
<1>2. q \in Nat /\ q * b <= n /\ n < q * b + b
  OBVIOUS
<1> HIDE DEF p, q
<1>3. SUFFICES ASSUME p < q PROVE FALSE
  BY <1>1, <1>2 DEF p, q
<1>4. PICK d \in Nat : q = p + 1 + d
  <2>1. q - p - 1 \in Nat /\ q = p + 1 + (q - p - 1)
    BY <1>1, <1>2, <1>3
  <2> QED BY <2>1
<1>5. PICK c \in Nat : b = a + c
  <2>1. b - a \in Nat /\ b = a + (b - a)
    OBVIOUS
  <2> QED BY <2>1
<1>6. q * b = p * a + a + d * a + q * c
  BY <1>1, <1>2, <1>4, <1>5
<1>7. d * a \in Nat /\ q * c \in Nat /\ p * a \in Nat
  BY <1>1, <1>2
<1> QED BY <1>1, <1>2, <1>6, <1>7

(* While the number is large beside the divisors it gives a smaller one.    *)
LEMMA DivisionDrops ==
  ASSUME NEW n \in Nat, NEW a \in Nat \ {0}, NEW b \in Nat \ {0}, a < b, b <= 244, 59536 <= n
  PROVE  n \div b < n \div a
<1> DEFINE p == n \div a
           q == n \div b
<1>1. p \in Nat /\ p * a <= n /\ n < p * a + a
  OBVIOUS
<1>2. q \in Nat /\ q * b <= n
  OBVIOUS
<1> HIDE DEF p, q
<1>3. SUFFICES ASSUME p <= q PROVE FALSE
  BY <1>1, <1>2 DEF p, q
<1>4. PICK d \in Nat : q = p + d
  <2>1. q - p \in Nat /\ q = p + (q - p)
    BY <1>1, <1>2, <1>3
  <2> QED BY <2>1
<1>5. PICK c \in Nat : b = a + 1 + c
  <2>1. b - a - 1 \in Nat /\ b = a + 1 + (b - a - 1)
    OBVIOUS
  <2> QED BY <2>1
<1>6. q * b = p * a + p + p * c + d * b
  BY <1>1, <1>2, <1>4, <1>5
<1>7. p * a \in Nat /\ p * c \in Nat /\ d * b \in Nat
  BY <1>1
<1>8. p < a
  BY <1>1, <1>2, <1>6, <1>7
<1>9. PICK e \in Nat : 243 = p + e
  <2>1. 243 - p \in Nat /\ 243 = p + (243 - p)
    BY <1>1, <1>8
  <2> QED BY <2>1
<1>10. 243 * a = p * a + e * a /\ e * a \in Nat
  BY <1>1, <1>9
<1> QED BY <1>1, <1>7, <1>10

(* The worth of a rank falls, and strictly as far down as two of a rank are *)
(* worth as much as one of the first.                                       *)
LEMMA WorthFalls ==
  ASSUME NEW i \in Nat \ {0}, NEW j \in Nat \ {0}, i <= j
  PROVE  /\ Worth(i) \in Nat /\ Worth(j) \in Nat /\ Worth(j) <= Worth(i)
         /\ i < j /\ j <= LastOfTwo => Worth(j) < Worth(i)
<1>0. LastOfTwo = 62 /\ One \in Nat /\ One >= 59536
  BY SMT DEF LastOfTwo, One
<1>1. PICK a \in Nat \ {0} : a = 2 * (60 + i)
  OBVIOUS
<1>a. PICK b \in Nat \ {0} : b = 2 * (60 + j)
  OBVIOUS
<1>b. a <= b /\ (i < j => a < b) /\ (j <= 62 => a <= 244 /\ b <= 244)
  BY <1>1, <1>a
<1>c. PICK n \in Nat : n = One /\ n >= 59536
  BY <1>0
<1> DEFINE p == n \div a
           q == n \div b
<1>2. p \in Nat /\ q \in Nat /\ q <= p
  BY <1>b, DivisionFalls
<1>3. i < j /\ j <= LastOfTwo => q < p
  <2> SUFFICES ASSUME i < j, j <= LastOfTwo PROVE q < p
    OBVIOUS
  <2>1. b <= 244 /\ a < b /\ 59536 <= n
    BY <1>0, <1>b, <1>c
  <2> QED BY <2>1, DivisionDrops
<1>4. Worth(i) = p * 61 /\ Worth(j) = q * 61
  <2>1. Worth(i) = (One \div (2 * (60 + i))) * 61 /\ Worth(j) = (One \div (2 * (60 + j))) * 61
    BY DEF Worth, RRF_K
  <2> QED BY <1>1, <1>a, <1>c, <2>1
<1> HIDE DEF p, q
<1> QED BY <1>2, <1>3, <1>4

Most == Worth(1)
Fewest == Worth(LastOfTwo)

(* The worth of every rank is a part of the first's, of half of it and more *)
(* for those that are worth it.                                             *)
LEMMA WorthIs ==
  /\ Most \in Nat /\ Fewest \in Nat /\ Most <= Fewest + Fewest
  /\ LastOfTwo \in Nat \ {0}
  /\ \A i \in Nat \ {0} : /\ Worth(i) \in 0 .. Most
                          /\ i <= LastOfTwo => Fewest <= Worth(i)
<1>0. LastOfTwo = 62
  BY DEF LastOfTwo
<1>1. Worth(1) = 381225600 /\ Worth(62) = 190612800
  BY SMT DEF Worth, RRF_K, One
<1>2. Most \in Nat /\ Fewest \in Nat /\ Most <= Fewest + Fewest
  BY <1>0, <1>1 DEF Most, Fewest
<1>3. ASSUME NEW i \in Nat \ {0}
      PROVE  Worth(i) \in 0 .. Most /\ (i <= LastOfTwo => Fewest <= Worth(i))
  <2>1. Worth(i) \in Nat /\ Worth(i) <= Worth(1)
    <3>1. 1 \in Nat \ {0} /\ 1 <= i
      OBVIOUS
    <3> QED BY <3>1, WorthFalls
  <2>2. i <= LastOfTwo => Worth(LastOfTwo) <= Worth(i)
    <3>1. LastOfTwo \in Nat \ {0}
      BY <1>0
    <3> QED BY <3>1, WorthFalls
  <2> QED BY <1>2, <2>1, <2>2 DEF Most, Fewest
<1> QED BY <1>0, <1>2, <1>3

(* What a strategy adds for a section.                                      *)
LEMMA ShareIs ==
  ASSUME NEW s, Search(s), NEW x \in Strategies, NEW id
  PROVE  /\ x \in Holders(s, id) =>
              /\ RankIn(s, x, id) \in Nat \ {0}
              /\ Floored(s)[x][RankIn(s, x, id)] = id
              /\ Share(s, x, id) = Worth(RankIn(s, x, id))
         /\ x \notin Holders(s, id) => Share(s, x, id) = 0
         /\ Share(s, x, id) \in 0 .. Most
<1> DEFINE l == Floored(s)[x]
<1>1. Len(l) \in Nat /\ DOMAIN l = 1 .. Len(l)
  <2>1. s.lists[x] \in Seq(DOMAIN s.boosts) /\ s.passed[x] \in 0 .. Len(s.lists[x])
    BY DEF Search
  <2>2. l = SubSeq(s.lists[x], 1, s.passed[x])
    BY DEF Floored
  <2> HIDE DEF l
  <2> QED BY <2>1, <2>2
<1>2. ASSUME x \in Holders(s, id)
      PROVE  /\ RankIn(s, x, id) \in Nat \ {0}
             /\ Floored(s)[x][RankIn(s, x, id)] = id
             /\ Share(s, x, id) = Worth(RankIn(s, x, id))
  <2>1. \E i \in 1 .. Len(l) : l[i] = id
    BY <1>2 DEF Holders, Contains
  <2>2. RankIn(s, x, id) = CHOOSE i \in DOMAIN l : l[i] = id
    BY DEF RankIn
  <2>3. Share(s, x, id) = Worth(RankIn(s, x, id))
    BY <1>2 DEF Share
  <2> HIDE DEF l
  <2>4. RankIn(s, x, id) \in 1 .. Len(l) /\ l[RankIn(s, x, id)] = id
    BY <1>1, <2>1, <2>2
  <2> QED BY <1>1, <2>3, <2>4 DEF l
<1>3. x \notin Holders(s, id) => Share(s, x, id) = 0
  BY DEF Share
<1> QED BY <1>2, <1>3, WorthIs

(* The score of what is no worse and boosted as much is no smaller.         *)
Shares(s, id) == Share(s, "lexical", id) + Share(s, "vector", id)

(* Boosts and cuts at One keep the order of the sums, but where both are cut. *)
LEMMA ScoreRises ==
  ASSUME NEW s, Search(s), NEW a \in Found(s), NEW b \in Found(s),
         Shares(s, b) <= Shares(s, a), BoostedAsMuch(s, a, b)
  PROVE  /\ Score(s, a) \in Nat /\ Score(s, b) \in Nat /\ Score(s, a) >= Score(s, b)
         /\ Shares(s, b) < Shares(s, a) => Score(s, a) > Score(s, b) \/ Score(s, b) = One
<1> DEFINE p == s.boosts[a].priority
           q == s.boosts[b].priority
           u == s.boosts[a].words
           v == s.boosts[b].words
           n == Shares(s, a)
           m == Shares(s, b)
           c == One \div 100
<1>1. p \in Nat /\ q \in Nat /\ u \in Nat /\ v \in Nat /\ q <= p /\ v <= u
  BY DEF Search, Found, BoostedAsMuch
<1>2. n \in Nat /\ m \in Nat /\ m <= n
  BY ShareIs DEF Strategies, Shares
<1>3. c \in Nat /\ One \in Nat
  BY SMT DEF One
<1>4. /\ Score(s, a) = Least(One, Least(One, Least(One, n) + p * c) + u * c)
      /\ Score(s, b) = Least(One, Least(One, Least(One, m) + q * c) + v * c)
  BY DEF Score, Normalized, Shares
<1> HIDE DEF n, m, p, q, u, v, c
<1>5. \A i, j \in Nat : Least(i, j) \in Nat
  BY DEF Least
<1>6. \A i, j \in Nat : j <= i => Least(One, j) <= Least(One, i)
  BY <1>3 DEF Least
<1>7. /\ p * c \in Nat /\ q * c \in Nat /\ u * c \in Nat /\ v * c \in Nat
      /\ q * c <= p * c /\ v * c <= u * c
  <2>1. \A i, j \in Nat : j <= i => i * c \in Nat /\ j * c \in Nat /\ j * c <= i * c
    <3>1. ASSUME NEW i \in Nat, NEW j \in Nat, j <= i
          PROVE  i * c \in Nat /\ j * c \in Nat /\ j * c <= i * c
      <4>1. PICK d \in Nat : i = j + d
        <5>1. i - j \in Nat /\ i = j + (i - j)
          BY <3>1
        <5> QED BY <5>1
      <4>2. i * c = j * c + d * c
        BY <1>3, <4>1
      <4>3. j * c \in Nat /\ d * c \in Nat
        BY <1>3
      <4> QED BY <4>2, <4>3
    <3> QED BY <3>1
  <2> QED BY <1>1, <2>1
<1> DEFINE n1 == Least(One, n) + p * c
           m1 == Least(One, m) + q * c
           n2 == Least(One, n1) + u * c
           m2 == Least(One, m1) + v * c
<1>8. n1 \in Nat /\ m1 \in Nat /\ m1 <= n1
  <2>1. Least(One, n) \in Nat /\ Least(One, m) \in Nat /\ Least(One, m) <= Least(One, n)
    BY <1>2, <1>3, <1>5, <1>6
  <2> QED BY <1>7, <2>1
<1> HIDE DEF n1, m1
<1>9. n2 \in Nat /\ m2 \in Nat /\ m2 <= n2
  <2>1. Least(One, n1) \in Nat /\ Least(One, m1) \in Nat /\ Least(One, m1) <= Least(One, n1)
    BY <1>3, <1>5, <1>6, <1>8
  <2> QED BY <1>7, <2>1
<1> HIDE DEF n2, m2
<1>10. Score(s, a) = Least(One, n2) /\ Score(s, b) = Least(One, m2)
  BY <1>4 DEF n1, m1, n2, m2
<1>11. Least(One, n2) \in Nat /\ Least(One, m2) \in Nat /\ Least(One, m2) <= Least(One, n2)
  BY <1>3, <1>5, <1>6, <1>9
<1>12. ASSUME m < n PROVE Score(s, a) > Score(s, b) \/ Score(s, b) = One
  <2>1. \A i, j \in Nat : j < i => Least(One, j) < Least(One, i) \/ Least(One, j) = One
    BY <1>3 DEF Least
  <2>2. \A j \in Nat : j >= One => Least(One, j) = One
    BY <1>3 DEF Least
  <2>3. m1 < n1 \/ m1 >= One
    <3>1. Least(One, m) < Least(One, n) \/ Least(One, m) = One
      BY <1>2, <1>12, <2>1
    <3>2. Least(One, m) \in Nat /\ Least(One, n) \in Nat
      BY <1>2, <1>3, <1>5
    <3> QED BY <1>3, <1>7, <3>1, <3>2 DEF m1, n1
  <2>4. m2 < n2 \/ m2 >= One
    <3>1. Least(One, m1) < Least(One, n1) \/ Least(One, m1) = One
      BY <1>8, <2>1, <2>2, <2>3
    <3>2. Least(One, m1) \in Nat /\ Least(One, n1) \in Nat
      BY <1>8, <1>3, <1>5
    <3> QED BY <1>3, <1>7, <3>1, <3>2 DEF m2, n2
  <2>5. Least(One, m2) < Least(One, n2) \/ Least(One, m2) = One
    BY <1>9, <2>1, <2>2, <2>4
  <2> QED BY <1>10, <1>11, <2>5
<1> QED BY <1>10, <1>11, <1>12 DEF n, m

(* So scores follow the ranks, and two strategies are worth one at least.   *)
LEMMA ScoresFollow ==
  ASSUME NEW s, Search(s)
  PROVE  ScoresFollowRanks(s)
<1> SUFFICES ASSUME NEW a \in Found(s), NEW b \in Found(s)
             PROVE  /\ Dominates(s, a, b) => Score(s, a) >= Score(s, b)
                    /\ Dominates(s, a, b) /\ a # b /\ Topmost(s, a) /\ Topmost(s, b) =>
                         Score(s, a) > Score(s, b) \/ Score(s, b) = One
                    /\ /\ Holders(s, a) = Strategies /\ Holders(s, b) # Strategies
                       /\ Topmost(s, a) /\ BoostedAsMuch(s, a, b)
                       => Score(s, a) >= Score(s, b)
  BY DEF ScoresFollowRanks
<1>0. "lexical" \in Strategies /\ "vector" \in Strategies
  BY DEF Strategies
<1>1. \A x \in Strategies : Share(s, x, a) \in 0 .. Most /\ Share(s, x, b) \in 0 .. Most
  BY ShareIs
<1>2. ASSUME Dominates(s, a, b)
      PROVE  /\ Score(s, a) >= Score(s, b)
             /\ a # b /\ Topmost(s, b) => Score(s, a) > Score(s, b) \/ Score(s, b) = One
  <2>1. ASSUME NEW x \in Strategies
        PROVE  /\ Share(s, x, b) <= Share(s, x, a)
               /\ a # b /\ Topmost(s, b) /\ x \in Holders(s, b) => Share(s, x, b) < Share(s, x, a)
    <3>1. CASE x \in Holders(s, b)
      <4>1. x \in Holders(s, a) /\ RankIn(s, x, a) <= RankIn(s, x, b)
        BY <1>2, <3>1 DEF Dominates
      <4>2. /\ RankIn(s, x, a) \in Nat \ {0} /\ Share(s, x, a) = Worth(RankIn(s, x, a))
            /\ RankIn(s, x, b) \in Nat \ {0} /\ Share(s, x, b) = Worth(RankIn(s, x, b))
            /\ Floored(s)[x][RankIn(s, x, a)] = a /\ Floored(s)[x][RankIn(s, x, b)] = b
        BY <3>1, <4>1, ShareIs
      <4>3. a # b => RankIn(s, x, a) < RankIn(s, x, b)
        BY <4>1, <4>2
      <4>4. Topmost(s, b) => RankIn(s, x, b) <= LastOfTwo
        BY <3>1 DEF Topmost
      <4> QED BY <4>1, <4>2, <4>3, <4>4, WorthFalls
    <3>2. CASE x \notin Holders(s, b)
      <4>1. Share(s, x, b) = 0
        BY <3>2, ShareIs
      <4> QED BY <1>1, <3>2, <4>1
    <3> QED BY <3>1, <3>2
  <2>2. Shares(s, b) <= Shares(s, a)
    BY <1>0, <1>1, <2>1 DEF Shares
  <2>3. BoostedAsMuch(s, a, b)
    BY <1>2 DEF Dominates
  <2>4. ASSUME a # b, Topmost(s, b) PROVE Shares(s, b) < Shares(s, a)
    <3>1. PICK x \in Strategies : x \in Holders(s, b)
      BY DEF Found, Holders
    <3>2. Share(s, x, b) < Share(s, x, a)
      BY <2>1, <2>4, <3>1
    <3>3. x = "lexical" \/ x = "vector"
      BY DEF Strategies
    <3> QED BY <1>0, <1>1, <2>1, <3>2, <3>3 DEF Shares
  <2> QED BY <2>2, <2>3, <2>4, ScoreRises
<1>3. ASSUME Holders(s, a) = Strategies, Holders(s, b) # Strategies, BoostedAsMuch(s, a, b),
             Topmost(s, a)
      PROVE  Score(s, a) >= Score(s, b)
  <2>1. \A x \in Strategies : Share(s, x, a) \in Nat /\ Fewest <= Share(s, x, a)
    <3>1. ASSUME NEW x \in Strategies PROVE Share(s, x, a) \in Nat /\ Fewest <= Share(s, x, a)
      <4>1. RankIn(s, x, a) \in Nat \ {0} /\ Share(s, x, a) = Worth(RankIn(s, x, a))
        BY <1>3, ShareIs
      <4>2. RankIn(s, x, a) <= LastOfTwo
        BY <1>3 DEF Topmost
      <4> QED BY <4>1, <4>2, WorthIs
    <3> QED BY <3>1
  <2>2. PICK x \in Strategies : x \notin Holders(s, b)
    BY <1>3 DEF Holders
  <2>3. Share(s, x, b) = 0
    BY <2>2, ShareIs
  <2>4. Shares(s, b) <= Most
    BY <1>0, <1>1, <2>2, <2>3, WorthIs DEF Shares, Strategies
  <2>5. Shares(s, b) <= Shares(s, a)
    <3>1. Shares(s, a) >= Fewest + Fewest /\ Shares(s, a) \in Nat /\ Shares(s, b) \in Nat
      BY <1>0, <1>1, <2>1, WorthIs DEF Shares
    <3> QED BY <2>4, <3>1, WorthIs
  <2> QED BY <1>3, <2>5, ScoreRises
<1> QED BY <1>2, <1>3

(* What is found is ranked by its score, all of it once.                    *)
LEMMA MergedIs ==
  ASSUME NEW s, Search(s)
  PROVE  LET m == Merged(s)
             n == Cardinality(Found(s)) IN
         /\ n \in Nat /\ m \in [1 .. n -> Found(s)]
         /\ \A id \in Found(s) : \E i \in 1 .. n : m[i] = id
         /\ \A i, j \in 1 .. n : i < j => Leads(s, m[i], m[j])
<1> DEFINE F == Found(s)
           score == [id \in F |-> Score(s, id)]
           R == {p \in F \X F : Ahead(score, p[1], p[2])}
           n == Cardinality(F)
           m == Sorted(F, R)
<1>1. Merged(s) = m
  BY DEF Merged
<1>2. IsFiniteSet(F) /\ F \subseteq Int
  <2>1. F \subseteq DOMAIN s.boosts
    BY DEF Found
  <2>2. IsFiniteSet(DOMAIN s.boosts) /\ DOMAIN s.boosts \subseteq Int
    BY DEF Search
  <2> HIDE DEF F
  <2> QED BY <2>1, <2>2, FS_Subset
<1>3. ASSUME NEW id \in F PROVE score[id] = Score(s, id) /\ score[id] \in Nat
  <2>1. BoostedAsMuch(s, id, id) /\ Shares(s, id) <= Shares(s, id)
    <3>1. s.boosts[id].priority \in Nat /\ s.boosts[id].words \in Nat
      BY DEF Search, Found
    <3>2. Shares(s, id) \in Nat
      BY ShareIs DEF Shares, Strategies
    <3> QED BY <3>1, <3>2 DEF BoostedAsMuch
  <2> QED BY <2>1, ScoreRises
<1>4. \A x, y \in F : <<x, y>> \in R <=> Ahead(score, x, y)
  OBVIOUS
<1> HIDE DEF F, score, R
<1>5. Orders(F, R)
  <2>1. \A x \in F : <<x, x>> \notin R
    BY <1>2, <1>3, <1>4 DEF Ahead
  <2>2. \A x, y, z \in F : <<x, y>> \in R /\ <<y, z>> \in R => <<x, z>> \in R
    BY <1>2, <1>3, <1>4 DEF Ahead
  <2>3. ASSUME NEW x \in F, NEW y \in F PROVE x = y \/ <<x, y>> \in R \/ <<y, x>> \in R
    <3>1. x \in Int /\ y \in Int /\ score[x] \in Nat /\ score[y] \in Nat
      BY <1>2, <1>3
    <3>2. x = y \/ Ahead(score, x, y) \/ Ahead(score, y, x)
      BY <3>1 DEF Ahead
    <3> QED BY <1>4, <3>2
  <2> QED BY <2>1, <2>2, <2>3 DEF Orders
<1>6. /\ m \in [1 .. n -> F] /\ n \in Nat
      /\ \A x \in F : \E i \in 1 .. n : m[i] = x
      /\ \A i, j \in 1 .. n : i < j => <<m[i], m[j]>> \in R
  BY <1>2, <1>5, SortedIs
<1> HIDE DEF m, n
<1>7. ASSUME NEW i \in 1 .. n, NEW j \in 1 .. n, i < j
      PROVE  Leads(s, m[i], m[j])
  <2>1. m[i] \in F /\ m[j] \in F /\ <<m[i], m[j]>> \in R
    BY <1>6, <1>7
  <2>2. Ahead(score, m[i], m[j])
    BY <1>4, <2>1
  <2>3. score[m[i]] = Score(s, m[i]) /\ score[m[j]] = Score(s, m[j])
    BY <1>3, <2>1
  <2> QED BY <2>2, <2>3 DEF Ahead, Leads
<1> QED BY <1>1, <1>6, <1>7 DEF F, n

(* The first of it are accepted, as many as were asked for.                 *)
LEMMA SearchIsSoundAlways ==
  ASSUME NEW s, Search(s)
  PROVE  SearchIsSound(s)
<1> DEFINE m == Merged(s)
           n == Cardinality(Found(s))
           k == Least(s.limit, n)
           l == Accepted(s)
<1>1. /\ n \in Nat /\ m \in [1 .. n -> Found(s)]
      /\ \A id \in Found(s) : \E i \in 1 .. n : m[i] = id
      /\ \A i, j \in 1 .. n : i < j => Leads(s, m[i], m[j])
  BY MergedIs
<1>2. m \in Seq(Found(s)) /\ Len(m) = n
  BY <1>1
<1>3. k \in 0 .. n
  BY <1>1 DEF Least, Search
<1>4. l = SubSeq(m, 1, k)
  BY <1>2 DEF Accepted
<1> HIDE DEF m, k, l
<1>5. Len(l) = k /\ DOMAIN l = 1 .. k /\ \A i \in 1 .. k : l[i] = m[i] /\ i \in 1 .. n
  BY <1>1, <1>2, <1>3, <1>4
<1>6. Range(l) = {m[i] : i \in 1 .. k}
  BY <1>5 DEF Range
<1>7. Range(l) \subseteq Found(s)
  BY <1>1, <1>5, <1>6
<1>9. ASSUME NEW a \in Range(l), NEW b \in Found(s) \ Range(l)
      PROVE  Leads(s, a, b)
  <2>1. PICK i \in 1 .. k : a = m[i]
    BY <1>6
  <2>2. PICK j \in 1 .. n : b = m[j]
    BY <1>1
  <2>3. j \notin 1 .. k
    BY <1>6, <2>2
  <2>4. i \in 1 .. n /\ i < j
    BY <1>1, <1>3, <2>3
  <2> QED BY <1>1, <2>1, <2>2, <2>4
<1>10. \A i, j \in DOMAIN l : i < j => Leads(s, l[i], l[j])
  BY <1>1, <1>5
<1>11. Len(l) = Least(s.limit, n)
  BY <1>5 DEF k
<1> QED BY <1>7, <1>9, <1>10, <1>11 DEF SearchIsSound, l

-----------------------------------------------------------------------------
(* Calls. *)

(* A call is one that is made with arguments the program accepts.           *)
CallsAreLegal ==
  /\ call.of = "split" =>
       /\ call.with.tokens \in Nat /\ call.with.limit \in Nat /\ call.with.overlap \in Nat
       /\ Splits(call.with.limit, call.with.overlap)
  /\ call.of = "decide" => Requested(call.with)
  /\ call.of = "parse" => call.with \in Seq(Lines)
  /\ call.of = "fuse" => Search(call.with)
  /\ call.of = "assemble" => Assembly(call.with)

(* No call has been made at first, and whatever is called next is legal.    *)
LEMMA InitLegal == Init => CallsAreLegal
BY DEF Init, NoCall, CallsAreLegal

(* A ranking is a sequence without repetition.                              *)
LEMMA RankingIs ==
  ASSUME NEW S, NEW n \in Nat, NEW r \in Rankings(S, n)
  PROVE  /\ r \in Seq(S) /\ Len(r) \in 0 .. n /\ DOMAIN r = 1 .. Len(r)
         /\ \A i, j \in DOMAIN r : r[i] = r[j] => i = j
<1>1. PICK k \in 0 .. n : r \in [1 .. k -> S] /\ \A i, j \in 1 .. k : r[i] = r[j] => i = j
  BY DEF Rankings
<1> QED BY <1>1

(* A search is called with what its hypotheses say.                         *)
LEMMA FuseIsLegal ==
  ASSUME FuseLists
  PROVE  call'.of = "fuse" /\ Search(call'.with)
<1>0. MaxRank \in Nat /\ IsFiniteSet(Sections) /\ Sections \subseteq Int
  <2>1. MaxRank \in Nat
    BY AlgorithmsAssumption
  <2>2. 1 \in Int /\ MaxRank \in Int
    BY <2>1
  <2>3. IsFiniteSet(1 .. MaxRank)
    BY <2>2, FS_Interval
  <2> QED BY <2>1, <2>3 DEF Sections
<1>1. PICK limit \in 1 .. MaxRank :
        \E lexical, vector \in Rankings(Sections, limit) :
        \E low \in 0 .. Len(lexical), near \in 0 .. Len(vector), boosts \in [Sections -> Boosts] :
          Called("fuse", [lists  |-> [lexical |-> lexical, vector |-> vector],
                          passed |-> [lexical |-> low, vector |-> near],
                          boosts |-> boosts, limit |-> limit])
  BY DEF FuseLists
<1>2. PICK lexical \in Rankings(Sections, limit), vector \in Rankings(Sections, limit) :
        \E low \in 0 .. Len(lexical), near \in 0 .. Len(vector), boosts \in [Sections -> Boosts] :
          Called("fuse", [lists  |-> [lexical |-> lexical, vector |-> vector],
                          passed |-> [lexical |-> low, vector |-> near],
                          boosts |-> boosts, limit |-> limit])
  BY <1>1
<1>3. PICK low \in 0 .. Len(lexical), near \in 0 .. Len(vector), boosts \in [Sections -> Boosts] :
          Called("fuse", [lists  |-> [lexical |-> lexical, vector |-> vector],
                          passed |-> [lexical |-> low, vector |-> near],
                          boosts |-> boosts, limit |-> limit])
  BY <1>2
<1> DEFINE s == [lists  |-> [lexical |-> lexical, vector |-> vector],
                 passed |-> [lexical |-> low, vector |-> near],
                 boosts |-> boosts, limit |-> limit]
<1>4. call' = [of |-> "fuse", with |-> s]
  BY <1>3 DEF Called
<1>5. limit \in Nat
  OBVIOUS
<1>6. /\ s.lists["lexical"] = lexical /\ s.lists["vector"] = vector
      /\ s.passed["lexical"] = low /\ s.passed["vector"] = near
      /\ s.boosts = boosts /\ s.limit = limit /\ DOMAIN boosts = Sections
  OBVIOUS
<1>7. \A id \in Sections : boosts[id].priority \in Nat /\ boosts[id].words \in Nat
  BY BoostsAssumption
<1>8. /\ lexical \in Seq(Sections) /\ Len(lexical) \in 0 .. limit
      /\ vector \in Seq(Sections) /\ Len(vector) \in 0 .. limit
  BY <1>5, RankingIs
<1> HIDE DEF s
<1>9. \A x \in Strategies :
        s.lists[x] \in Seq(DOMAIN s.boosts) /\ s.passed[x] \in 0 .. Len(s.lists[x])
  <2>1. \A x \in Strategies : x = "lexical" \/ x = "vector"
    BY DEF Strategies
  <2> QED BY <1>6, <1>8, <2>1
<1>10. Search(s)
  BY <1>0, <1>5, <1>6, <1>7, <1>9 DEF Search
<1> QED BY <1>4, <1>10

(* The hits of an assembly come with scores that fall.                      *)
LEMMA AssembleIsLegal ==
  ASSUME AssembleContext
  PROVE  call'.of = "assemble" /\ Assembly(call'.with)
<1> DEFINE Scored(hits) ==
             [h \in Range(hits) |-> 1 + MaxHits - CHOOSE i \in DOMAIN hits : hits[i] = h]
           Made(hits, gone, tokens, budget, window, trim) ==
             [hits |-> hits, gone |-> gone, tokens |-> tokens, budget |-> budget,
              score |-> Scored(hits), window |-> window, trim |-> trim]
<1>1. PICK hits \in Rankings(Index, MaxHits) \ {<< >>} : \E gone \in SUBSET Range(hits) :
        \E tokens \in [Index -> SectionTokens], budget \in Budgets :
        \E window \in 0 .. MaxWindow, trim \in 0 .. 1 :
          Called("assemble", Made(hits, gone, tokens, budget, window, trim))
  BY DEF AssembleContext
<1>2. PICK gone \in SUBSET Range(hits), tokens \in [Index -> SectionTokens], budget \in Budgets :
        \E window \in 0 .. MaxWindow, trim \in 0 .. 1 :
          Called("assemble", Made(hits, gone, tokens, budget, window, trim))
  BY <1>1
<1>3. PICK window \in 0 .. MaxWindow, trim \in 0 .. 1 :
        Called("assemble", Made(hits, gone, tokens, budget, window, trim))
  BY <1>2
<1> DEFINE s == Made(hits, gone, tokens, budget, window, trim)
<1>4. call' = [of |-> "assemble", with |-> s]
  BY <1>3 DEF Called
<1>5. /\ s.hits = hits /\ s.tokens = tokens /\ s.budget = budget /\ s.trim = trim
      /\ s.score = Scored(hits)
  OBVIOUS
<1>6. MaxHits \in Nat
  BY AlgorithmsAssumption
<1>7. /\ hits \in Seq(Index) /\ Len(hits) \in 0 .. MaxHits /\ DOMAIN hits = 1 .. Len(hits)
      /\ \A i, j \in DOMAIN hits : hits[i] = hits[j] => i = j
  BY <1>6, RankingIs
<1>8. ASSUME NEW i \in DOMAIN hits
      PROVE  Scored(hits)[hits[i]] = 1 + MaxHits - i
  <2>1. hits[i] \in Range(hits)
    BY DEF Range
  <2>2. (CHOOSE j \in DOMAIN hits : hits[j] = hits[i]) = i
    BY <1>7
  <2> QED BY <2>1, <2>2
<1> HIDE DEF s, Scored
<1>9. \A h \in Range(hits) : s.score[h] \in Nat
  <2>1. ASSUME NEW h \in Range(hits) PROVE s.score[h] \in Nat
    <3>1. PICK i \in DOMAIN hits : h = hits[i]
      BY DEF Range
    <3>2. s.score[h] = 1 + MaxHits - i
      BY <1>5, <1>8, <3>1
    <3>3. i \in 1 .. MaxHits
      BY <1>6, <1>7
    <3> QED BY <1>6, <3>2, <3>3
  <2> QED BY <2>1
<1>10. \A i, j \in DOMAIN hits : i < j => s.score[hits[i]] > s.score[hits[j]]
  <2>1. ASSUME NEW i \in DOMAIN hits, NEW j \in DOMAIN hits, i < j
        PROVE  s.score[hits[i]] > s.score[hits[j]]
    <3>1. s.score[hits[i]] = 1 + MaxHits - i /\ s.score[hits[j]] = 1 + MaxHits - j
      BY <1>5, <1>8
    <3>2. i \in Nat /\ j \in Nat
      BY <1>7
    <3> QED BY <1>6, <2>1, <3>1, <3>2
  <2> QED BY <2>1
<1>11. tokens \in [Index -> Nat] /\ budget \in Nat \ {0} /\ trim \in 0 .. 1
  BY IndexAssumption
<1>12. Assembly(s)
  BY <1>5, <1>7, <1>9, <1>10, <1>11 DEF Assembly
<1> QED BY <1>4, <1>12

LEMMA NextLegal == CallsAreLegal /\ [Next]_call => CallsAreLegal'
<1> SUFFICES ASSUME CallsAreLegal, [Next]_call PROVE CallsAreLegal'
  OBVIOUS
<1>1. CASE SplitSection
  BY <1>1, AlgorithmsAssumption DEF SplitSection, Called, CallsAreLegal
<1>2. CASE DecideRequest
  <2>1. PICK login \in Logins, cfg \in Configurations, same \in BOOLEAN, safe \in BOOLEAN,
             csrf \in BOOLEAN, key \in BOOLEAN, now \in 1 .. 2 :
          Called("decide",
            [login |-> login, same |-> same, cfg |-> cfg,
             req |-> [safe |-> safe, cookie |-> Kept(LoginCookie(login), same), now |-> now,
                      csrf |-> csrf, key |-> key]])
    BY <1>2 DEF DecideRequest
  <2> DEFINE c == [login |-> login, same |-> same, cfg |-> cfg,
                   req |-> [safe |-> safe, cookie |-> Kept(LoginCookie(login), same), now |-> now,
                            csrf |-> csrf, key |-> key]]
  <2>2. Requested(c)
    BY DEF Requested
  <2>3. call' = [of |-> "decide", with |-> c]
    BY <2>1 DEF Called
  <2> HIDE DEF c
  <2> QED BY <2>2, <2>3 DEF CallsAreLegal
<1>3. CASE ParseDocument
  <2>1. PICK n \in 0 .. MaxLines : \E lines \in [1 .. n -> Lines] : Called("parse", lines)
    BY <1>3 DEF ParseDocument
  <2>2. PICK lines \in [1 .. n -> Lines] : Called("parse", lines)
    BY <2>1
  <2>3. n \in Nat
    BY AlgorithmsAssumption
  <2>4. lines \in Seq(Lines) /\ call' = [of |-> "parse", with |-> lines]
    BY <2>2, <2>3 DEF Called
  <2> QED BY <2>4 DEF CallsAreLegal
<1>4. CASE FuseLists
  BY <1>4, FuseIsLegal DEF CallsAreLegal
<1>5. CASE AssembleContext
  BY <1>5, AssembleIsLegal DEF CallsAreLegal
<1>6. CASE UNCHANGED call
  BY <1>6 DEF CallsAreLegal, Search, Assembly, Requested
<1> QED
  BY <1>1, <1>2, <1>3, <1>4, <1>5, <1>6 DEF Next

(* However long a text, a window and an accepted overlap are, every          *)
(* character is read in full from a window, and the windows are tight.       *)
THEOREM SplitStaysLossless == Spec => []SplitIsLossless
<1>1. CallsAreLegal => SplitIsLossless
  BY WindowsLoseNothing, WindowsAreTight DEF CallsAreLegal, SplitIsLossless
<1> QED
  BY <1>1, InitLegal, NextLegal, PTL DEF Spec

(* Under every configuration, whatever has changed since the login: who is   *)
(* served in a role has logged in to that account, in a session that goes on *)
(* and whose secret is in force; who is granted an admin route is the        *)
(* administrator in such a session, has the key, or has met a development    *)
(* server that has no key.                                                   *)
THEOREM AccessStaysProven == Spec => []AccessIsProven
<1>1. CallsAreLegal => AccessIsProven
  BY DecisionsAreProven DEF CallsAreLegal, AccessIsProven
<1> QED
  BY <1>1, InitLegal, NextLegal, PTL DEF Spec

(* Whatever the headings of a document are and however many, those that look *)
(* numbered by the parser among them, no two sections have one slug.         *)
THEOREM SlugsStayDistinct == Spec => []SlugsDiffer
<1>1. CallsAreLegal => SlugsDiffer
  BY SectionsAreSound DEF CallsAreLegal, SlugsDiffer
<1> QED
  BY <1>1, InitLegal, NextLegal, PTL DEF Spec

(* However long a document is, its sections hold every line of it in order,  *)
(* but for metadata with known keys and empty lines.                         *)
THEOREM LinesStayKept == Spec => []LinesKept
<1>1. CallsAreLegal => LinesKept
  BY SectionsAreSound DEF CallsAreLegal, LinesKept
<1> QED
  BY <1>1, InitLegal, NextLegal, PTL DEF Spec

(* However many sections two strategies found, for every limit and whatever  *)
(* the boosts are: the best of those that passed a threshold are accepted,   *)
(* as many as were asked for, in an order that leaves no tie open, and none  *)
(* scores less than one it dominates.  That it scores more, and that two     *)
(* strategies outweigh one, is said of ranks up to 62: a section at rank 63  *)
(* of both lists is worth less than one at the first of one.                 *)
THEOREM SearchStaysRanked == Spec => []SearchFollowsRanks
<1>1. CallsAreLegal => SearchFollowsRanks
  BY SearchIsSoundAlways, ScoresFollow DEF CallsAreLegal, SearchFollowsRanks
<1> QED
  BY <1>1, InitLegal, NextLegal, PTL DEF Spec

(* For every index, all hits in it, every size of its sections, every budget *)
(* and every number of neighbours: a context keeps to its budget, has the    *)
(* best hit in it, no neighbour in the place of a hit, and its documents     *)
(* come one after the other, each in its own order.                          *)
THEOREM ContextStaysFitting == Spec => []ContextFits
<1>1. CallsAreLegal => ContextFits
  BY ContextIsSound DEF CallsAreLegal, ContextFits
<1> QED
  BY <1>1, InitLegal, NextLegal, PTL DEF Spec

=============================================================================
