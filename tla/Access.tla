------------------------------- MODULE Access -------------------------------
(***************************************************************************)
(* Who is served (app/auth/sessions.py, app/api/dependencies.py,           *)
(* app/api/auth.py): sessions are signed cookies and nothing is kept of    *)
(* them, so every request is decided from the configuration and from what  *)
(* it carries.                                                             *)
(*                                                                         *)
(* A configuration is a record of env, student and admin (the account is   *)
(* configured), secret (cookies can be signed) and key (there is an admin  *)
(* API key).  A request is a record of safe (GET, HEAD, OPTIONS or TRACE), *)
(* cookie, csrf (the header equals the token of the cookie), key (the      *)
(* header equals the configured key) and now.  A cookie is the payload     *)
(* [role, expires] with signed: whether its signature is of the secret in  *)
(* force.  A login is a record of cfg, student and admin (the name and     *)
(* password are those of the account in it), early (it was before there    *)
(* were roles), now and ttl.                                               *)
(***************************************************************************)
EXTENDS Integers

NoCookie == [role |-> "none", expires |-> 0, signed |-> FALSE]
Anonymous == "anonymous"

\* platform_auth_is_configured.
Configured(cfg) == cfg.secret /\ (cfg.student \/ cfg.admin)

\* platform_auth_requires_configuration.
Deployed(cfg) == cfg.env \in {"production", "staging"}

\* The role of a name and password: the student account is tried first, so
\* an administrator with the same name and password is a student.
RoleOf(cfg, student, admin) ==
  CASE Configured(cfg) /\ cfg.student /\ student -> "student"
    [] Configured(cfg) /\ ~(cfg.student /\ student) /\ cfg.admin /\ admin -> "admin"
    [] OTHER -> "none"

\* The cookie login sets: it lasts for the configured time.
Issued(role, now, ttl) == [role |-> role, expires |-> now + ttl, signed |-> TRUE]

\* What a login leaves in the browser: before roles existed there was one
\* account, and its cookies are of role platform.
LoginCookie(login) ==
  LET role == RoleOf(login.cfg, login.student, login.admin)
  IN  CASE role = "student" -> Issued(IF login.early THEN "platform" ELSE role, login.now, login.ttl)
        [] role = "admin" /\ ~login.early -> Issued(role, login.now, login.ttl)
        [] OTHER -> NoCookie

\* The cookie when it comes back: its signature is worthless once the secret
\* is another one.
Kept(cookie, same) == [cookie EXCEPT !.signed = @ /\ same]

\* Cookies from before roles existed are of role platform: a student's.
RoleIn(cookie) == IF cookie.role = "platform" THEN "student" ELSE cookie.role

\* verify_platform_session_token: the role of the session, or none.
Session(cfg, req) ==
  IF /\ cfg.secret /\ req.cookie.signed
     /\ RoleIn(req.cookie) \in {"student", "admin"}
     /\ req.now < req.cookie.expires
  THEN RoleIn(req.cookie) ELSE "none"

\* require_platform_access: the role served, or the status of the refusal.
PlatformAccess(cfg, req) ==
  CASE ~Configured(cfg) -> IF Deployed(cfg) THEN "503" ELSE Anonymous
    [] Configured(cfg) /\ Session(cfg, req) = "none" -> "401"
    [] Configured(cfg) /\ Session(cfg, req) # "none" ->
         IF req.safe \/ req.csrf THEN Session(cfg, req) ELSE "403"

\* Slip: an administrator's session is enough, whatever the method.
AdminBySession(cfg, req) ==
  CASE Session(cfg, req) = "admin" -> "granted"
    [] Session(cfg, req) # "admin" /\ cfg.key -> IF req.key THEN "granted" ELSE "401"
    [] Session(cfg, req) # "admin" /\ ~cfg.key -> IF Deployed(cfg) THEN "503" ELSE "granted"

\* require_admin_access: a session that is not enough falls through to the
\* key, and a development server without a key serves everybody.
AdminAccess(cfg, req) ==
  LET bySession == Session(cfg, req) = "admin" /\ (req.safe \/ req.csrf)
  IN  CASE bySession -> "granted"
        [] ~bySession /\ cfg.key -> IF req.key THEN "granted" ELSE "401"
        [] ~bySession /\ ~cfg.key -> IF Deployed(cfg) THEN "503" ELSE "granted"

----------------------------------------------------------------------------
(* What is expected of a decision. *)

\* The account whose name and password were given; the student's is tried
\* first.
Account(login) ==
  IF login.cfg.student /\ login.student THEN "student"
  ELSE IF login.cfg.admin /\ login.admin THEN "admin" ELSE "none"

\* The session of c's login is alive, its secret is in force, and it carries
\* the token where something may change.
Alive(c) ==
  /\ c.same /\ c.cfg.secret /\ c.login.cfg.secret
  /\ c.req.now < c.login.now + c.login.ttl
  /\ c.req.safe \/ c.req.csrf

\* c is a login, a later request and the configuration it meets.
DecidedByProof(c) ==
  LET served == PlatformAccess(c.cfg, c.req)
      granted == AdminAccess(c.cfg, c.req) = "granted"
  IN  /\ served \in {"student", "admin"} => served = Account(c.login) /\ Alive(c)
      /\ Deployed(c.cfg) => served # Anonymous
      /\ served = "admin" => granted
      /\ granted =>
           \/ c.cfg.key /\ c.req.key
           \/ Account(c.login) = "admin" /\ Alive(c)
           \/ ~c.cfg.key /\ ~Deployed(c.cfg)
=============================================================================
