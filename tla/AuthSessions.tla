---------------------------- MODULE AuthSessions ----------------------------
(***************************************************************************)
(* Login, registration, OAuth callback, refresh, logout and the bearer     *)
(* check of pkg/aikit/app/auth, seen from one user with several devices.   *)
(* The revocation list, the token version and the account are kept by the  *)
(* application behind callbacks; each callback is a step of its own, and   *)
(* other requests run between two of them.  A bundle is an access and a    *)
(* refresh token; a token is the kind and the number of its bundle, which  *)
(* stands for its signature and jti.  A reply may be lost on its way.      *)
(* The configuration is the one with every feature on: rotation, both      *)
(* revocation callbacks, token versions, cookies, login after registering. *)
(* Passwords, scopes and the user's profile are not modelled.              *)
(***************************************************************************)
EXTENDS Naturals, Sequences, FiniteSets

CONSTANTS Calls,        \* slots for requests in flight
          Devices,      \* cookie jars of the user
          Providers,    \* OAuth providers
          UseJTI,       \* Config.UseJTI: access tokens have a jti of their own
          UseSID,       \* Config.UseSID
          MaxBundles,   \* bound on bundles issued
          MaxVersion,   \* bound on version bumps
          MaxFaults     \* bound on failing callbacks

AuthAssumption ==
  /\ UseJTI \in BOOLEAN /\ UseSID \in BOOLEAN
  /\ MaxBundles \in Nat /\ MaxVersion \in Nat /\ MaxFaults \in Nat

VARIABLES
  account,   \* the application's record: registered, token version
  bundles,   \* bundles issued so far, in order
  revoked,   \* keys given to RevokeToken
  ended,     \* session ids given to RevokeBySID
  call,      \* requests in flight
  jar,       \* bundle each device holds, 0 if none
  hist       \* history: lost replies, overlapping refreshes, failed callbacks

store == <<account, revoked, ended>>
vars == <<account, bundles, revoked, ended, call, jar, hist>>

Idle == [pc |-> "idle", device |-> CHOOSE d \in Devices : TRUE, kind |-> "login",
         tok |-> 0, ver |-> 0, new |-> 0, doomed |-> FALSE]

\* The key under which a token is revoked: its jti, or the hash of its text,
\* which equal access tokens of the same second share.
RevocationKey(kind, b) ==
  <<kind, IF kind = "access" THEN bundles[b].twin ELSE b>>

Goto(c, pc) == call' = [call EXCEPT ![c].pc = pc]
\* The request is refused: a reply that changes nothing at the device.
Refuse(c) == call' = [call EXCEPT ![c] = Idle]

\* A callback that returns an error ends the request.
Fault(c) ==
  /\ hist.faults < MaxFaults
  /\ hist' = [hist EXCEPT !.faults = @ + 1]
  /\ Refuse(c)
  /\ UNCHANGED <<store, bundles, jar>>

Init ==
  /\ account = [registered |-> FALSE, version |-> 0]
  /\ bundles = <<>>
  /\ revoked = {}
  /\ ended = {}
  /\ call = [c \in Calls |-> Idle]
  /\ jar = [d \in Devices |-> 0]
  /\ hist = [lost |-> FALSE, overlap |-> FALSE, faults |-> 0]

-----------------------------------------------------------------------------
(* Requests that open a session. *)

\* The bound MaxBundles, taken where a request begins that may issue one.
Issuing == {c \in Calls : call[c].pc # "idle" /\ call[c].kind \in {"login", "refresh"} /\ call[c].new = 0}
Room == Len(bundles) + Cardinality(Issuing) < MaxBundles

Arrives(c, d, pc) ==
  /\ call[c].pc = "idle" /\ Room
  /\ call' = [call EXCEPT ![c] = [Idle EXCEPT !.device = d, !.pc = pc]]

Register(c, d) ==
  /\ ~account.registered
  /\ Arrives(c, d, "authenticated")
  /\ account' = [account EXCEPT !.registered = TRUE]
  /\ UNCHANGED <<bundles, revoked, ended, jar, hist>>

\* Authenticate has verified the password and has not yet read the version.
Login(c, d) ==
  /\ account.registered
  /\ Arrives(c, d, "authenticated")
  /\ UNCHANGED <<store, bundles, jar, hist>>

\* buildState: the server keeps nothing, the signed state travels with the
\* browser and comes back young or too old, perhaps to another provider.
BuildState(p) == [provider |-> p, young |-> TRUE]
StateOf(p) == {BuildState(p), [BuildState(p) EXCEPT !.young = FALSE]}
VerifyState(state, p) == state.provider = p /\ state.young

OAuthCallback(c, d, p, q) ==
  /\ \E state \in StateOf(q) : VerifyState(state, p)
  /\ Arrives(c, d, "exchange")
  /\ UNCHANGED <<store, bundles, jar, hist>>

\* Exchange of the code, the profile, and OAuthAuthenticate, which creates
\* the account when it is missing.
OAuthIdentity(c) ==
  /\ call[c].pc = "exchange"
  /\ \/ /\ account' = [account EXCEPT !.registered = TRUE]
        /\ Goto(c, "authenticated")
        /\ UNCHANGED <<bundles, revoked, ended, jar, hist>>
     \/ Fault(c)

ReadVersion(c) ==
  /\ call[c].pc = "authenticated"
  /\ \/ /\ call' = [call EXCEPT ![c].pc = "opening", ![c].ver = account.version]
        /\ UNCHANGED <<store, bundles, jar, hist>>
     \/ Fault(c)

\* issueTokenBundle.  Without a jti the access token may be the very text of
\* an earlier one: same claims, same second.
Bundle(sid, ver, root, twin) == [sid |-> sid, ver |-> ver, root |-> root, twin |-> twin]
Twins(sid, ver) ==
  {Len(bundles) + 1} \cup
  {b \in DOMAIN bundles : ~UseJTI /\ bundles[b].sid = sid /\ bundles[b].ver = ver}
Issue(c, sid, ver, root) ==
  \E twin \in Twins(sid, ver) :
    /\ bundles' = Append(bundles, Bundle(sid, ver, root, twin))
    /\ call' = [call EXCEPT ![c].pc = "granted", ![c].new = Len(bundles) + 1]

OpenSession(c) ==
  /\ call[c].pc = "opening"
  /\ LET sid == IF UseSID THEN Len(bundles) + 1 ELSE 0
     IN  Issue(c, sid, call[c].ver, call[c].ver)
  /\ UNCHANGED <<store, jar, hist>>

-----------------------------------------------------------------------------
(* Requests that present a token of the device's current bundle. *)

\* What no later answer may change: the token was revoked, or its session was
\* opened under an older version, when the request came in.
Doomed(kind, b) ==
  \/ RevocationKey(kind, b) \in revoked
  \/ bundles[b].root < account.version

Presents(c, d, kind, token, pc) ==
  /\ call[c].pc = "idle"
  /\ jar[d] # 0
  /\ call' = [call EXCEPT ![c] = [Idle EXCEPT !.device = d, !.kind = kind, !.tok = jar[d], !.pc = pc,
                                             !.doomed = Doomed(token, jar[d])]]
  /\ UNCHANGED <<bundles, jar>>

\* AuthRequired in front of any protected route, with a token within its TTL.
Use(c, d) ==
  /\ Presents(c, d, "access", "access", "checking")
  /\ UNCHANGED <<store, hist>>

Refresh(c, d) ==
  /\ Room
  /\ Presents(c, d, "refresh", "refresh", "checking")
  /\ hist' = [hist EXCEPT !.overlap = @ \/ \E o \in Calls : call[o].kind = "refresh" /\ call[o].tok = jar[d]]
  /\ UNCHANGED store

\* Errors of parseToken and of RevokeToken are ignored.
Logout(c, d) ==
  /\ Presents(c, d, "logout", "access", "cleared")
  /\ \/ /\ \E expired \in BOOLEAN :
             revoked' = IF expired THEN revoked
                        ELSE revoked \cup {RevocationKey("access", jar[d])}
        /\ UNCHANGED hist
     \/ /\ hist.faults < MaxFaults
        /\ hist' = [hist EXCEPT !.faults = @ + 1]
        /\ UNCHANGED revoked
  /\ UNCHANGED <<account, ended>>

\* A rotated refresh token presented again ends its session: RevokeBySID,
\* whose error is ignored.
CheckRevoked(c) ==
  /\ call[c].pc = "checking"
  /\ LET b == call[c].tok
         hit == RevocationKey(call[c].kind, b) \in revoked
         reuse == hit /\ call[c].kind = "refresh" /\ bundles[b].sid # 0
     IN  \/ /\ IF hit THEN Refuse(c) ELSE Goto(c, "versioning")
            /\ ended' = IF reuse THEN ended \cup {bundles[b].sid} ELSE ended
            /\ UNCHANGED <<account, revoked, bundles, jar, hist>>
         \/ Fault(c)

CheckVersion(c) ==
  /\ call[c].pc = "versioning"
  /\ \/ /\ IF account.version # bundles[call[c].tok].ver THEN Refuse(c)
           ELSE Goto(c, IF call[c].kind = "refresh" THEN "rotating" ELSE "granted")
        /\ UNCHANGED <<store, bundles, jar, hist>>
     \/ Fault(c)

\* The new bundle first, then the revocation of the old token, whose error is
\* ignored; a failure to issue leaves everything as it was.
MutFreshVersion(c) ==
  /\ call[c].pc = "rotating"
  /\ LET b == call[c].tok
     IN  /\ Issue(c, bundles[b].sid, account.version, bundles[b].root)
         /\ revoked' = revoked \cup {RevocationKey("refresh", b)}
  /\ UNCHANGED <<account, ended, jar, hist>>
Rotate(c) ==
  /\ call[c].pc = "rotating"
  /\ LET b == call[c].tok
     IN  \/ /\ Issue(c, bundles[b].sid, bundles[b].ver, bundles[b].root)
            /\ \/ /\ revoked' = revoked \cup {RevocationKey("refresh", b)}
                  /\ UNCHANGED hist
               \/ /\ hist.faults < MaxFaults
                  /\ hist' = [hist EXCEPT !.faults = @ + 1]
                  /\ UNCHANGED revoked
            /\ UNCHANGED <<account, ended, jar>>
         \/ Fault(c)

\* The reply sets or clears the device's cookies.
Reply(c) ==
  /\ call[c].pc \in {"granted", "cleared"}
  /\ jar' = [jar EXCEPT ![call[c].device] =
               IF call[c].pc = "cleared" THEN 0
               ELSE IF call[c].new # 0 THEN call[c].new ELSE @]
  /\ call' = [call EXCEPT ![c] = Idle]
  /\ UNCHANGED <<store, bundles, hist>>

ReplyLost(c) ==
  /\ call[c].pc = "cleared" \/ call[c].new # 0
  /\ call' = [call EXCEPT ![c] = Idle]
  /\ hist' = [hist EXCEPT !.lost = TRUE]
  /\ UNCHANGED <<store, bundles, jar>>

\* The application raises the user's token version (a changed password).
Bump ==
  /\ account.registered /\ account.version < MaxVersion
  /\ account' = [account EXCEPT !.version = @ + 1]
  /\ UNCHANGED <<revoked, ended, bundles, call, jar, hist>>

Next ==
  \/ \E c \in Calls, d \in Devices :
       Register(c, d) \/ Login(c, d) \/ Use(c, d) \/ Refresh(c, d) \/ Logout(c, d)
  \/ \E c \in Calls, d \in Devices, p, q \in Providers : OAuthCallback(c, d, p, q)
  \/ \E c \in Calls :
       \/ OAuthIdentity(c) \/ ReadVersion(c) \/ OpenSession(c)
       \/ CheckRevoked(c) \/ CheckVersion(c) \/ Rotate(c)
       \/ Reply(c) \/ ReplyLost(c)
  \/ Bump

Spec == Init /\ [][Next]_vars

-----------------------------------------------------------------------------
Numbers == 0..MaxBundles
PCs == {"idle", "authenticated", "exchange", "opening", "checking", "versioning",
        "rotating", "granted", "cleared"}
TypeOK ==
  /\ account \in [registered : BOOLEAN, version : 0..MaxVersion]
  /\ bundles \in Seq([sid : Numbers, ver : 0..MaxVersion, root : 0..MaxVersion, twin : Numbers \ {0}])
  /\ Len(bundles) <= MaxBundles
  /\ revoked \subseteq {"access", "refresh"} \X (Numbers \ {0})
  /\ ended \subseteq Numbers \ {0}
  /\ call \in [Calls -> [pc : PCs, device : Devices, tok : Numbers, ver : 0..MaxVersion, new : Numbers,
                         kind : {"login", "access", "refresh", "logout"},
                         doomed : BOOLEAN]]
  /\ jar \in [Devices -> Numbers]
  /\ hist \in [lost : BOOLEAN, overlap : BOOLEAN, faults : 0..MaxFaults]

\* A session that was over when a request came in stays over: no request gets
\* in or gets new tokens with a token that was revoked before it began, nor
\* with one whose session was opened under an older token version, not even
\* through a refresh that was under way while the version was raised.
SessionsEnd == \A c \in Calls : call[c].pc = "granted" => ~call[c].doomed

\* "Issue the new tokens first, then revoke the old one, so that a failure to
\* issue does not lock the user out": as long as every reply arrives, the
\* device holds a refresh token that still works, whatever callbacks fail and
\* however its tabs overlap; and while refreshes do not overlap either, no
\* session is reported as reused.
NotLockedOut ==
  /\ \A d \in Devices :
       \/ hist.lost
       \/ jar[d] = 0
       \/ \E c \in Calls : call[c].device = d /\ call[c].new # 0
       \/ RevocationKey("refresh", jar[d]) \notin revoked
  /\ ended = {} \/ hist.lost \/ hist.overlap
=============================================================================
