----------------------------- MODULE Federation -----------------------------
(***************************************************************************)
(* One server of this panel (the owner) shared with other panels (the      *)
(* consumers): handler/federation.go, server_share.go, federation_crypto.go,*)
(* doFederationRequest of remote_manage.go and storage/shared_servers.go.  *)
(* A consumer sends commands under its share token; the owner checks the   *)
(* scope of the share, forwards to the agent, and records the inbounds the *)
(* share has created so that revoking it can delete them.  Forwarding      *)
(* itself is the contract of module Call: applied or not, and a failure    *)
(* says nothing.                                                           *)
(***************************************************************************)
EXTENDS Naturals, FiniteSets

CONSTANTS Shares,      \* share tokens of the server, one consumer each
          FullRights,  \* shares created with allow_manage_xray
          Tags,        \* inbound tags of a consumer; its prefix keeps them its own
          Commands,    \* commands in flight at once
          MaxSessions,     \* bound: sessions negotiated per share
          MaxFaults    \* bound: lost answers, unreachable agent, restarts

ASSUME FederationAssumption == /\ FullRights \subseteq Shares
                               /\ MaxSessions \in Nat \ {0} /\ MaxFaults \in Nat

NoSession == 0

VARIABLES
  share,      \* per share: [revoked: BOOLEAN, key: session of the owner]
  consumer,   \* fedSessions at the consumer of each share
  sessions,       \* sessions negotiated so far, per share
  records,    \* shared_server_inbounds: share and tag
  inbounds,   \* what is on the agent: share and tag
  command,    \* per command: [pc, share, action, tag, kind, key, result]
  revocation, \* per share: [pc, todo] of handleRevoke
  faults,     \* how much went wrong so far
  ran,       \* history: how often the agent ran the command at hand
  useless,    \* history: its answers that could not be read or were misread
  missed      \* history: inbounds a revocation could not know or not reach

fedVars == <<share, consumer, sessions, records, inbounds, command, revocation,
             faults, ran, useless, missed>>

\* "config" stands for every command outside /api/child/inbounds.
Actions == {"add", "remove", "list", "config"}

NewCommand == [pc |-> "idle", share |-> "none", action |-> "list", tag |-> "none",
               kind |-> "kx", key |-> NoSession, result |-> "none"]

FedInit ==
    /\ share = [s \in Shares |-> [revoked |-> FALSE, key |-> NoSession]]
    /\ consumer = [s \in Shares |-> NoSession]
    /\ sessions = [s \in Shares |-> 0]
    /\ records = {} /\ inbounds = {}
    /\ command = [c \in Commands |-> NewCommand]
    /\ revocation = [s \in Shares |-> [pc |-> "idle", todo |-> {}]]
    /\ faults = 0
    /\ ran = [c \in Commands |-> 0] /\ useless = [c \in Commands |-> 0]
    /\ missed = {}

Fault == faults < MaxFaults /\ faults' = faults + 1

Own(c)  == <<command[c].share, command[c].tag>>
Goes(c, pc) == command' = [command EXCEPT ![c].pc = pc]
Answers(c, result) ==
    command' = [command EXCEPT ![c].pc = "answered", ![c].result = result]

\* The caller has its answer: nothing of the command is left.
Returns(c) == command' = [command EXCEPT ![c] = [NewCommand EXCEPT !.pc = "done"]]

-----------------------------------------------------------------------------
(* The consumer *)

\* doFederationRequest: sealed with the session there is, else a key exchange
\* that carries the command in the clear.
Send(c, s, action, tag) ==
    /\ command[c].pc \in {"idle", "done"}
    /\ command' = [command EXCEPT ![c] =
          [NewCommand EXCEPT !.pc = "sent", !.share = s, !.action = action,
                             !.tag = tag, !.key = consumer[s],
                             !.kind = IF consumer[s] = NoSession THEN "kx" ELSE "sealed"]]
    /\ ran' = [ran EXCEPT ![c] = 0] /\ useless' = [useless EXCEPT ![c] = 0]
    /\ UNCHANGED <<share, consumer, sessions, records, inbounds, revocation, faults,
                   missed>>

\* The answer is a success: a key exchange that succeeds leaves a session.
TakeSuccess(c) ==
    /\ command[c].pc = "answered" /\ command[c].result = "ok"
    /\ Returns(c)
    /\ consumer' = IF command[c].kind = "kx"
                   THEN [consumer EXCEPT ![command[c].share] = command[c].key]
                   ELSE consumer
    /\ UNCHANGED <<share, sessions, records, inbounds, revocation, faults, ran,
                   useless, missed>>

\* isSessionInvalidErr: no session, the payload or the answer does not open,
\* or the text of any other error looks like it ("looksInvalid").
SessionInvalid(c) == /\ command[c].kind = "sealed"
                     /\ command[c].result \in {"refused", "unreadable", "looksInvalid"}

ResendWithKeyExchange(c) ==
    /\ command[c].pc = "answered" /\ SessionInvalid(c)
    /\ consumer' = [consumer EXCEPT ![command[c].share] = NoSession]
    /\ command' = [command EXCEPT ![c].pc = "sent", ![c].kind = "kx",
                                  ![c].key = NoSession, ![c].result = "none"]
    /\ useless' = IF command[c].result = "refused" THEN useless
                  ELSE [useless EXCEPT ![c] = @ + 1]
    /\ UNCHANGED <<share, sessions, records, inbounds, revocation, faults, ran, missed>>

\* Any other error is the caller's.
TakeError(c) ==
    /\ command[c].pc = "answered" /\ command[c].result # "ok" /\ ~SessionInvalid(c)
    /\ Returns(c)
    /\ UNCHANGED <<share, consumer, sessions, records, inbounds, revocation, faults,
                   ran, useless, missed>>

-----------------------------------------------------------------------------
(* The owner: ServeHTTP, negotiateManage, handleManage *)

\* authShare fails: the token is revoked.
Unauthorized(c) ==
    /\ command[c].pc = "sent" /\ share[command[c].share].revoked
    /\ Answers(c, "denied")
    /\ UNCHANGED <<share, consumer, sessions, records, inbounds, revocation, faults,
                   ran, useless, missed>>

\* negotiateManage, key exchange: a new session replaces the old one.
Negotiate(c) ==
    LET s == command[c].share IN
    /\ command[c].pc = "sent" /\ command[c].kind = "kx" /\ ~share[s].revoked
    /\ sessions[s] < MaxSessions
    /\ sessions' = [sessions EXCEPT ![s] = @ + 1]
    /\ share' = [share EXCEPT ![s].key = sessions[s] + 1]
    /\ command' = [command EXCEPT ![c].pc = "opened", ![c].key = sessions[s] + 1]
    /\ UNCHANGED <<consumer, records, inbounds, revocation, faults, ran,
                   useless, missed>>

\* negotiateManage, sealed payload: opened with the session kept for the token,
\* or refused (412, or 400 "decrypt failed").
OpenPayload(c) ==
    LET s == command[c].share IN
    /\ command[c].pc = "sent" /\ command[c].kind = "sealed" /\ ~share[s].revoked
    /\ IF share[s].key = command[c].key THEN Goes(c, "opened") ELSE Answers(c, "refused")
    /\ UNCHANGED <<share, consumer, sessions, records, inbounds, revocation, faults,
                   ran, useless, missed>>

\* scopeFederationCommand: a restricted share may list and add inbounds, and
\* remove those recorded as its own.
InScope(c) == \/ command[c].share \in FullRights
              \/ command[c].action \in {"list", "add"}
              \/ command[c].action = "remove" /\ Own(c) \in records

\* The share is read a second time before its scope is applied.
CheckScope(c) ==
    /\ command[c].pc = "opened"
    /\ IF ~share[command[c].share].revoked /\ InScope(c)
       THEN Goes(c, "forward") ELSE Answers(c, "denied")
    /\ UNCHANGED <<share, consumer, sessions, records, inbounds, revocation, faults,
                   ran, useless, missed>>

\* ForwardToAgent: the agent runs the command.  The forward may then still
\* fail for the owner, whose error text the consumer will read.
Applied(c) == CASE command[c].action = "add" -> inbounds \cup {Own(c)}
                [] command[c].action = "remove" ->
                     inbounds \ {Own(c)}
                [] OTHER -> inbounds

Forward(c) ==
    /\ command[c].pc = "forward"
    /\ Goes(c, "track")
    /\ ran' = [ran EXCEPT ![c] = @ + 1]
    /\ inbounds' = Applied(c)
    /\ UNCHANGED <<share, consumer, sessions, records, revocation, faults, useless,
                   missed>>

ForwardFails(c, result) ==
    /\ command[c].pc = "forward"
    /\ Fault
    /\ Answers(c, result)
    /\ \/ UNCHANGED <<ran, inbounds, missed>>
       \/ /\ ran' = [ran EXCEPT ![c] = @ + 1]
          /\ inbounds' = Applied(c)
          /\ missed' = missed \cup {Own(c)}
    /\ UNCHANGED <<share, consumer, sessions, records, revocation, useless>>

\* mutants: an add is not recorded; the answer is refused when the session
\* has been replaced since the payload was opened
TrackRemovals(c) ==
    /\ command[c].pc = "track"
    /\ records' = IF command[c].action = "remove" THEN records \ {Own(c)} ELSE records
    /\ Answers(c, "ok")
    /\ UNCHANGED <<share, consumer, sessions, inbounds, revocation, faults, ran,
                   useless, missed>>
TrackWithNewSession(c) ==
    /\ command[c].pc = "track"
    /\ records' = IF command[c].action = "add" THEN records \cup {Own(c)} ELSE records
    /\ Answers(c, IF command[c].key = share[command[c].share].key THEN "ok" ELSE "refused")
    /\ UNCHANGED <<share, consumer, sessions, inbounds, revocation, faults, ran,
                   useless, missed>>

\* trackFederationInbound reads the share a third time: an add that succeeds
\* is recorded, a remove is taken off the record.  Then the answer goes out.
Track(c) ==
    LET s == command[c].share IN
    /\ command[c].pc = "track"
    /\ IF share[s].revoked \/ command[c].action \notin {"add", "remove"}
       THEN UNCHANGED records
       ELSE records' = IF command[c].action = "add" THEN records \cup {Own(c)}
                       ELSE records \ {Own(c)}
    /\ missed' = IF \/ command[c].action = "add" /\ revocation[s].pc # "idle"
                    \/ command[c].action = "remove" /\ Own(c) \in inbounds
                 THEN missed \cup {Own(c)} ELSE missed
    /\ \/ Answers(c, "ok") /\ UNCHANGED faults
       \/ command[c].kind = "sealed" /\ Fault /\ Answers(c, "unreadable")
    /\ UNCHANGED <<share, consumer, sessions, inbounds, revocation, ran, useless>>

\* The record is not written, an error that is ignored, or the consumer is gone
\* and its request is cancelled.
TrackFails(c) ==
    /\ command[c].pc = "track" /\ command[c].action \in {"add", "remove"} /\ Fault
    /\ missed' = IF command[c].action = "add" THEN missed \cup {Own(c)} ELSE missed
    /\ \E result \in {"ok", "failed"} : Answers(c, result)
    /\ UNCHANGED <<share, consumer, sessions, records, inbounds, revocation, ran, useless>>

\* The owner restarts, or the half hour of a session is over.
OwnerForgets(s) ==
    /\ share[s].key # NoSession /\ Fault
    /\ share' = [share EXCEPT ![s].key = NoSession]
    /\ UNCHANGED <<consumer, sessions, records, inbounds, command, revocation, ran,
                   useless, missed>>

-----------------------------------------------------------------------------
(* handleRevoke *)

\* The administrator asked to delete the inbounds too: the tags on record are
\* read once.
StartRevoke(s) ==
    /\ revocation[s].pc = "idle" /\ ~share[s].revoked
    /\ revocation' = [revocation EXCEPT ![s] =
          [pc |-> "deleting", todo |-> {t \in Tags : <<s, t>> \in records}]]
    /\ UNCHANGED <<share, consumer, sessions, records, inbounds, command, faults,
                   ran, useless, missed>>

\* One removal is forwarded; a failure is only not counted.
RevokeOne(s, t) ==
    /\ revocation[s].pc = "deleting" /\ t \in revocation[s].todo
    /\ revocation' = [revocation EXCEPT ![s].todo = @ \ {t}]
    /\ \/ inbounds' = inbounds \ {<<s, t>>} /\ UNCHANGED <<faults, missed>>
       \/ Fault /\ missed' = missed \cup {<<s, t>>} /\ UNCHANGED inbounds
    /\ UNCHANGED <<share, consumer, sessions, records, command, ran, useless>>

\* The record is cleared whatever was deleted, then the share is revoked.
ClearRecords(s) ==
    /\ revocation[s].pc = "deleting" /\ revocation[s].todo = {}
    /\ records' = {r \in records : r[1] # s}
    /\ revocation' = [revocation EXCEPT ![s].pc = "cleared"]
    /\ UNCHANGED <<share, consumer, sessions, inbounds, command, faults, ran,
                   useless, missed>>

Revoke(s) ==
    /\ revocation[s].pc = "cleared"
    /\ share' = [share EXCEPT ![s].revoked = TRUE]
    /\ revocation' = [revocation EXCEPT ![s].pc = "done"]
    /\ UNCHANGED <<consumer, sessions, records, inbounds, command, faults, ran,
                   useless, missed>>

-----------------------------------------------------------------------------
CommandStep(c) ==
    \/ TakeSuccess(c) \/ ResendWithKeyExchange(c) \/ TakeError(c)
    \/ Unauthorized(c) \/ Negotiate(c) \/ OpenPayload(c) \/ CheckScope(c)
    \/ Forward(c) \/ Track(c) \/ TrackFails(c)

FedNext ==
    \/ \E c \in Commands :
          \/ \E s \in Shares, a \in Actions, t \in Tags : Send(c, s, a, t)
          \/ CommandStep(c)
          \/ \E r \in {"failed", "looksInvalid"} : ForwardFails(c, r)
    \/ \E s \in Shares :
          \/ OwnerForgets(s) \/ StartRevoke(s) \/ ClearRecords(s) \/ Revoke(s)
          \/ \E t \in Tags : RevokeOne(s, t)

FedSpec == FedInit /\ [][FedNext]_fedVars

-----------------------------------------------------------------------------
(* Properties *)

\* Type invariant of the federation.
FedTypeOK ==
    /\ share \in [Shares -> [revoked : BOOLEAN, key : 0..MaxSessions]]
    /\ consumer \in [Shares -> 0..MaxSessions] /\ sessions \in [Shares -> 0..MaxSessions]
    /\ records \subseteq Shares \X Tags /\ inbounds \subseteq Shares \X Tags
    /\ missed \subseteq Shares \X Tags
    /\ \A c \in Commands :
          command[c].pc \in {"idle", "sent", "opened", "forward", "track",
                             "answered", "done"}
    /\ revocation \in [Shares -> [pc : {"idle", "deleting", "cleared", "done"},
                                  todo : SUBSET Tags]]

\* When a share was revoked with its inbounds, one that is left is one the
\* revocation could not know of or not reach: its removal failed, the answer
\* to its creation was lost, its record could not be written, it was created
\* while the revocation ran, or a removal of the same tag was tracked after it
\* (handleRevoke, trackFederationInbound).
Busy(i) == \E c \in Commands : command[c].pc \in {"forward", "track"} /\ Own(c) = i

LeftoverIsExplained ==
    \A i \in inbounds : share[i[1]].revoked => i \in missed \/ Busy(i)

\* A consumer makes the agent run a command again only when the answer to a
\* run was lost to it or reads like the loss of a session; losing the session on either side, or two commands that
\* negotiate at once, never runs a command twice (doFederationRequest).
SharedRunsAccountedFor ==
    \A c \in Commands :
        ran[c] + (IF command[c].pc \in {"sent", "opened", "forward"} THEN 1 ELSE 0)
            <= useless[c] + 1
=============================================================================
