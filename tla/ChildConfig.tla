----------------------------- MODULE ChildConfig -----------------------------
(***************************************************************************)
(* The child server's two copies of the xray configuration: what runs, and *)
(* config.json, which a restart of xray reads.  handler/child_manage.go    *)
(* changes the first over gRPC and then reads, edits and writes the second,*)
(* with no lock around either; writing truncates the file before it fills  *)
(* it.  xray itself is external.                                           *)
(***************************************************************************)
EXTENDS Integers, FiniteSets

CONSTANTS Items,       \* inbounds and outbounds, by kind and tag
          Requests,    \* requests under way at once
          MaxCopies,   \* bound: entries of one tag in the file
          MaxMishaps   \* bound: failed writes, failed adds, crashes, replacements

NoItem == "no item"

ASSUME ChildAssumption == /\ NoItem \notin Items
                          /\ MaxCopies \in Nat \ {0} /\ MaxMishaps \in Nat

VARIABLES
  file,     \* config.json: [whole, api: its api inbound, count: entries per item]
  xray,     \* what runs: [up, api, items]
  request,  \* per request: [pc, op, item, copy: the file as it was read]
  unsure,   \* history: items whose copies may differ, for a reason seen below
  mishaps   \* how much went wrong so far

childVars == <<file, xray, request, unsure, mishaps>>

\* manageInbound and manageOutbound; updateXraySystemConfig with gRPC on or
\* off; EnsureXrayConfig of a scan; manageRouting, which leaves the items alone.
EditOps   == {"add", "remove"}
SystemOps == {"apiOn", "apiOff", "ensure"}
Ops       == EditOps \cup SystemOps \cup {"routing"}

NoCounts == [i \in Items |-> 0]
NewFile  == [whole |-> TRUE, api |-> TRUE, count |-> NoCounts]
Idle     == [pc |-> "idle", op |-> "routing", item |-> NoItem, copy |-> NewFile]

ChildInit == /\ file = NewFile
             /\ xray = [up |-> TRUE, api |-> TRUE, items |-> {}]
             /\ request = [q \in Requests |-> Idle]
             /\ unsure = {}
             /\ mishaps = 0

Mishap == mishaps < MaxMishaps /\ mishaps' = mishaps + 1

Active(q)  == request[q].pc # "idle"
TouchedBut(q) == {request[r].item : r \in {r \in Requests \ {q} : Active(r)}}
Goes(q, pc)  == request' = [request EXCEPT ![q].pc = pc]
Ends(q)      == request' = [request EXCEPT ![q] = Idle]

-----------------------------------------------------------------------------
(* gRPC: the running configuration *)

\* findXrayAPIPort reads the file for the port, client.New dials it.
Manageable == xray.up /\ xray.api /\ file.whole /\ file.api

\* A request on an item comes in; without the gRPC API it is refused.
Ask(q, op, i) ==
    /\ ~Active(q) /\ Manageable
    /\ request' = [request EXCEPT ![q] = [Idle EXCEPT !.pc = "asked", !.op = op,
                                                      !.item = i]]
    /\ unsure' = IF i \in TouchedBut(q) THEN unsure \cup {i} ELSE unsure
    /\ UNCHANGED <<file, xray, mishaps>>

\* addInbound and addOutbound remove whatever has the tag before they add.
AddLive(q) ==
    /\ request[q].pc = "asked" /\ request[q].op = "add" /\ xray.up
    /\ xray' = [xray EXCEPT !.items = @ \cup {request[q].item}]
    /\ Goes(q, "live")
    /\ UNCHANGED <<file, unsure, mishaps>>

\* The add itself fails, a port in use: what had the tag before is gone.
AddLiveFails(q) ==
    /\ request[q].pc = "asked" /\ request[q].op = "add" /\ xray.up
    /\ Mishap
    /\ xray' = [xray EXCEPT !.items = @ \ {request[q].item}]
    /\ unsure' = unsure \cup {request[q].item}
    /\ Ends(q)
    /\ UNCHANGED file

\* mutant: the removal is not persisted
RemoveLiveOnly(q) ==
    /\ request[q].pc = "asked" /\ request[q].op = "remove" /\ xray.up
    /\ xray' = [xray EXCEPT !.items = @ \ {request[q].item}]
    /\ Ends(q)
    /\ UNCHANGED <<file, unsure, mishaps>>

\* removeInbound and removeOutbound: a tag that does not run is an error, and
\* the file is left alone.
RemoveLive(q) ==
    /\ request[q].pc = "asked" /\ request[q].op = "remove" /\ xray.up
    /\ xray' = [xray EXCEPT !.items = @ \ {request[q].item}]
    /\ IF request[q].item \in xray.items THEN Goes(q, "live") ELSE Ends(q)
    /\ UNCHANGED <<file, unsure, mishaps>>

\* The removal takes effect and the call still fails, ten seconds being over:
\* the file keeps the tag.
RemoveLiveFails(q) ==
    /\ request[q].pc = "asked" /\ request[q].op = "remove" /\ xray.up
    /\ Mishap
    /\ xray' = [xray EXCEPT !.items = @ \ {request[q].item}]
    /\ unsure' = unsure \cup {request[q].item}
    /\ Ends(q)
    /\ UNCHANGED file

\* xray went down since the request came in.
LiveFails(q) ==
    /\ request[q].pc = "asked" /\ ~xray.up
    /\ Ends(q)
    /\ UNCHANGED <<file, xray, unsure, mishaps>>

-----------------------------------------------------------------------------
(* The file: read, edit, truncate, fill *)

\* Requests that only edit the file begin here.
AskFile(q, op) ==
    /\ ~Active(q)
    /\ request' = [request EXCEPT ![q] = [Idle EXCEPT !.pc = "live", !.op = op]]
    /\ UNCHANGED <<file, xray, unsure, mishaps>>

\* The file cannot be parsed: the edit is not persisted.  An inbound's
\* request says so as a warning, an outbound's only logs it.
ReadFile(q) ==
    /\ request[q].pc = "live"
    /\ IF file.whole
       THEN /\ request' = [request EXCEPT ![q].pc = "read", ![q].copy = file]
            /\ UNCHANGED unsure
       ELSE /\ Ends(q)
            /\ unsure' = unsure \cup ({request[q].item} \cap Items)
    /\ UNCHANGED <<file, xray, mishaps>>

\* persistInbound appends whatever the file holds already; removeInboundFromConfig
\* drops every entry of the tag.
Appended(c, i) == [c EXCEPT !.count[i] = @ + 1]
Removed(c, i)  == [c EXCEPT !.count[i] = 0]

Edited(c, op, i) == CASE op = "add"    -> Appended(c, i)
                      [] op = "remove" -> Removed(c, i)
                      [] op = "apiOff" -> [c EXCEPT !.api = FALSE]
                      [] op \in {"apiOn", "ensure"} -> [c EXCEPT !.api = TRUE]
                      [] OTHER         -> c

\* os.WriteFile truncates; another request may read the file now.
Truncate(q) ==
    /\ request[q].pc = "read"
    /\ request[q].op = "ensure" => ~request[q].copy.api
    /\ request[q].op = "add" => request[q].copy.count[request[q].item] < MaxCopies
    /\ file' = [file EXCEPT !.whole = FALSE]
    /\ unsure' = unsure \cup
          {i \in Items \ {request[q].item} : file.count[i] # request[q].copy.count[i]}
    /\ Goes(q, "written")
    /\ UNCHANGED <<xray, mishaps>>

\* EnsureXrayConfig finds nothing to add.
NothingToEnsure(q) ==
    /\ request[q].pc = "read" /\ request[q].op = "ensure" /\ request[q].copy.api
    /\ Ends(q)
    /\ UNCHANGED <<file, xray, unsure, mishaps>>

\* The content is in place, over whatever others wrote since the read.
Fill(q) ==
    LET content == Edited(request[q].copy, request[q].op, request[q].item) IN
    /\ request[q].pc = "written"
    /\ file' = content
    /\ unsure' = unsure \cup {i \in Items \ {request[q].item} :
                                 file.count[i] # content.count[i]}
    /\ request' = [request EXCEPT ![q] =
          IF request[q].op \in SystemOps
          THEN [Idle EXCEPT !.pc = "restart", !.op = request[q].op]
          ELSE Idle]
    /\ UNCHANGED <<xray, mishaps>>

\* The disk is full: the file stays truncated.
FillFails(q) ==
    /\ request[q].pc = "written"
    /\ Mishap
    /\ unsure' = unsure \cup ({request[q].item} \cap Items)
    /\ Ends(q)
    /\ UNCHANGED <<file, xray>>

\* setXrayConfig and saveXrayConfigFile: another configuration replaces the
\* file, whatever runs.
Replace ==
    /\ Mishap
    /\ \E api \in BOOLEAN, c \in [Items -> {0, 1}] :
          file' = [whole |-> TRUE, api |-> api, count |-> c]
    /\ unsure' = Items
    /\ UNCHANGED <<xray, request>>

-----------------------------------------------------------------------------
(* Restarts *)

\* xray refuses a file it cannot parse, or with two entries of one tag.
Startable == file.whole /\ \A i \in Items : file.count[i] <= 1

Started == IF Startable
           THEN [up |-> TRUE, api |-> file.api,
                 items |-> {i \in Items : file.count[i] = 1}]
           ELSE [up |-> FALSE, api |-> FALSE, items |-> {}]

\* systemctl restart: HandleServiceControl, or xray and its machine restarting.
\* The edits that are under way did not know of it.
Restarted(touched) == /\ xray' = Started
                      /\ unsure' = IF Startable THEN touched \cap Items ELSE unsure

RestartXray == /\ Restarted({request[q].item : q \in {q \in Requests : Active(q)}})
               /\ UNCHANGED <<file, request, mishaps>>

\* The restart at the end of updateXraySystemConfig and of a scan.
RestartAfterEdit(q) ==
    /\ request[q].pc = "restart"
    /\ Restarted(TouchedBut(q))
    /\ Ends(q)
    /\ UNCHANGED <<file, mishaps>>

\* The child process ends: its requests stop where they are.
Crash ==
    /\ \E q \in Requests : Active(q)
    /\ Mishap
    /\ unsure' = unsure \cup ({request[q].item : q \in Requests} \cap Items)
    /\ request' = [q \in Requests |-> Idle]
    /\ UNCHANGED <<file, xray>>

-----------------------------------------------------------------------------
ChildNext ==
    \/ \E q \in Requests :
          \/ \E op \in EditOps, i \in Items : Ask(q, op, i)
          \/ \E op \in SystemOps \cup {"routing"} : AskFile(q, op)
          \/ AddLive(q) \/ AddLiveFails(q) \/ RemoveLive(q) \/ RemoveLiveFails(q)
          \/ LiveFails(q)
          \/ ReadFile(q) \/ Truncate(q) \/ NothingToEnsure(q) \/ Fill(q)
          \/ FillFails(q) \/ RestartAfterEdit(q)
    \/ Replace \/ RestartXray \/ Crash

ChildSpec == ChildInit /\ [][ChildNext]_childVars

-----------------------------------------------------------------------------
(* Properties *)

\* Type invariant of the child's configuration.
ChildTypeOK ==
    /\ file \in [whole : BOOLEAN, api : BOOLEAN, count : [Items -> 0..MaxCopies]]
    /\ xray \in [up : BOOLEAN, api : BOOLEAN, items : SUBSET Items]
    /\ \A q \in Requests :
          /\ request[q].pc \in {"idle", "asked", "live", "read", "written", "restart"}
          /\ request[q].op \in Ops /\ request[q].item \in Items \cup {NoItem}
          /\ request[q].copy.count \in [Items -> 0..MaxCopies]
    /\ unsure \subseteq Items

Settled(i) == i \notin unsure /\ \A q \in Requests : request[q].item # i

\* What runs is what a restart would bring back: for an item nobody is working
\* on, the two copies differ only if its edit failed half way, a writer that
\* had read the file earlier overwrote it, two requests on it overlapped, the
\* file was replaced, or xray restarted in the middle of it (manageInbound,
\* persistInbound, removeInboundFromConfig and their outbound twins).  And the
\* file is unreadable only while somebody writes it, or after a write or a
\* process that died in the middle of one (os.WriteFile is not atomic).
FileIsWhatRuns ==
    /\ xray.up /\ file.whole =>
          \A i \in Items : Settled(i) => (i \in xray.items <=> file.count[i] > 0)
    /\ ~file.whole => mishaps > 0 \/ \E q \in Requests : request[q].pc = "written"
=============================================================================
