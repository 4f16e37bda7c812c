----------------------------- MODULE SocketTags -----------------------------
(***************************************************************************)
(* The tags of the samples a Socket pushes: tags(), currentTags() and      *)
(* addToTagSet(), and the moments at which the socket computes a tag set   *)
(* that it uses later.  The behaviour is that of Socket; this module       *)
(* records, beside it, the samples with their tags.                        *)
(*                                                                         *)
(* A tag set is a function from names to values.  The value of host, port  *)
(* and ip is the connect call whose host, port or address it is.           *)
(***************************************************************************)
EXTENDS Socket

CONSTANTS
    VuTags,      \* the tags of the VU
    OwnTags,     \* s.socketOpts.Tags
    CallTags,    \* per connect call, the tags in its options
    WriteTags    \* per refused call that is a write(), the tags in its options

ASSUME TagsAssumption == DOMAIN WriteTags \subseteq Invalid

VARIABLES
    attempt,  \* connectExecute()'s local variable tags
    final,    \* destroy()'s local variable tags
    tagged    \* the samples pushed: metric, thread, tags, the call they are about

tagVars == <<attempt, final, tagged>>

(* vu.State().Tags, which the script does not change meanwhile *)
currentTags == VuTags

(* With() and WithTagsFromMap() replace a tag that is there already. *)
addToTagSet(ts, m) ==
    [k \in DOMAIN ts \cup DOMAIN m |-> IF k \in DOMAIN m THEN m[k] ELSE ts[k]]

(* Mutant: the tags of the constructor are added last. *)
OwnTagsLast ==
    LET call == IF connectOpts = None THEN currentTags
                ELSE addToTagSet(addToTagSet(currentTags, CallTags[connectOpts]),
                                 [host |-> connectOpts, port |-> connectOpts])
        ip   == IF endpoints.remote = None THEN call
                ELSE addToTagSet(call, [ip |-> endpoints.remote])
    IN  addToTagSet(ip, OwnTags)

tags ==
    LET base == addToTagSet(addToTagSet(currentTags, [proto |-> "TCP"]), OwnTags)
        call == IF connectOpts = None THEN base
                ELSE addToTagSet(addToTagSet(base, CallTags[connectOpts]),
                                 [host |-> connectOpts, port |-> connectOpts])
    IN  IF endpoints.remote = None THEN call
        ELSE addToTagSet(call, [ip |-> endpoints.remote])

(* The tags of the error of a refused call, which the event loop reports:  *)
(* a write() has those of the VU and its own.                              *)
refusedTags ==
    LET writes == {r \in DOMAIN WriteTags : promise[r] = "pending"}
    IN  IF writes = {} THEN tags
        ELSE addToTagSet(currentTags, WriteTags[CHOOSE r \in writes : TRUE])

(* The tags a thread gives a sample *)
TagsOf(t, m) ==
    CASE m \in {"resolving", "connecting", "sockets"} -> attempt[t[2]]
      [] m = "duration"                               -> final
      [] m = "errors" /\ t \in Connectors             -> tags
      [] m = "errors" /\ t = Js                       -> refusedTags
      [] OTHER                                        -> currentTags

(* A sample, and the call of connect() whose connection it is about *)
Sample(t, m) == [metric |-> m, by |-> t, tags |-> TagsOf(t, m),
                 call |-> IF m = "duration" THEN closing ELSE t[2]]

Moves(t, from, to) == pc[t] = from /\ pc'[t] = to

(* connectExecute() computes its tags once, before it resolves the name,   *)
(* and destroy() under the lock, with the connection it is going to close. *)
RecordTags ==
    /\ attempt' = [c \in Connects |->
                     IF Moves(Connector(c), "lock", "resolving") THEN tags
                     ELSE attempt[c]]
    /\ final' = IF \E t \in Threads : Moves(t, "teardown", "closeConn") THEN tags
                ELSE final
    /\ tagged' = tagged \cup
         UNION {{Sample(t, m) : m \in {n \in Metrics : samples'[n] > samples[n]}} :
                  t \in {u \in Threads : pc'[u] # pc[u]}}

TagInit ==
    /\ Init
    /\ attempt = [c \in Connects |-> currentTags]
    /\ final = currentTags
    /\ tagged = {}

TagNext == Next /\ RecordTags

TagSpec     == TagInit /\ [][TagNext]_<<vars, tagVars>>
TagFairSpec == TagSpec /\ Fairness

-----------------------------------------------------------------------------
(* Safety: scripts that are careful *)

(* What a connect call is about, its failures and its connection's end     *)
(* included, is reported with that call's host and port and with its tags, *)
(* which override those of the constructor; a duration also carries the    *)
(* address of the connection that lasted that long.                        *)
ConnectionTags ==
    \A s \in tagged :
        s.by \in Connectors \/ s.metric = "duration" =>
            /\ s.tags["host"] = s.call
            /\ s.tags["port"] = s.call
            /\ \A k \in DOMAIN CallTags[s.call] \ {"host", "port", "ip"} :
                  s.tags[k] = CallTags[s.call][k]
            /\ s.metric = "duration" => s.tags["ip"] = s.call

(* Every sample of the socket carries the tags given to its constructor. *)
OwnTagsEverywhere ==
    \A s \in tagged : DOMAIN OwnTags \subseteq DOMAIN s.tags
=============================================================================
