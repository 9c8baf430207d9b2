-------------------------- MODULE MCWatchRegistry --------------------------
(***************************************************************************)
(* Two nodes that both provide Svc.Echo register with a fresh watcher      *)
(* (funcmap.num starts at WATCH_IN_MAX, 100), while one goroutine serves   *)
(* GetApiConn requests from a caller looking Svc.Echo up.                  *)
(***************************************************************************)
EXTENDS WatchRegistry

WFuncs == [u \in Nodes |-> << "Svc.Echo" >>]

(* Spec §4.3 and its idempotent registration: a node that has registered *)
(* and is alive in the watcher is reached through every api it registered. *)
(* Whatever order the Registered handlers' PutApi and PutNodeDetail steps, *)
(* GetApiConn's prune, the heartbeats and ClearNodeExprie run in, once a   *)
(* node's WatchRegister has returned and its NodeMsg is stored, each of    *)
(* its api names maps to the FuncID the reply gave the node, and the node  *)
(* list of that funcdata holds the node.                                   *)
ProviderListed ==
    \A u \in Nodes :
        h[u].pc = "idle" /\ u \in DOMAIN nodes =>
            \A a \in Range(Funcs[u]) :
                /\ a \in DOMAIN str
                /\ fids[u][a] = str[a]
                /\ u \in Range(ids[str[a]].node)
=============================================================================
