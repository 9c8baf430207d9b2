----------------------------- MODULE MCDispatch -----------------------------
(***************************************************************************)
(* The watcher w and one node n1 that registered Svc.Echo.  The watcher   *)
(* serves and caches its WatchApi ids (runServer's PutMsg of               *)
(* comm.WatchFmsg) and minted id 101 for Svc.Echo; n1 serves 101 and       *)
(* cached it from the Registered reply (WatchRegister).                    *)
(***************************************************************************)
EXTENDS Dispatch

DNodes == {"w", "n1"}
DWatchFids == {80, 81, 83, 85}
DFids == {1, 2} \cup DWatchFids \cup {101}
DServed == [n \in DNodes |-> IF n = "w" THEN DWatchFids ELSE {101}]
DCacheIds == DServed
DCacheNames == [n \in DNodes |-> IF n = "w" THEN {"WatchApi.Registered", "WatchApi.Heartbeats",
                                                  "WatchApi.GetFuncMsg", "WatchApi.GetApiConn"}
                                 ELSE {"Svc.Echo"}]

(* Spec §3: the read loop of the node a request is addressed to decodes   *)
(* it and the Service Dispatcher runs the method.  Every request for a     *)
(* method the node has registered reaches findCall's method lookup.        *)
ServedRequestsDispatched ==
    \A r \in handled : r.fid \in Served[r.node] => r.res = "call"
=============================================================================
