------------------------------ MODULE SpatialLink ------------------------------
(* How the operator's radar and map panel (spatial_panel.py) reaches the      *)
(* robot over the public network: an SSH tunnel to the cloud host, and        *)
(* through it a second SSH that runs spatial_stream.py on the robot.          *)
(* reverse_tunnel_selector.py, on the cloud host, connects the second one to  *)
(* the robot's Wi-Fi or SIM reverse tunnel.  An uplink that falls silently    *)
(* leaves the stream hanging: the panel has no timeout of its own, and only   *)
(* the TCP keep-alive of the hosts ends it.  A process that cannot be started *)
(* is reported by errorOccurred alone, and no timer follows.                  *)
EXTENDS Naturals

CONSTANT MaxDisturbances   \* processes that end or do not start, uplinks that fall,
                           \* buttons pressed

VARIABLES
  tunnel, stream,       \* the two QProcesses
  tunnelTimer,          \* a single shot of start_wan_tunnel is due
  streamTimer,          \* a single shot of _start_wan_stream is due
  path,                 \* the uplink the selector gave the stream
  uplink,               \* which of the robot's reverse tunnels carry data
  closing,              \* _shutting_down
  unstarted,            \* history: the last start of a process failed
  disturbed             \* how often, so far

sessionVars == <<tunnel, stream, tunnelTimer, streamTimer, path, uplink, closing,
                 unstarted>>
linkVars == <<sessionVars, disturbed>>

Uplinks == {"wifi", "sim"}

LinkTypeOK ==
  /\ tunnel \in {"off", "up"} /\ stream \in {"off", "up", "dying"}
  /\ tunnelTimer \in BOOLEAN /\ streamTimer \in BOOLEAN /\ closing \in BOOLEAN
  /\ unstarted \in BOOLEAN
  /\ path \in Uplinks \union {"none"}
  /\ uplink \in [Uplinks -> BOOLEAN]
  /\ disturbed \in 0..MaxDisturbances

LinkInit ==
  /\ tunnel = "off" /\ stream = "off" /\ path = "none"
  /\ tunnelTimer = TRUE /\ streamTimer = FALSE
  /\ uplink = [u \in Uplinks |-> TRUE]
  /\ closing = FALSE /\ unstarted = FALSE /\ disturbed = 0

\* Both ends of the session are there and the uplink between them works.
Live == stream = "up" /\ path # "none" /\ uplink[path]

Disturb == disturbed < MaxDisturbances /\ disturbed' = disturbed + 1

-----------------------------------------------------------------------------
\* start() of a process, which _wan_failed only reports when it fails.
Starts == unstarted' = FALSE /\ UNCHANGED disturbed
DoesNotStart == unstarted' = TRUE /\ Disturb

\* start_wan_tunnel, from the button or from its timer; started() is followed
\* by the stream half a second later.
StartTunnel ==
  \/ /\ closing \/ tunnel # "off"
     /\ UNCHANGED <<tunnel, streamTimer, unstarted, disturbed>>
  \/ /\ ~closing /\ tunnel = "off" /\ Starts
     /\ tunnel' = "up" /\ streamTimer' = TRUE
  \/ /\ ~closing /\ tunnel = "off" /\ DoesNotStart
     /\ UNCHANGED <<tunnel, streamTimer>>

TunnelTimer ==
  /\ tunnelTimer /\ tunnelTimer' = FALSE
  /\ StartTunnel
  /\ UNCHANGED <<stream, path, uplink, closing>>

ConnectData ==
  /\ ~closing /\ tunnel = "off"
  /\ StartTunnel
  /\ UNCHANGED <<stream, tunnelTimer, path, uplink, closing>>

\* _start_wan_stream.
StreamTimer ==
  /\ streamTimer /\ streamTimer' = FALSE
  /\ \/ /\ closing \/ tunnel # "up" \/ stream # "off"
        /\ UNCHANGED <<stream, path, unstarted, disturbed>>
     \/ /\ ~closing /\ tunnel = "up" /\ stream = "off" /\ Starts
        /\ stream' = "up" /\ path' = "none"
     \/ /\ ~closing /\ tunnel = "up" /\ stream = "off" /\ DoesNotStart
        /\ UNCHANGED <<stream, path>>
  /\ UNCHANGED <<tunnel, tunnelTimer, uplink, closing>>

\* verified_backend as a bug would have it: the first port that accepts.
FirstBackend(u) == u = "wifi"

\* verified_backend: Wi-Fi if its SSH answers, else SIM if its does.
VerifiedBackend(u) ==
  uplink[u] /\ (u = "sim" => ~uplink["wifi"])

\* The selector joins a new connection to a backend.
SelectBackend ==
  /\ stream = "up" /\ tunnel = "up" /\ path = "none"
  /\ \E u \in Uplinks : VerifiedBackend(u) /\ path' = u
  /\ UNCHANGED <<tunnel, stream, tunnelTimer, streamTimer, uplink, closing, unstarted,
                 disturbed>>

\* _stream_finished as a bug would have it: the tunnel's timer is enough.
RetriesWithTunnel == FALSE

\* _stream_finished tries again if there is a tunnel to try over.
Retries == ~closing /\ tunnel = "up"

\* _stream_finished, whatever ended the process.
StreamFinished ==
  /\ stream' = "off" /\ path' = "none"
  /\ streamTimer' = (streamTimer \/ Retries)
  /\ UNCHANGED <<tunnel, tunnelTimer, uplink, closing, unstarted>>

\* The stream ends because it was told to, because the selector refused it, or
\* because the hosts gave its silent connection up.
StreamEnds ==
  /\ \/ stream = "dying"
     \/ stream = "up" /\ path = "none" /\ \A u \in Uplinks : ~uplink[u]
     \/ stream = "up" /\ path # "none" /\ ~uplink[path]
  /\ StreamFinished
  /\ UNCHANGED disturbed

StreamFails ==
  /\ stream = "up" /\ Disturb
  /\ StreamFinished

\* _tunnel_finished terminates the stream and starts over in two seconds.
TunnelEnds ==
  /\ tunnel = "up" /\ Disturb
  /\ tunnel' = "off"
  /\ stream' = IF stream = "off" THEN "off" ELSE "dying"
  /\ tunnelTimer' = (tunnelTimer \/ ~closing)
  /\ UNCHANGED <<streamTimer, path, uplink, closing, unstarted>>

UplinkFalls(u) ==
  /\ uplink[u] /\ Disturb
  /\ uplink' = [uplink EXCEPT ![u] = FALSE]
  /\ UNCHANGED <<tunnel, stream, tunnelTimer, streamTimer, path, closing, unstarted>>

UplinkReturns(u) ==
  /\ ~uplink[u]
  /\ uplink' = [uplink EXCEPT ![u] = TRUE]
  /\ UNCHANGED <<tunnel, stream, tunnelTimer, streamTimer, path, closing, unstarted,
                 disturbed>>

\* shutdown terminates, waits a second, and kills.
CloseLink ==
  /\ ~closing /\ closing' = TRUE
  /\ tunnel' = "off" /\ stream' = "off" /\ path' = "none"
  /\ UNCHANGED <<tunnelTimer, streamTimer, uplink, unstarted, disturbed>>

=============================================================================
