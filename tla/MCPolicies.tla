------------------------------ MODULE MCPolicies ------------------------------
(***************************************************************************)
(* Instances of the tier policies (residency, headroom, NBD readiness,     *)
(* elastic cache), of the N3 lease machine, of the telemetry of the        *)
(* broker, of its monitor, which is either the health service or the       *)
(* dashboard, and of the migration of a legacy cascade. A behaviour is     *)
(* about one of them; its first state chooses among Focus.                 *)
(***************************************************************************)
EXTENDS TierPolicies, N3Lease, Telemetry, LegacyMigration

CONSTANT Focus
VARIABLE focus

MCLatencies == {0, 1, 3}
MCVramSizes == {0, 7, 31, 44}
MCFreeSizes == {9, 10, 34, 35, 48}

MCLeases == 1..2

MCObservations ==
  {HostObservation("o1", 1, 0, 1, 2, {}), HostObservation("o1", 1, 0, 1, 4, {}),
   HostObservation("o2", 2, 1, 1, 2, {"Pressure"}),
   HostObservation("o3", 3, 1, 1, 2, {"Offline"}),
   [HostObservation("o4", 4, 1, 1, 2, {}) EXCEPT !.authority = "Guest"]}

MCGrants ==
  {HostGrant("g1", 1, 1, 1, 2, 3), HostGrant("g2", 1, 2, 2, 2, 3)}

MCRevokes == {HostRevoke("r1", 1, 1, 2), HostRevoke("r2", 1, 2, 2)}

At(l, g) == [lease |-> l, gen |-> g]
MCRecords ==
  {RestartRecord(1, "Host", <<At(1, 1)>>), RestartRecord(2, "Host", <<At(2, 1)>>),
   RestartRecord(2, "Guest", <<At(1, 1)>>)}

policyVars == <<focus, rsVars, hrVars, nrVars, ecVars, n3Vars, tlVars, mnVars, lmVars>>

PolicyInit ==
  /\ focus \in Focus
  /\ RsInit /\ HrInit /\ NrInit /\ EcInit /\ N3Init /\ TlInit /\ MnInit /\ LmInit
  /\ focus # "readiness" => nrVram = 0 /\ ~nrHost.legacy /\ nrHost.capacity.sink = "Unknown"
  /\ focus # "telemetry" => tlSink
  /\ focus # "migration" => lmProc[CHOOSE p \in LmPids : TRUE] # NoProc
  /\ focus # "migration" => lmOn = {"nbd"} /\ ~lmUsed /\ lmClient = "gone" /\ lmRecord = {}

PolicyNext ==
  /\ UNCHANGED focus
  /\ \/ focus = "residency" /\ RsNext /\ UNCHANGED <<hrVars, nrVars, ecVars, n3Vars, tlVars, mnVars, lmVars>>
     \/ focus = "headroom" /\ HrNext /\ UNCHANGED <<rsVars, nrVars, ecVars, n3Vars, tlVars, mnVars, lmVars>>
     \/ focus = "readiness" /\ NrNext /\ UNCHANGED <<rsVars, hrVars, ecVars, n3Vars, tlVars, mnVars, lmVars>>
     \/ focus = "elastic" /\ EcNext /\ UNCHANGED <<rsVars, hrVars, nrVars, n3Vars, tlVars, mnVars, lmVars>>
     \/ focus = "n3" /\ N3Next /\ UNCHANGED <<rsVars, hrVars, nrVars, ecVars, tlVars, mnVars, lmVars>>
     \/ focus = "telemetry" /\ TlNext /\ UNCHANGED <<rsVars, hrVars, nrVars, ecVars, n3Vars, mnVars, lmVars>>
     \/ focus = "service" /\ ServiceSteps /\ UNCHANGED <<rsVars, hrVars, nrVars, ecVars, n3Vars, tlVars, lmVars>>
     \/ focus = "dashboard" /\ (MnMoves \/ Samples) /\ UNCHANGED <<rsVars, hrVars, nrVars, ecVars, n3Vars, tlVars, lmVars>>
     \/ focus = "migration" /\ LmNext /\ UNCHANGED <<rsVars, hrVars, nrVars, ecVars, n3Vars, tlVars, mnVars>>

PolicySpec == PolicyInit /\ [][PolicyNext]_policyVars
===============================================================================
