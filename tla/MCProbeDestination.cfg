SPECIFICATION ExecSpec
CONSTANTS r1=r1
 r2=r2
 r3=r3
 Nobody=Nobody
 Requests = {r1, r2, r3}
 Target <- MCTarget
 MaxFaults = 2
INVARIANTS OneProbePerDestination

CHECK_DEADLOCK FALSE
