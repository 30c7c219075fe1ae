------------------------------- MODULE MCPoll --------------------------------
(* The planner on every set of up to seven addresses under several limits, and on the
   real map; then a poll of a machine whose registers take one unusual content at a
   time. *)
EXTENDS Entities, TLC

SmallCalls == [addresses : SUBSET (0 .. 6), max_gap : 0 .. 2, max_block : {1, 3, 5}]
MCCalls == SmallCalls \cup {RealCall}

\* The simulator's readings: heating with hot water, both calls, no flow meter.
Running == 200 :> 6 @@ 400 :> 405 @@ 401 :> 455 @@ 405 :> 420 @@ 444 :> 32766
           @@ 950 :> 0 @@ 951 :> 0 @@ 952 :> 0 @@ 7000 :> 850 @@ 7001 :> 1000
           @@ 7202 :> 6 @@ 7203 :> 70 @@ 7204 :> 450 @@ 7205 :> 470
           @@ 7214 :> 0 @@ 7216 :> 0

Metered == [Running EXCEPT ![444] = 20]

MCMemories ==
  {Running, Metered,
   [Metered EXCEPT ![400] = 32767],
   [Metered EXCEPT ![400] = 500, ![401] = 420],
   [Metered EXCEPT ![401] = 65516],
   [Metered EXCEPT ![444] = 0],
   [Metered EXCEPT ![400] = 65535],
   [Metered EXCEPT ![444] = 65535, ![7001] = 65535],
   [Running EXCEPT ![401] = 32896],
   [Running EXCEPT ![950] = 32768 + 1024 + 32],
   [Running EXCEPT ![951] = 4096, ![952] = 32768],
   [Running EXCEPT ![200] = 5, ![7001] = 0],
   [Running EXCEPT ![200] = 2, ![7202] = 4],
   [Running EXCEPT ![200] = 7],
   [Running EXCEPT ![7214] = 16384 + 8192, ![7216] = 96],
   [Running EXCEPT ![200] = 1, ![7001] = 32766]}
=============================================================================
