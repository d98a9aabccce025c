---------------------------- MODULE MCModelConfig ----------------------------
(* ModelConfig with lines of every section. *)
EXTENDS ModelConfig
Line(s, k, v)    == [section |-> s, side |-> "none", key |-> k, val |-> v]
Plate(side, k, v) == [section |-> "plate", side |-> side, key |-> k, val |-> v]
LinesDef ==
    {Line("model", "handlingbase", 411), Line("model", "handlingbase", 20001),
     Line("model", "handlingbase", Bad), Line("model", "platetextsize", 16),
     Line("ide", "wheelscale", 4), Line("ide", "wheelscale", 80),
     Line("ide", "wheelscalefront", 90), Line("ide", "vehicleclass", Bad),
     Line("handling", "frontLights", 257), Line("handling", "frontLights", 4),
     Line("handling", "frontLights", 2), Line("handling", "mass", 1),
     Line("offsets", "wheelScale", 5), Line("offsets", "rearWheelScale", 7),
     Line("flags", "sirentype", 3), Line("audio", "volume", 150),
     Line("carmods", "nitro", <<"nto_b_l", "1008">>),
     Line("carmods", "nitro", <<"none">>),
     Line("carmods", "roof", <<"none", "1008", "1008">>),
     Line("carcols", "primary", 256),
     Line("carcols", "variation", <<<<3, 3>>>>),
     Line("carcols", "variations", <<<<6>>, <<3, 3, 0>>, <<3, 256>>, <<6, 6>>>>),
     Plate("front", "enabled", 0), Plate("front", "x", 2),
     Plate("front", "list", <<1, 2, 3>>), Plate("rear", "y", Bad),
     Plate("rear", "rotZ", 0), Plate("rear", "rotZ", 90),
     Plate("rear", "enabled", 1), Plate("rear", "list", <<1, 2>>),
     Plate("rear", "list", <<1, 2, 3, 0, 0, 45>>),
     Line("plate", "platetextsize", 12), Line("unknown", "mass", 2)}
DefaultHandlingDef ==
    [v \in {400, 411} |-> [frontLights |-> v - 400, mass |-> 150000 + v]]
CommittedBaseDef == [v \in {20001} |-> 411]
PartIdDef == [nto_b_l |-> 1008, none |-> Bad] @@ ("1008" :> 1008)
=============================================================================
