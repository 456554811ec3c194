----------------------- MODULE MC_InnovusionComponent -----------------------
(* Model-checking instance of InnovusionComponent: all three output        *)
(* channels may be configured; three cframes (CPOINT or BBOX) and one     *)
(* status string are delivered.                                            *)
EXTENDS InnovusionComponent

MCChannels == {"pointcloud", "scan", "imu"}
=============================================================================
