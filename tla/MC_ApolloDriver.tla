--------------------------- MODULE MC_ApolloDriver ---------------------------
(* The driver with a live sensor whose alarms are a warning or a critical *)
(* alarm with a read failure, a sensor error or a library version         *)
(* mismatch; the component with all three output channels.                *)
EXTENDS ApolloDriver

\* INNO_ALARM_WARNING and INNO_ALARM_CRITICAL
MCLevels == {1, 3}
\* INNO_ALARM_CODE_CANNOT_READ, _SENSOR_ERROR, _LIB_VERSION_MISMATCH
MCCodes == {1, 17, 23}
MCChannels == {"pointcloud", "scan", "imu"}
====
