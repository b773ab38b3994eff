---- MODULE MCArea ----
EXTENDS MCRecords
AreaSpec == RecordsInit /\ area = "inbox" /\ [][RecordsNext]_recordVars
====
