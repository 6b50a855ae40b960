---------------------------- MODULE MaintenanceWire ----------------------------
(***************************************************************************)
(* Tables of maintenance_vtproto.pb.go; see WireRows for what a row is.    *)
(* The messages of the Maintenance service.                                *)
(***************************************************************************)
EXTENDS WireRows

BackupRequest_Marshal == <<Unknown, Bytes(10, "Table")>>
BackupRequest_Size == <<Bytes(1, "Table"), Unknown>>
BackupRequest_Unmarshal == {Bytes(1, "Table")}

RestoreMessage_Marshal == <<Unknown, OneOf("Data")>>
RestoreMessage_Size == <<OneOf("Data"), Unknown>>
RestoreMessage_Unmarshal ==
    { Arm(1, "Data", "RestoreMessage_Info", "Info", "RestoreInfo"),
      Arm(2, "Data", "RestoreMessage_Chunk", "Chunk", "SnapshotChunk") }

RestoreMessage_Info_Marshal == <<Msg(10, "Info", "RestoreInfo")>>
RestoreMessage_Info_Size == <<Msg(1, "Info", "RestoreInfo")>>

RestoreMessage_Chunk_Marshal == <<Msg(18, "Chunk", "SnapshotChunk")>>
RestoreMessage_Chunk_Size == <<Msg(1, "Chunk", "SnapshotChunk")>>

RestoreInfo_Marshal == <<Unknown, Bytes(10, "Table")>>
RestoreInfo_Size == <<Bytes(1, "Table"), Unknown>>
RestoreInfo_Unmarshal == {Bytes(1, "Table")}

RestoreResponse_Marshal == <<Unknown>>
RestoreResponse_Size == <<Unknown>>
RestoreResponse_Unmarshal == {}

ResetRequest_Marshal == <<Unknown, Bool(16, "ResetAll"), Bytes(10, "Table")>>
ResetRequest_Size == <<Bytes(1, "Table"), Bool(1, "ResetAll"), Unknown>>
ResetRequest_Unmarshal == {Bytes(1, "Table"), Bool(2, "ResetAll")}

ResetResponse_Marshal == <<Unknown>>
ResetResponse_Size == <<Unknown>>
ResetResponse_Unmarshal == {}

===============================================================================
