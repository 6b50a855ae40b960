---------------------------- MODULE ReplicationWire ----------------------------
(***************************************************************************)
(* Tables of replication_vtproto.pb.go; see WireRows for what a row is.    *)
(* The messages of the Metadata, Snapshot and Log services.                *)
(***************************************************************************)
EXTENDS WireRows

MetadataRequest_Marshal == <<Unknown>>
MetadataRequest_Size == <<Unknown>>
MetadataRequest_Unmarshal == {}

MetadataResponse_Marshal == <<Unknown, Msgs(10, "Tables", "Table")>>
MetadataResponse_Size == <<Msgs(1, "Tables", "Table"), Unknown>>
MetadataResponse_Unmarshal == {Msgs(1, "Tables", "Table")}

Table_Marshal == <<Unknown, Enum(16, "Type"), Bytes(10, "Name")>>
Table_Size == <<Bytes(1, "Name"), Enum(1, "Type"), Unknown>>
Table_Unmarshal == {Bytes(1, "Name"), Enum(2, "Type")}

SnapshotRequest_Marshal == <<Unknown, Bytes(10, "Table")>>
SnapshotRequest_Size == <<Bytes(1, "Table"), Unknown>>
SnapshotRequest_Unmarshal == {Bytes(1, "Table")}

SnapshotChunk_Marshal == <<Unknown, Num(24, "Index"), Num(16, "Len"), Bytes(10, "Data")>>
SnapshotChunk_Size == <<Bytes(1, "Data"), Num(1, "Len"), Num(1, "Index"), Unknown>>
SnapshotChunk_Unmarshal == {Bytes(1, "Data"), Num(2, "Len"), Num(3, "Index")}

ReplicateRequest_Marshal == <<Unknown, Num(16, "LeaderIndex"), Bytes(10, "Table")>>
ReplicateRequest_Size == <<Bytes(1, "Table"), Num(1, "LeaderIndex"), Unknown>>
ReplicateRequest_Unmarshal == {Bytes(1, "Table"), Num(2, "LeaderIndex")}

ReplicateResponse_Marshal == <<Unknown, OneOf("Response"), Num(64, "LeaderIndex")>>
ReplicateResponse_Size == <<OneOf("Response"), Num(1, "LeaderIndex"), Unknown>>
ReplicateResponse_Unmarshal ==
    { 
      Arm(1, "Response", "ReplicateResponse_CommandsResponse", "CommandsResponse", "ReplicateCommandsResponse"),
      Arm(2, "Response", "ReplicateResponse_ErrorResponse", "ErrorResponse", "ReplicateErrResponse"),
      Num(8, "LeaderIndex") }

ReplicateResponse_CommandsResponse_Marshal ==
    << Msg(10, "CommandsResponse", "ReplicateCommandsResponse") >>
ReplicateResponse_CommandsResponse_Size ==
    << Msg(1, "CommandsResponse", "ReplicateCommandsResponse") >>

ReplicateResponse_ErrorResponse_Marshal == <<Msg(18, "ErrorResponse", "ReplicateErrResponse")>>
ReplicateResponse_ErrorResponse_Size == <<Msg(1, "ErrorResponse", "ReplicateErrResponse")>>

ReplicateCommandsResponse_Marshal == <<Unknown, Msgs(10, "Commands", "ReplicateCommand")>>
ReplicateCommandsResponse_Size == <<Msgs(1, "Commands", "ReplicateCommand"), Unknown>>
ReplicateCommandsResponse_Unmarshal == {Msgs(1, "Commands", "ReplicateCommand")}

ReplicateCommand_Marshal == <<Unknown, Msg(18, "Command", "Command"), Num(8, "LeaderIndex")>>
ReplicateCommand_Size == <<Num(1, "LeaderIndex"), Msg(1, "Command", "Command"), Unknown>>
ReplicateCommand_Unmarshal == {Num(1, "LeaderIndex"), Msg(2, "Command", "Command")}

ReplicateErrResponse_Marshal == <<Unknown, Enum(8, "Error")>>
ReplicateErrResponse_Size == <<Enum(1, "Error"), Unknown>>
ReplicateErrResponse_Unmarshal == {Enum(1, "Error")}

===============================================================================
