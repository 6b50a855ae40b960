------------------------------- MODULE MvccWire --------------------------------
(***************************************************************************)
(* Tables of mvcc_vtproto.pb.go; see WireRows for what a row is.           *)
(* Keys and values, the operations of transactions and the commands of the log. *)
(***************************************************************************)
EXTENDS WireRows

Command_Marshal ==
    << Unknown, Bool(88, "Count"), Msgs(82, "Sequence", "Command"), Bool(72, "PrevKvs"),
       OptBytes(66, "RangeEnd"), Msg(58, "Txn", "Txn"), Msgs(50, "Batch", "KeyValue"),
       OptNum(40, "LeaderIndex"), Msg(26, "Kv", "KeyValue"), Enum(16, "Type"),
       Bytes(10, "Table") >>
Command_Size ==
    << Bytes(1, "Table"), Enum(1, "Type"), Msg(1, "Kv", "KeyValue"), OptNum(1, "LeaderIndex"),
       Msgs(1, "Batch", "KeyValue"), Msg(1, "Txn", "Txn"), OptBytes(1, "RangeEnd"),
       Bool(1, "PrevKvs"), Msgs(1, "Sequence", "Command"), Bool(1, "Count"), Unknown >>
Command_Unmarshal ==
    { Bytes(1, "Table"), Enum(2, "Type"), Msg(3, "Kv", "KeyValue"), OptNum(5, "LeaderIndex"),
      Msgs(6, "Batch", "KeyValue"), Msg(7, "Txn", "Txn"), OptBytes(8, "RangeEnd"),
      Bool(9, "PrevKvs"), Msgs(10, "Sequence", "Command"), Bool(11, "Count") }

CommandResult_Marshal == <<Unknown, Num(16, "Revision"), Msgs(10, "Responses", "ResponseOp")>>
CommandResult_Size == <<Msgs(1, "Responses", "ResponseOp"), Num(1, "Revision"), Unknown>>
CommandResult_Unmarshal == {Msgs(1, "Responses", "ResponseOp"), Num(2, "Revision")}

Txn_Marshal ==
    << Unknown, Msgs(26, "Failure", "RequestOp"), Msgs(18, "Success", "RequestOp"),
       Msgs(10, "Compare", "Compare") >>
Txn_Size ==
    << Msgs(1, "Compare", "Compare"), Msgs(1, "Success", "RequestOp"),
       Msgs(1, "Failure", "RequestOp"), Unknown >>
Txn_Unmarshal ==
    { Msgs(1, "Compare", "Compare"), Msgs(2, "Success", "RequestOp"),
      Msgs(3, "Failure", "RequestOp") }

RequestOp_Range_Marshal ==
    << Unknown, Bool(40, "CountOnly"), Bool(32, "KeysOnly"), Num(24, "Limit"),
       Bytes(18, "RangeEnd"), Bytes(10, "Key") >>
RequestOp_Range_Size ==
    << Bytes(1, "Key"), Bytes(1, "RangeEnd"), Num(1, "Limit"), Bool(1, "KeysOnly"),
       Bool(1, "CountOnly"), Unknown >>
RequestOp_Range_Unmarshal ==
    { Bytes(1, "Key"), Bytes(2, "RangeEnd"), Num(3, "Limit"), Bool(4, "KeysOnly"),
      Bool(5, "CountOnly") }

RequestOp_Put_Marshal == <<Unknown, Bool(24, "PrevKv"), Bytes(18, "Value"), Bytes(10, "Key")>>
RequestOp_Put_Size == <<Bytes(1, "Key"), Bytes(1, "Value"), Bool(1, "PrevKv"), Unknown>>
RequestOp_Put_Unmarshal == {Bytes(1, "Key"), Bytes(2, "Value"), Bool(3, "PrevKv")}

RequestOp_DeleteRange_Marshal ==
    << Unknown, Bool(40, "Count"), Bool(32, "PrevKv"), Bytes(18, "RangeEnd"), Bytes(10, "Key") >>
RequestOp_DeleteRange_Size ==
    << Bytes(1, "Key"), Bytes(1, "RangeEnd"), Bool(1, "PrevKv"), Bool(1, "Count"), Unknown >>
RequestOp_DeleteRange_Unmarshal ==
    { Bytes(1, "Key"), Bytes(2, "RangeEnd"), Bool(4, "PrevKv"), Bool(5, "Count") }

RequestOp_Marshal == <<Unknown, OneOf("Request")>>
RequestOp_Size == <<OneOf("Request"), Unknown>>
RequestOp_Unmarshal ==
    { Arm(1, "Request", "RequestOp_RequestRange", "RequestRange", "RequestOp_Range"),
      Arm(2, "Request", "RequestOp_RequestPut", "RequestPut", "RequestOp_Put"),
      Arm(3, "Request", "RequestOp_RequestDeleteRange", "RequestDeleteRange", "RequestOp_DeleteRange") }

RequestOp_RequestRange_Marshal == <<Msg(10, "RequestRange", "RequestOp_Range")>>
RequestOp_RequestRange_Size == <<Msg(1, "RequestRange", "RequestOp_Range")>>

RequestOp_RequestPut_Marshal == <<Msg(18, "RequestPut", "RequestOp_Put")>>
RequestOp_RequestPut_Size == <<Msg(1, "RequestPut", "RequestOp_Put")>>

RequestOp_RequestDeleteRange_Marshal ==
    << Msg(26, "RequestDeleteRange", "RequestOp_DeleteRange") >>
RequestOp_RequestDeleteRange_Size == <<Msg(1, "RequestDeleteRange", "RequestOp_DeleteRange")>>

ResponseOp_Range_Marshal ==
    << Unknown, Num(24, "Count"), Bool(16, "More"), Msgs(10, "Kvs", "KeyValue") >>
ResponseOp_Range_Size ==
    << Msgs(1, "Kvs", "KeyValue"), Bool(1, "More"), Num(1, "Count"), Unknown >>
ResponseOp_Range_Unmarshal == {Msgs(1, "Kvs", "KeyValue"), Bool(2, "More"), Num(3, "Count")}

ResponseOp_Put_Marshal == <<Unknown, Msg(10, "PrevKv", "KeyValue")>>
ResponseOp_Put_Size == <<Msg(1, "PrevKv", "KeyValue"), Unknown>>
ResponseOp_Put_Unmarshal == {Msg(1, "PrevKv", "KeyValue")}

ResponseOp_DeleteRange_Marshal ==
    << Unknown, Msgs(18, "PrevKvs", "KeyValue"), Num(8, "Deleted") >>
ResponseOp_DeleteRange_Size == <<Num(1, "Deleted"), Msgs(1, "PrevKvs", "KeyValue"), Unknown>>
ResponseOp_DeleteRange_Unmarshal == {Num(1, "Deleted"), Msgs(2, "PrevKvs", "KeyValue")}

ResponseOp_Marshal == <<Unknown, OneOf("Response")>>
ResponseOp_Size == <<OneOf("Response"), Unknown>>
ResponseOp_Unmarshal ==
    { Arm(1, "Response", "ResponseOp_ResponseRange", "ResponseRange", "ResponseOp_Range"),
      Arm(2, "Response", "ResponseOp_ResponsePut", "ResponsePut", "ResponseOp_Put"),
      Arm(3, "Response", "ResponseOp_ResponseDeleteRange", "ResponseDeleteRange", "ResponseOp_DeleteRange") }

ResponseOp_ResponseRange_Marshal == <<Msg(10, "ResponseRange", "ResponseOp_Range")>>
ResponseOp_ResponseRange_Size == <<Msg(1, "ResponseRange", "ResponseOp_Range")>>

ResponseOp_ResponsePut_Marshal == <<Msg(18, "ResponsePut", "ResponseOp_Put")>>
ResponseOp_ResponsePut_Size == <<Msg(1, "ResponsePut", "ResponseOp_Put")>>

ResponseOp_ResponseDeleteRange_Marshal ==
    << Msg(26, "ResponseDeleteRange", "ResponseOp_DeleteRange") >>
ResponseOp_ResponseDeleteRange_Size ==
    << Msg(1, "ResponseDeleteRange", "ResponseOp_DeleteRange") >>

Compare_Marshal ==
    << Unknown, OneOf("TargetUnion"), WideBytes(130, 4, "RangeEnd"), Bytes(26, "Key"),
       Enum(16, "Target"), Enum(8, "Result") >>
Compare_Size ==
    << Enum(1, "Result"), Enum(1, "Target"), Bytes(1, "Key"), OneOf("TargetUnion"),
       Bytes(2, "RangeEnd"), Unknown >>
Compare_Unmarshal ==
    { Enum(1, "Result"), Enum(2, "Target"), Bytes(3, "Key"),
      BytesArm(4, "TargetUnion", "Compare_Value", "Value"), Bytes(64, "RangeEnd") }

Compare_Value_Marshal == <<Always(34, "Value")>>
Compare_Value_Size == <<Always(1, "Value")>>

KeyValue_Marshal ==
    << Unknown, Bytes(34, "Value"), Num(24, "ModRevision"), Num(16, "CreateRevision"),
       Bytes(10, "Key") >>
KeyValue_Size ==
    << Bytes(1, "Key"), Num(1, "CreateRevision"), Num(1, "ModRevision"), Bytes(1, "Value"),
       Unknown >>
KeyValue_Unmarshal ==
    { Bytes(1, "Key"), Num(2, "CreateRevision"), Num(3, "ModRevision"), Bytes(4, "Value") }

===============================================================================
