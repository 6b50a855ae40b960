------------------------------ MODULE RegattaWire ------------------------------
(***************************************************************************)
(* Tables of regatta_vtproto.pb.go; see WireRows for what a row is.        *)
(* The messages of the KV, Cluster and Tables services.                    *)
(***************************************************************************)
EXTENDS WireRows

ResponseHeader_Marshal ==
    << Unknown, Num(40, "RaftLeaderId"), Num(32, "RaftTerm"), Num(24, "Revision"),
       Num(16, "ReplicaId"), Num(8, "ShardId") >>
ResponseHeader_Size ==
    << Num(1, "ShardId"), Num(1, "ReplicaId"), Num(1, "Revision"), Num(1, "RaftTerm"),
       Num(1, "RaftLeaderId"), Unknown >>
ResponseHeader_Unmarshal ==
    { Num(1, "ShardId"), Num(2, "ReplicaId"), Num(3, "Revision"), Num(4, "RaftTerm"),
      Num(5, "RaftLeaderId") }

RangeRequest_Marshal ==
    << Unknown, Num(88, "MaxCreateRevision"), Num(80, "MinCreateRevision"),
       Num(72, "MaxModRevision"), Num(64, "MinModRevision"), Bool(56, "CountOnly"),
       Bool(48, "KeysOnly"), Bool(40, "Linearizable"), Num(32, "Limit"),
       Bytes(26, "RangeEnd"), Bytes(18, "Key"), Bytes(10, "Table") >>
RangeRequest_Size ==
    << Bytes(1, "Table"), Bytes(1, "Key"), Bytes(1, "RangeEnd"), Num(1, "Limit"),
       Bool(1, "Linearizable"), Bool(1, "KeysOnly"), Bool(1, "CountOnly"),
       Num(1, "MinModRevision"), Num(1, "MaxModRevision"), Num(1, "MinCreateRevision"),
       Num(1, "MaxCreateRevision"), Unknown >>
RangeRequest_Unmarshal ==
    { Bytes(1, "Table"), Bytes(2, "Key"), Bytes(3, "RangeEnd"), Num(4, "Limit"),
      Bool(5, "Linearizable"), Bool(6, "KeysOnly"), Bool(7, "CountOnly"),
      Num(8, "MinModRevision"), Num(9, "MaxModRevision"), Num(10, "MinCreateRevision"),
      Num(11, "MaxCreateRevision") }

RangeResponse_Marshal ==
    << Unknown, Num(40, "Count"), Bool(32, "More"), Msgs(26, "Kvs", "KeyValue"),
       Msg(10, "Header", "ResponseHeader") >>
RangeResponse_Size ==
    << Msg(1, "Header", "ResponseHeader"), Msgs(1, "Kvs", "KeyValue"), Bool(1, "More"),
       Num(1, "Count"), Unknown >>
RangeResponse_Unmarshal ==
    { Msg(1, "Header", "ResponseHeader"), Msgs(3, "Kvs", "KeyValue"), Bool(4, "More"),
      Num(5, "Count") }

PutRequest_Marshal ==
    << Unknown, Bool(32, "PrevKv"), Bytes(26, "Value"), Bytes(18, "Key"), Bytes(10, "Table") >>
PutRequest_Size ==
    << Bytes(1, "Table"), Bytes(1, "Key"), Bytes(1, "Value"), Bool(1, "PrevKv"), Unknown >>
PutRequest_Unmarshal ==
    { Bytes(1, "Table"), Bytes(2, "Key"), Bytes(3, "Value"), Bool(4, "PrevKv") }

PutResponse_Marshal ==
    << Unknown, Msg(18, "PrevKv", "KeyValue"), Msg(10, "Header", "ResponseHeader") >>
PutResponse_Size ==
    << Msg(1, "Header", "ResponseHeader"), Msg(1, "PrevKv", "KeyValue"), Unknown >>
PutResponse_Unmarshal == {Msg(1, "Header", "ResponseHeader"), Msg(2, "PrevKv", "KeyValue")}

DeleteRangeRequest_Marshal ==
    << Unknown, Bool(40, "Count"), Bool(32, "PrevKv"), Bytes(26, "RangeEnd"),
       Bytes(18, "Key"), Bytes(10, "Table") >>
DeleteRangeRequest_Size ==
    << Bytes(1, "Table"), Bytes(1, "Key"), Bytes(1, "RangeEnd"), Bool(1, "PrevKv"),
       Bool(1, "Count"), Unknown >>
DeleteRangeRequest_Unmarshal ==
    { Bytes(1, "Table"), Bytes(2, "Key"), Bytes(3, "RangeEnd"), Bool(4, "PrevKv"),
      Bool(5, "Count") }

DeleteRangeResponse_Marshal ==
    << Unknown, Msgs(26, "PrevKvs", "KeyValue"), Num(16, "Deleted"),
       Msg(10, "Header", "ResponseHeader") >>
DeleteRangeResponse_Size ==
    << Msg(1, "Header", "ResponseHeader"), Num(1, "Deleted"), Msgs(1, "PrevKvs", "KeyValue"),
       Unknown >>
DeleteRangeResponse_Unmarshal ==
    { Msg(1, "Header", "ResponseHeader"), Num(2, "Deleted"), Msgs(3, "PrevKvs", "KeyValue") }

TxnRequest_Marshal ==
    << Unknown, Msgs(34, "Failure", "RequestOp"), Msgs(26, "Success", "RequestOp"),
       Msgs(18, "Compare", "Compare"), Bytes(10, "Table") >>
TxnRequest_Size ==
    << Bytes(1, "Table"), Msgs(1, "Compare", "Compare"), Msgs(1, "Success", "RequestOp"),
       Msgs(1, "Failure", "RequestOp"), Unknown >>
TxnRequest_Unmarshal ==
    { Bytes(1, "Table"), Msgs(2, "Compare", "Compare"), Msgs(3, "Success", "RequestOp"),
      Msgs(4, "Failure", "RequestOp") }

TxnResponse_Marshal ==
    << Unknown, Msgs(26, "Responses", "ResponseOp"), Bool(16, "Succeeded"),
       Msg(10, "Header", "ResponseHeader") >>
TxnResponse_Size ==
    << Msg(1, "Header", "ResponseHeader"), Bool(1, "Succeeded"),
       Msgs(1, "Responses", "ResponseOp"), Unknown >>
TxnResponse_Unmarshal ==
    { Msg(1, "Header", "ResponseHeader"), Bool(2, "Succeeded"),
      Msgs(3, "Responses", "ResponseOp") }

MemberListRequest_Marshal == <<Unknown>>
MemberListRequest_Size == <<Unknown>>
MemberListRequest_Unmarshal == {}

MemberListResponse_Marshal == <<Unknown, Msgs(18, "Members", "Member"), Bytes(10, "Cluster")>>
MemberListResponse_Size == <<Bytes(1, "Cluster"), Msgs(1, "Members", "Member"), Unknown>>
MemberListResponse_Unmarshal == {Bytes(1, "Cluster"), Msgs(2, "Members", "Member")}

Member_Marshal ==
    << Unknown, Texts(34, "ClientURLs"), Texts(26, "PeerURLs"), Bytes(18, "Name"),
       Bytes(10, "Id") >>
Member_Size ==
    << Bytes(1, "Id"), Bytes(1, "Name"), Texts(1, "PeerURLs"), Texts(1, "ClientURLs"), Unknown >>
Member_Unmarshal ==
    { Bytes(1, "Id"), Bytes(2, "Name"), Texts(3, "PeerURLs"), Texts(4, "ClientURLs") }

TableStatus_Marshal ==
    << Unknown, Num(56, "RaftAppliedIndex"), Num(48, "RaftTerm"), Num(40, "RaftIndex"),
       Bytes(34, "Leader"), Num(24, "DbSize"), Num(16, "LogSize") >>
TableStatus_Size ==
    << Num(1, "LogSize"), Num(1, "DbSize"), Bytes(1, "Leader"), Num(1, "RaftIndex"),
       Num(1, "RaftTerm"), Num(1, "RaftAppliedIndex"), Unknown >>
TableStatus_Unmarshal ==
    { Num(2, "LogSize"), Num(3, "DbSize"), Bytes(4, "Leader"), Num(5, "RaftIndex"),
      Num(6, "RaftTerm"), Num(7, "RaftAppliedIndex") }

StatusRequest_Marshal == <<Unknown, Bool(32, "Config")>>
StatusRequest_Size == <<Bool(1, "Config"), Unknown>>
StatusRequest_Unmarshal == {Bool(4, "Config")}

StatusResponse_Marshal ==
    << Unknown, Texts(66, "Errors"), Opaque(42, "Config"),
       MapOf(34, "Tables", "TableStatus", 10, 18), Bytes(26, "Info"), Bytes(18, "Version"),
       Bytes(10, "Id") >>
StatusResponse_Size ==
    << Bytes(1, "Id"), Bytes(1, "Version"), Bytes(1, "Info"),
       MapOf(1, "Tables", "TableStatus", 1, 1), Opaque(1, "Config"), Texts(1, "Errors"),
       Unknown >>
StatusResponse_Unmarshal ==
    { Bytes(1, "Id"), Bytes(2, "Version"), Bytes(3, "Info"),
      MapOf(4, "Tables", "TableStatus", 1, 2), Opaque(5, "Config"), Texts(8, "Errors") }

CreateTableRequest_Marshal == <<Unknown, Opaque(42, "Config"), Bytes(10, "Name")>>
CreateTableRequest_Size == <<Bytes(1, "Name"), Opaque(1, "Config"), Unknown>>
CreateTableRequest_Unmarshal == {Bytes(1, "Name"), Opaque(5, "Config")}

CreateTableResponse_Marshal == <<Unknown, Bytes(10, "Id")>>
CreateTableResponse_Size == <<Bytes(1, "Id"), Unknown>>
CreateTableResponse_Unmarshal == {Bytes(1, "Id")}

DeleteTableRequest_Marshal == <<Unknown, Bytes(10, "Name")>>
DeleteTableRequest_Size == <<Bytes(1, "Name"), Unknown>>
DeleteTableRequest_Unmarshal == {Bytes(1, "Name")}

DeleteTableResponse_Marshal == <<Unknown>>
DeleteTableResponse_Size == <<Unknown>>
DeleteTableResponse_Unmarshal == {}

ListTablesRequest_Marshal == <<Unknown>>
ListTablesRequest_Size == <<Unknown>>
ListTablesRequest_Unmarshal == {}

TableInfo_Marshal == <<Unknown, Opaque(42, "Config"), Bytes(18, "Id"), Bytes(10, "Name")>>
TableInfo_Size == <<Bytes(1, "Name"), Bytes(1, "Id"), Opaque(1, "Config"), Unknown>>
TableInfo_Unmarshal == {Bytes(1, "Name"), Bytes(2, "Id"), Opaque(5, "Config")}

ListTablesResponse_Marshal == <<Unknown, Msgs(10, "Tables", "TableInfo")>>
ListTablesResponse_Size == <<Msgs(1, "Tables", "TableInfo"), Unknown>>
ListTablesResponse_Unmarshal == {Msgs(1, "Tables", "TableInfo")}

===============================================================================
