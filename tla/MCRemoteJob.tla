---------------------------- MODULE MCRemoteJob ----------------------------
(* RemoteJob for every launcher; components with the same record behave alike. *)
EXTENDS RemoteJob, RemoteLaunchers

AllLaunchers ==
  VertexLaunchers \cup BigQueryLaunchers \cup OperationLaunchers \cup DataflowLaunchers
    \cup AwsLaunchers
=============================================================================
