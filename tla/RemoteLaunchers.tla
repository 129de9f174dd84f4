-------------------------- MODULE RemoteLaunchers --------------------------
(***************************************************************************)
(* The launchers of RemoteJob, one record for each component that starts a  *)
(* job of a cloud service. Components that build different requests and     *)
(* otherwise follow the same steps have the same record.                    *)
(*                                                                         *)
(*   adopts   looks for a job in gcp_resources before it creates one        *)
(*   records  writes gcp_resources     polls    waits for the job           *)
(*   waits    is given the job, which every container writes to             *)
(*            gcp_resources            asks     fetches an adopted job      *)
(*   onlost   an unanswered poll ends the container ("exit"), or the loop   *)
(*            goes on with the last answer ("stale"), or, when the answer   *)
(*            is an error, asks again ("again")                             *)
(*   judge    how a state of the job is read                                *)
(*   expires  the service may report a state that is in none of the lists   *)
(*   outputs  something can fail after the job has succeeded                *)
(*   known    the job's name is chosen before the request                   *)
(***************************************************************************)

Gcp == [cloud |-> "gcp", adopts |-> TRUE, records |-> TRUE, polls |-> TRUE, waits |-> FALSE,
        asks |-> FALSE, onlost |-> "exit", judge |-> "operation", expires |-> FALSE,
        outputs |-> TRUE, known |-> FALSE]

(* Vertex jobs. get_custom_job_with_client exits on a ConnectionError, before poll_job can  *)
(* count it, and so do its siblings.                                                        *)
create_custom_job == [Gcp EXCEPT !.judge = "vertex", !.expires = TRUE, !.outputs = FALSE]
preview_create_custom_job == create_custom_job
create_infra_validation_job == create_custom_job
create_templated_custom_job == create_custom_job
create_hyperparameter_tuning_job == [Gcp EXCEPT !.judge = "vertex", !.expires = TRUE]
create_batch_prediction_job == [Gcp EXCEPT !.judge = "vertex", !.expires = TRUE]
create_training_pipeline == [Gcp EXCEPT !.judge = "vertex"]

(* BigQuery: each component builds its own query and its own output artifacts. An error     *)
(* answer of the service is read as a job without status.                                   *)
bigquery_query_job == [Gcp EXCEPT !.onlost = "again"]
bigquery_drop_model_job == [bigquery_query_job EXCEPT !.outputs = FALSE]
bigquery_create_model_job == bigquery_query_job
bigquery_evaluate_model_job == bigquery_query_job
bigquery_export_model_job == bigquery_query_job
bigquery_ml_feature_importance_job == bigquery_query_job
bigquery_ml_advanced_weights_job == bigquery_query_job
bigquery_ml_arima_coefficients == bigquery_query_job
bigquery_ml_arima_evaluate_job == bigquery_query_job
bigquery_ml_centroids_job == bigquery_query_job
bigquery_ml_feature_info_job == bigquery_query_job
bigquery_ml_training_info_job == bigquery_query_job
bigquery_ml_trial_info_job == bigquery_query_job
bigquery_ml_weights_job == bigquery_query_job

(* These only build a query for bigquery_query_job. *)
bigquery_detect_anomalies_model_job == bigquery_query_job
bigquery_explain_forecast_model_job == bigquery_query_job
bigquery_explain_predict_model_job == bigquery_query_job
bigquery_forecast_model_job == bigquery_query_job
bigquery_ml_global_explain_job == bigquery_query_job
bigquery_ml_confusion_matrix_job == bigquery_query_job
bigquery_ml_principal_component_info_job == bigquery_query_job
bigquery_ml_principal_components_job == bigquery_query_job
bigquery_ml_recommend_job == bigquery_query_job
bigquery_ml_reconstruction_loss_job == bigquery_query_job
bigquery_ml_roc_curve_job == bigquery_query_job
bigquery_predict_model_job == bigquery_query_job

(* Dataproc: an adopted operation is fetched before it is waited for. *)
create_batch == [Gcp EXCEPT !.asks = TRUE, !.outputs = FALSE]

(* create_lro starts a new operation without looking at gcp_resources. *)
lro_launcher == [Gcp EXCEPT !.adopts = FALSE]
create_endpoint == lro_launcher
upload_model == lro_launcher
export_model == lro_launcher
deploy_model == [lro_launcher EXCEPT !.outputs = FALSE]
undeploy_model == deploy_model
delete_endpoint == deploy_model
delete_model == deploy_model

(* Dataflow jobs are started, and waited for by a component of their own. *)
launch_flex_template == [Gcp EXCEPT !.polls = FALSE, !.outputs = FALSE]
create_python_job == [Gcp EXCEPT !.adopts = FALSE, !.polls = FALSE, !.outputs = FALSE]
wait_gcp_resources ==
  [Gcp EXCEPT !.adopts = FALSE, !.waits = TRUE, !.onlost = "stale", !.judge = "dataflow", !.outputs = FALSE]

(* AWS: nothing is recorded. A SageMaker job is known by the name the component chose     *)
(* before it asked for it, a RoboMaker job by the ARN of the answer.                      *)
Aws == [Gcp EXCEPT !.cloud = "aws", !.adopts = FALSE, !.records = FALSE, !.judge = "status",
                   !.known = TRUE]
training_component == [Aws EXCEPT !.judge = "training"]
rlestimator_component == [Aws EXCEPT !.judge = "rlestimator"]
tuning_component == Aws
process_component == Aws
transform_component == Aws
ground_truth_component == Aws
simulation_job_component == [Aws EXCEPT !.judge = "simulation", !.known = FALSE]
simulation_job_batch_component == [Aws EXCEPT !.judge = "simulation", !.known = FALSE]

VertexLaunchers ==
  {create_custom_job, preview_create_custom_job, create_infra_validation_job,
   create_templated_custom_job, create_hyperparameter_tuning_job, create_batch_prediction_job,
   create_training_pipeline}
BigQueryLaunchers ==
  {bigquery_query_job, bigquery_drop_model_job, bigquery_create_model_job,
   bigquery_evaluate_model_job, bigquery_export_model_job,
   bigquery_ml_feature_importance_job, bigquery_ml_advanced_weights_job,
   bigquery_ml_arima_coefficients, bigquery_ml_arima_evaluate_job, bigquery_ml_centroids_job,
   bigquery_ml_feature_info_job, bigquery_ml_training_info_job, bigquery_ml_trial_info_job,
   bigquery_ml_weights_job, bigquery_detect_anomalies_model_job,
   bigquery_explain_forecast_model_job, bigquery_explain_predict_model_job,
   bigquery_forecast_model_job, bigquery_ml_global_explain_job,
   bigquery_ml_confusion_matrix_job, bigquery_ml_principal_component_info_job,
   bigquery_ml_principal_components_job, bigquery_ml_recommend_job,
   bigquery_ml_reconstruction_loss_job, bigquery_ml_roc_curve_job, bigquery_predict_model_job}
OperationLaunchers ==
  {create_batch, lro_launcher, create_endpoint, upload_model, export_model, deploy_model,
   undeploy_model, delete_endpoint, delete_model}
DataflowLaunchers == {launch_flex_template, create_python_job, wait_gcp_resources}
AwsLaunchers ==
  {training_component, rlestimator_component, tuning_component, process_component,
   transform_component, ground_truth_component, simulation_job_component,
   simulation_job_batch_component}
=============================================================================
