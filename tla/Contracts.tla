------------------------------- MODULE Contracts -------------------------------
(***************************************************************************)
(* The contracts of contracts/*.py: which fields each dataclass takes from *)
(* a JSON object, and what it asks of each. ContractCodec says how they    *)
(* are decoded and encoded.                                                *)
(*                                                                         *)
(* A JSON document is a pair of its type and its content, so that          *)
(* documents of different types can be compared. A decoded value is        *)
(* written like the document it is encoded to, with every field the        *)
(* dataclass has; an enum member is written like its string.               *)
(***************************************************************************)
EXTENDS Naturals, Sequences, FiniteSets, TLC

(* Documents. Bytes are no JSON, but MessagePack carries them, and runner code may return them. *)
Null        == <<"null">>
Text(s)     == <<"str", s>>
Number(n)   == <<"int", n>>
Real(n)     == <<"float", n>>
Flag(b)     == <<"bool", b>>
List(items) == <<"list", items>>
Object(f)   == <<"map", f>>
Blob(n)     == <<"bytes", n>>   \* n bytes

(* What decoding and encoding may raise instead of giving a value. *)
TypeError  == <<"TypeError">>
ValueError == <<"ValueError">>

Raised(v) == v \in {TypeError, ValueError}

(* Kinds: what a field may hold. *)
Str       == <<"str">>             \* as_str
Whole     == <<"int">>             \* as_int
Bool      == <<"bool">>            \* as_bool
Float     == <<"float">>           \* float(as_scalar(...))
Byte      == <<"byte">>            \* an item of _byte_tuple
Json      == <<"json">>            \* as_json_value
JsonDict  == <<"json dict">>       \* as_json_dict
Scalar    == <<"scalar">>          \* as_scalar
Pairs     == <<"pairs">>           \* _metadata_pairs
Cause     == <<"cause">>           \* a RuntimeError inside a RuntimeError
OneOf(names)      == <<"enum", names>>
Optional(kind)    == <<"optional", kind>>
Many(kind)        == <<"many", kind>>        \* tuple_from_json, as_str_tuple, _int_tuple, ...
ByKey(kind)       == <<"by key", kind>>      \* as_str_dict, as_plugin_deployments, ...
Scalars           == ByKey(Scalar)           \* as_scalar_dict
Default(kind, d)  == <<"default", kind, d>>  \* raw.get(...)
SkippedIfEmpty(kind) == <<"skipped", kind>>  \* a field encoded only if it is not empty
Fields(kinds)     == <<"fields", kinds>>     \* a dataclass encoded field by field
Tagged(tag, unknown, variants) == <<"tagged", tag, unknown, variants>>

NoFields == [field \in {} |-> Str]

Names(enum)      == enum[2]
FieldsOf(fields) == fields[2]

\* How kinds are put together: what may be in what, with nothing but kinds of the set.
IsLeaf(kind) ==
  kind[1] \in {"str", "int", "bool", "float", "byte", "json", "json dict", "scalar", "enum"}

FieldsFormed(kinds, set) ==
  DOMAIN kinds \subseteq STRING /\ \A field \in DOMAIN kinds : kinds[field] \in set

\* A field with a default holds one thing, or nothing, or a variant without fields.
DefaultFormed(kind, doc) ==
  \/ IsLeaf(kind)
  \/ kind[1] = "optional" /\ doc = Null
  \/ /\ kind[1] = "tagged" /\ doc[1] = "map" /\ DOMAIN doc[2] = {kind[2]}
     /\ doc[2][kind[2]][2] \in DOMAIN kind[4]
     /\ kind[4][doc[2][kind[2]][2]] = NoFields

Formed(kind, set) ==
  \/ IsLeaf(kind)
  \/ kind[1] = "pairs" /\ {Str, Scalar} \subseteq set
  \/ kind[1] = "optional" /\ kind[2] \in set /\ kind[2][1] \notin {"optional", "default", "skipped"}
  \/ /\ kind[1] = "default" /\ kind[2] \in set /\ kind[2][1] \notin {"default", "skipped"}
     /\ DefaultFormed(kind[2], kind[3])
  \/ kind[1] = "skipped" /\ kind[2] \in set /\ kind[2][1] \in {"json dict", "by key"}
  \/ kind[1] = "many" /\ kind[2] \in set
  \/ kind[1] = "by key" /\ kind[2] \in set /\ IsLeaf(kind[2])
  \/ kind[1] = "fields" /\ FieldsFormed(kind[2], set)
  \/ /\ kind[1] = "tagged" /\ kind[2] \in STRING /\ Raised(kind[3])
     /\ \A variant \in DOMAIN kind[4] :
          FieldsFormed(kind[4][variant], set) /\ kind[2] \notin DOMAIN kind[4][variant]
  \/ /\ kind[1] = "lifetime" /\ {kind[2], kind[3]} \subseteq set
     /\ kind[2][1] = "enum" /\ kind[3][1] = "fields"
     /\ \A field \in DOMAIN FieldsOf(kind[3]) : IsLeaf(FieldsOf(kind[3])[field])
  \/ kind[1] = "cause"

--------------------------------------------------------------------------------
(* contracts/state.py *)

ConflictPolicy == OneOf({"retry", "merge", "discard", "fail", "emit_conflict_task"})
VersionExpectation == Fields([ref_id |-> Str, expected_version |-> Whole])
StateRef == Fields([ref_id |-> Str, schema |-> Str, version |-> Whole])

StateDelta ==
  Fields([target_ref |-> Str, expected_version |-> Whole, patch |-> Json,
          conflict_policy |-> ConflictPolicy])

--------------------------------------------------------------------------------
(* contracts/entry.py *)

DispatchLane == OneOf({"control", "interactive", "normal", "background", "bulk"})
ResourceAccessMode == OneOf({"read", "write", "exclusive_write"})
PayloadLayout == OneOf({"row", "columnar", "binary_packed", "resource_backed"})

OrderingRequirement ==
  Tagged("type", TypeError, [none |-> NoFields, preserve_submit_order |-> NoFields,
                             same_resource_order |-> [ref_id |-> Str],
                             strict_sequence |-> [sequence_id |-> Str]])

ResourceRequirement ==
  Fields([ref_id |-> Str, mode |-> ResourceAccessMode,
          expected_version |-> Optional(Whole)])

--------------------------------------------------------------------------------
(* contracts/errors.py *)

RuntimeError ==
  Fields([code |-> Str, source |-> Str, route |-> Str, lost_capability |-> Optional(Str),
          recovery |-> Optional(Str), cause |-> Optional(Cause), evidence |-> Scalars])

--------------------------------------------------------------------------------
(* contracts/effect.py *)

EffectPrecondition == Fields([ref_id |-> Str, expected_version |-> Whole])

EffectRequest ==
  Fields([effect_id |-> Str, kind |-> Str, payload |-> Json,
          preconditions |-> Many(EffectPrecondition), idempotency_key |-> Optional(Str)])

--------------------------------------------------------------------------------
(* contracts/event.py *)

RuntimeEventKind ==
  OneOf({"lifecycle", "plugin", "resource", "trace", "host", "task", "runner", "state",
         "effect", "reload"})

SpanStatus == OneOf({"ok", "error"})
DomainEvent == Fields([event_id |-> Str, kind |-> Str, payload |-> Json])

RuntimeEvent ==
  Fields([sequence |-> Whole, kind |-> RuntimeEventKind, name |-> Str,
          subject_id |-> Optional(Str), attributes |-> Scalars,
          error |-> Optional(RuntimeError)])

TraceSpan ==
  Fields([sequence |-> Whole, trace_id |-> Str, span_id |-> Str,
          parent_span_id |-> Optional(Str), name |-> Str, start |-> Float,
          end |-> Optional(Float), attributes |-> Scalars, status |-> SpanStatus])

--------------------------------------------------------------------------------
(* contracts/resource.py *)

ValueStorage ==
  OneOf({"inline_small", "local_value_store", "blob", "stream", "provider_rpc"})

ResourceSealState == OneOf({"writable", "sealed"})

ResourceSemantic ==
  OneOf({"frozen_value", "versioned_snapshot", "read_only_fact", "cow_versioned_state",
         "capability_resource", "stream_resource", "transaction_resource"})

ResourceProviderReloadPolicy ==
  OneOf({"no_live_resources", "compatible_without_leases", "drain_active_leases",
         "restart_required"})

ResourceId ==
  Fields([kind_id |-> Str, slot_id |-> Str, generation |-> Whole, version |-> Whole])

ResourceProviderCompatibility ==
  Fields([schema_version |-> Str, required_operations |-> Many(Str),
          preserves_resource_type_id |-> Bool, accepts_older_generations |-> Bool,
          lease_drain_required |-> Bool])

ResourceTypeDescriptor ==
  Fields([kind_id |-> Str, semantic |-> ResourceSemantic, schema |-> Str,
          provider_id |-> Str, operations |-> Many(Str),
          reload_policy |-> ResourceProviderReloadPolicy,
          compatibility |-> ResourceProviderCompatibility])

(* A unit, or {"lease_until": step} and nothing else. *)
ResourceLifetime ==
  <<"lifetime", OneOf({"borrowed_until_task_end", "persistent", "external_managed"}),
                Fields([lease_until |-> Whole])>>

ResourceAccess ==
  Tagged("type", ValueError,
         [inline        |-> NoFields,
          mmap_file     |-> [path |-> Str, offset |-> Whole, len |-> Whole, readonly |-> Bool],
          shared_memory |-> [name |-> Str, offset |-> Whole, len |-> Whole, readonly |-> Bool],
          blob          |-> [store_id |-> Str, key |-> Str],
          stream        |-> [endpoint |-> Str],
          provider_rpc  |-> [provider_id |-> Str, method |-> Str]])

LeaseToken ==
  Fields([token_id |-> Str, ref_id |-> Str, owner |-> Str, mode |-> Str,
          expires_at_step |-> Optional(Whole), generation |-> Whole])

ExclusiveWriteLease == Fields([token |-> LeaseToken])

ResourceCellRef ==
  Fields([cell_id |-> Str, resource_kind |-> Str, owner_plugin_id |-> Str, schema |-> Str,
          generation |-> Whole, health |-> Str, reload_policy |-> Str])

ResourceLease ==
  Fields([lease_id |-> Str, cell_id |-> Str, borrower_task_id |-> Str,
          borrower_executor_id |-> Str, mode |-> Str, expires_at_step |-> Optional(Whole),
          generation |-> Whole])

ResourceRef ==
  Fields([ref_id |-> Str, resource_id |-> ResourceId, semantic |-> ResourceSemantic,
          provider_id |-> Str, resource_kind |-> Str, schema |-> Str, version |-> Whole,
          generation |-> Whole, access |-> ResourceAccess, size_hint |-> Optional(Whole),
          content_hash |-> Optional(Str), lifetime |-> ResourceLifetime,
          lease |-> Optional(LeaseToken), seal_state |-> ResourceSealState])

ValueRef ==
  Fields([ref_id |-> Str, provider_id |-> Str, schema |-> Str, version |-> Whole,
          generation |-> Whole, size_hint |-> Optional(Whole),
          content_hash |-> Optional(Str), lifetime |-> ResourceLifetime,
          storage |-> ValueStorage])

ResourceValue ==
  Tagged("type", ValueError, [inline       |-> [schema |-> Str, value |-> Json, version |-> Whole],
                              value_ref    |-> FieldsOf(ValueRef),
                              resource_ref |-> FieldsOf(ResourceRef)])

--------------------------------------------------------------------------------
(* contracts/resource_plans.py *)

SnapshotDescriptor ==
  Fields([snapshot_ref |-> ResourceRef, source_ref |-> ResourceRef,
          source_version |-> Whole, snapshot_version |-> Whole, is_stale |-> Bool,
          is_latest |-> Bool])

PatchDescriptor ==
  Fields([patch_id |-> Str, target_ref |-> ResourceRef, base_version |-> Whole,
          conflict_policy |-> Str, operations |-> Json])

ReadPlan ==
  Fields([plan_id |-> Str, resource |-> ResourceRef, operation |-> Str, args |-> Json])

WritePlan ==
  Fields([plan_id |-> Str, resource |-> ResourceRef, base_version |-> Whole,
          conflict_policy |-> Str, patch |-> PatchDescriptor,
          returning |-> Optional(ReadPlan)])

StreamPlan ==
  Fields([plan_id |-> Str, resource |-> ResourceRef, operation |-> Str, args |-> Json])

ExportPlan ==
  Fields([plan_id |-> Str, resource |-> ResourceRef, target |-> Str, args |-> Json])

CommandPlan ==
  Fields([plan_id |-> Str, capability |-> ResourceRef, operation |-> Str, args |-> Json,
          idempotency_key |-> Optional(Str)])

TransactionPlan ==
  Fields([plan_id |-> Str, operations |-> Many(WritePlan), strict |-> Bool])

CommandBatch ==
  Fields([batch_id |-> Str, commands |-> Many(CommandPlan), rollback_guarantee |-> Bool])

SagaPlan ==
  Fields([saga_id |-> Str, steps |-> Many(CommandPlan),
          compensations |-> Many(CommandPlan)])

PlanReceipt ==
  Fields([plan_id |-> Str, status |-> Str, resource_ref |-> Optional(ResourceRef),
          snapshot |-> Optional(SnapshotDescriptor),
          descriptor_updates |-> Many(ResourceRef), new_version |-> Optional(Whole),
          output |-> Json])

--------------------------------------------------------------------------------
(* contracts/task.py *)

TaskStatus ==
  OneOf({"created", "ready", "running", "waiting", "blocked", "completed", "failed",
         "cancelled", "expired", "dead_letter"})

CancelPolicy == OneOf({"cascade", "detach", "shield"})

Task ==
  Fields([task_id |-> Str, protocol_id |-> Str, priority |-> Whole,
          ready_at_step |-> Optional(Whole), payload |-> Json, input_refs |-> Many(Str),
          output_ref |-> Optional(Str), continuation_ref |-> Optional(Str),
          target_binding_id |-> Optional(Str), lease_id |-> Optional(Str),
          trace_id |-> Optional(Str), expected_versions |-> Many(VersionExpectation),
          correlation_id |-> Optional(Str), idempotency_key |-> Optional(Str),
          runner_hint |-> Optional(Str), registry_generation |-> Whole,
          required_surfaces |-> Many(Str), dispatch_lane |-> DispatchLane,
          ordering |-> OrderingRequirement,
          resource_requirements |-> Many(ResourceRequirement), created_sequence |-> Whole])

TaskLease ==
  Fields([lease_id |-> Str, task_id |-> Str,
          attempt_generation |-> Default(Whole, Number(0)), runner_id |-> Str,
          executor_id |-> Str, registry_generation |-> Whole, acquired_at_step |-> Whole,
          expires_at_step |-> Optional(Whole)])

TaskHandle ==
  Fields([task_id |-> Str, protocol_id |-> Str, target_binding_id |-> Optional(Str),
          cancel_policy |-> CancelPolicy, trace_id |-> Optional(Str),
          correlation_id |-> Optional(Str)])

TaskOutcome ==
  Tagged("status", ValueError,
         [completed |-> [output_ref |-> Optional(Str), output |-> Default(Json, Null)],
          failed    |-> [error |-> RuntimeError]]
         @@ [status \in Names(TaskStatus) \ {"completed", "failed"} |-> [reason |-> Optional(Str)]])

WakeCondition ==
  Tagged("type", TypeError, [timer           |-> [ready_at_step |-> Whole],
                             retry_after     |-> [ready_at_step |-> Whole],
                             resource_event  |-> [ref_id |-> Str],
                             external_signal |-> [signal_id |-> Str],
                             manual_wake     |-> NoFields])

TaskStepContinuation ==
  Fields([continuation |-> ResourceRef, wake |-> Optional(WakeCondition),
          reason |-> Optional(Str)])

TaskAwait ==
  Fields([parent_task_id |-> Str, child |-> TaskHandle,
          continuation |-> TaskStepContinuation, cancel_policy |-> CancelPolicy])

--------------------------------------------------------------------------------
(* contracts/runner.py *)

RunnerPurity == OneOf({"pure", "committer", "effectful"})
ExecutionClass == OneOf({"control", "orchestration", "io", "cpu", "blocking", "script"})

InvocationMode ==
  OneOf({"sync_exclusive", "async_reentrant", "async_exclusive", "external_process"})

RunnerConcurrencyMode == OneOf({"exclusive", "reentrant", "sharded"})

RunnerConcurrency ==
  Tagged("mode", ValueError,
         [exclusive |-> NoFields,
          reentrant |-> [max_inflight_batches |-> Whole, max_inflight_entries |-> Whole],
          sharded   |-> [instances |-> Whole]])

RunnerStatus ==
  OneOf({"completed", "waiting", "blocked", "continue", "failed", "cancelled"})

RunnerMode == OneOf({"scalar_adapter", "native_batch", "batch"})
RunnerSideEffect == OneOf({"none", "resource", "external", "unknown"})
TimeoutGranularity == OneOf({"batch", "entry"})

RunnerBatchCapability ==
  Fields([mode |-> RunnerMode, preferred_batch_size |-> Whole, max_batch_entries |-> Whole,
          max_entry_concurrency |-> Whole, max_inflight_batches |-> Whole,
          scalar_thread_safe |-> Bool, scalar_reentrant |-> Bool, partial_failure |-> Bool,
          preserve_order |-> Bool, side_effect |-> RunnerSideEffect])

RunnerPayloadCapability ==
  Fields([layouts |-> Many(PayloadLayout), preferred_layout |-> PayloadLayout,
          zero_copy |-> Bool])

RunnerResourceCapability ==
  Fields([batch_read |-> Bool, batch_write |-> Bool, requires_resource_plan |-> Bool,
          supports_shared_memory |-> Bool])

RunnerOrderingCapability ==
  Fields([default |-> OrderingRequirement, supports_sequence |-> Bool,
          supports_same_resource_order |-> Bool])

RunnerControlCapability ==
  Fields([entry_cancel |-> Bool, batch_cancel |-> Bool,
          timeout_granularity |-> TimeoutGranularity])

RunnerDescriptor ==
  Fields([runner_id |-> Str, plugin_id |-> Str, plugin_generation |-> Whole,
          accepted_protocol_ids |-> Many(Str), purity |-> RunnerPurity,
          execution_class |-> ExecutionClass,
          invocation_mode |-> Default(InvocationMode, Text("sync_exclusive")),
          concurrency |-> Default(RunnerConcurrency, Object([mode |-> Text("exclusive")])),
          input_schema |-> JsonDict, output_schema |-> JsonDict,
          batch |-> RunnerBatchCapability, payload |-> RunnerPayloadCapability,
          resources |-> RunnerResourceCapability, ordering |-> RunnerOrderingCapability,
          control |-> RunnerControlCapability, metadata |-> Scalars,
          contract_surfaces |-> Many(Str)])

RunnerContext ==
  Fields([registry_generation |-> Whole, current_step |-> Whole, tick_id |-> Str,
          batch_id |-> Str, executor_id |-> Str, task_lease_ids |-> Many(Str),
          entry_count |-> Whole, invocation_id |-> Str, cancel_token |-> Str,
          deadline_tick |-> Optional(Whole),
          deadline_after_ms |-> Default(Optional(Whole), Null), cancel_requested |-> Bool])

RunnerResult ==
  Fields([task_id |-> Str, output |-> Default(Json, Null), deltas |-> Many(StateDelta),
          events |-> Many(DomainEvent), tasks |-> Many(Task),
          effects |-> Many(EffectRequest), values |-> Many(ValueRef),
          resources |-> Many(ResourceRef), task_await |-> Optional(TaskAwait),
          status |-> RunnerStatus])

--------------------------------------------------------------------------------
(* contracts/batch.py *)

BatchEntry ==
  Fields([entry_id |-> Str, task_id |-> Str, trace_id |-> Optional(Str),
          parent_id |-> Optional(Str), payload_index |-> Whole,
          resource_requirement_indices |-> Many(Whole), cancel_index |-> Optional(Whole),
          deadline_tick |-> Optional(Whole), priority |-> Whole, lane |-> DispatchLane,
          ordering |-> OrderingRequirement])

RowPayload == Fields([rows |-> Many(Json)])
ColumnPayload == Fields([name |-> Str, values |-> Many(Json)])
ColumnarPayload == Fields([columns |-> Many(ColumnPayload), row_count |-> Whole])
BinaryPackedPayload == Fields([encoding |-> Str, bytes |-> Many(Byte), row_count |-> Whole])

ResourceSlice ==
  Fields([resource |-> ResourceRef, offset |-> Whole, length |-> Optional(Whole)])

ResourceBackedPayload == Fields([slices |-> Many(ResourceSlice)])

BatchPayload ==
  Tagged("layout", ValueError, [row             |-> [payload |-> RowPayload],
                                columnar        |-> [payload |-> ColumnarPayload],
                                binary_packed   |-> [payload |-> BinaryPackedPayload],
                                resource_backed |-> [payload |-> ResourceBackedPayload]])

ResourceReadView == Fields([ref_id |-> Str, requirement_indices |-> Many(Whole)])
ResourceWriteLock == Fields([ref_id |-> Str, requirement_indices |-> Many(Whole)])

DeferredResourceOp ==
  Fields([entry_id |-> Str, ref_id |-> Str, operation |-> Str, payload |-> Json])

WorkResourcePlan ==
  Fields([read_views |-> Many(ResourceReadView), write_locks |-> Many(ResourceWriteLock),
          parallel_groups |-> Many(Many(Str)), serial_groups |-> Many(Many(Str)),
          parallelism_limit |-> Whole, version_checks |-> Many(VersionExpectation),
          deferred_writes |-> Many(DeferredResourceOp), conflict_entries |-> Many(Str)])

TaskBatch ==
  Fields([batch_id |-> Str, tick_id |-> Optional(Str), tasks |-> Many(Task),
          resource_plan |-> Optional(WorkResourcePlan)])

WorkSet ==
  Fields([tick_id |-> Str, batch_key |-> Str, entries |-> Many(BatchEntry),
          resource_requirements |-> Many(ResourceRequirement)])

WorkBatch ==
  Fields([batch_id |-> Str, tick_id |-> Str, batch_key |-> Str,
          entries |-> Many(BatchEntry), payload |-> BatchPayload,
          resource_plan |-> WorkResourcePlan, task_leases |-> Many(TaskLease)])

EntryCompletion ==
  Fields([entry_id |-> Str, task_id |-> Str, result |-> Optional(RunnerResult),
          error |-> Optional(RuntimeError)])

CompletionBatch ==
  Fields([batch_id |-> Str, tick_id |-> Str, results |-> Many(EntryCompletion),
          metadata |-> Pairs])

--------------------------------------------------------------------------------
(* contracts/extension.py *)

HostExtensionKind ==
  OneOf({"plugin_backend", "bridge", "codec", "trace_sink", "scheduler_policy",
         "permission_policy", "resource_plan_gateway"})

PluginDeploymentKind == OneOf({"builtin", "abi", "wasm", "process", "python"})

HostExtensionDescriptor ==
  Fields([extension_id |-> Str, kind |-> HostExtensionKind,
          supported_deployments |-> Many(PluginDeploymentKind), reload_policy |-> Str,
          drain_required |-> Bool])

PluginBackendDescriptor ==
  Fields([backend_id |-> Str, deployment_kind |-> PluginDeploymentKind,
          task_client_protocol |-> Str, resource_client_protocol |-> Str,
          codec_id |-> Optional(Str), bridge_id |-> Optional(Str)])

CodecDescriptor ==
  Fields([codec_id |-> Str, media_type |-> Str, version |-> Str,
          connection_scoped |-> Bool])

BridgeDescriptor ==
  Fields([bridge_id |-> Str, deployment_kind |-> PluginDeploymentKind,
          codec_ids |-> Many(Str), drain_policy |-> Str])

SchedulerPolicyDescriptor ==
  Fields([policy_id |-> Str, version |-> Str, decision_scope |-> Str])

WorkflowDescriptor ==
  Fields([workflow_id |-> Str, state_resource_kind |-> Str, runner_protocol_id |-> Str,
          reload_policy |-> Str])

--------------------------------------------------------------------------------
(* contracts/surface.py *)

ContractSurfaceKind ==
  OneOf({"runner", "task_protocol", "schema", "resource_schema", "resource_provider",
         "host_extension", "plugin_backend", "codec", "bridge", "scheduler_policy",
         "workflow", "effect", "stream", "subscription", "timer", "protocol",
         "handler_binding", "state_schema", "lifecycle", "permission"})

SurfaceCompatibility ==
  OneOf({"identical", "additive", "deprecated", "removed", "breaking"})

SurfaceOccupancyHandleKind == OneOf({"stream", "subscription", "timer"})

ContractSurface ==
  Fields([surface_id |-> Str, kind |-> ContractSurfaceKind, owner_plugin_id |-> Str,
          fingerprint |-> Str, deprecated |-> Bool])

SurfaceOccupancy ==
  Fields([surface_id |-> Str, ready_tasks |-> Whole, running_invocations |-> Whole,
          resource_refs |-> Whole, state_refs |-> Whole, active_leases |-> Whole,
          open_streams |-> Whole, subscriptions |-> Whole, timers |-> Whole,
          effect_inflight |-> Whole])

SurfaceOccupancyHandle ==
  Fields([handle_id |-> Str, surface_id |-> Str, owner_plugin_id |-> Str,
          plugin_generation |-> Whole, registry_generation |-> Whole,
          kind |-> SurfaceOccupancyHandleKind])

--------------------------------------------------------------------------------
(* contracts/observability.py *)

ObservabilityOverflowPolicy == OneOf({"drop_oldest", "drop_new"})

ObservabilityOutletProfile ==
  Fields([capacity |-> Whole, overflow_policy |-> ObservabilityOverflowPolicy])

ObservabilityProfile ==
  Fields([events |-> ObservabilityOutletProfile, traces |-> ObservabilityOutletProfile,
          detailed_scheduler_decisions |-> Bool, dispatch_spans |-> Bool])

ObservabilityPage ==
  Fields([items |-> Many(Json), next_sequence |-> Whole,
          earliest_available_sequence |-> Optional(Whole), latest_sequence |-> Whole,
          lost |-> Whole, truncated |-> Bool, dropped |-> Whole])

--------------------------------------------------------------------------------
(* contracts/plugin.py *)

ArtifactType == OneOf({"abi", "process", "wasm", "python", "native"})

RuntimeProfileMode ==
  OneOf({"full_dev", "extensible_runtime", "builtin_only", "locked_builtin"})

ProtocolClass == OneOf({"domain", "effect", "core", "control"})
PluginArtifact == Fields([artifact_type |-> ArtifactType, path |-> Str, sha256 |-> Str])
PermissionGrant == Fields([effects |-> Many(Str), resources |-> Many(Str)])

LifecyclePolicy ==
  Fields([reload_policy |-> Str, unload_timeout_ms |-> Whole, supports_cancel |-> Bool,
          supports_dispose |-> Bool, supports_snapshot |-> Bool])

ProtocolDescriptor ==
  Fields([protocol_id |-> Str, version |-> Str, input_schema |-> Json,
          output_schema |-> Json, error_schema |-> Json, codec |-> Str,
          compatibility |-> Str])

HandlerBinding ==
  Fields([binding_id |-> Str, plugin_id |-> Str, protocol_id |-> Str,
          target_protocol_id |-> Str, target_runner_hint |-> Optional(Str),
          pool_id |-> Str, priority |-> Whole, policy |-> Str, metadata |-> Scalars])

PluginProvides ==
  Fields([runners |-> Many(RunnerDescriptor), protocols |-> Many(ProtocolDescriptor),
          handler_bindings |-> Many(HandlerBinding), resource_schemas |-> Many(Str),
          resource_providers |-> Many(Str),
          resource_types |-> Many(ResourceTypeDescriptor), effects |-> Many(Str),
          streams |-> Many(Str), subscriptions |-> Many(Str), timers |-> Many(Str),
          state_schemas |-> Many(Str), host_extensions |-> Many(HostExtensionDescriptor),
          plugin_backends |-> Many(PluginBackendDescriptor),
          codecs |-> Many(CodecDescriptor), bridges |-> Many(BridgeDescriptor),
          scheduler_policies |-> Many(SchedulerPolicyDescriptor),
          workflows |-> Many(WorkflowDescriptor),
          protocol_classes |-> SkippedIfEmpty(ByKey(ProtocolClass))])

PluginManifest ==
  Fields([plugin_id |-> Str, version |-> Str, api_version |-> Str,
          artifact |-> PluginArtifact, provides |-> PluginProvides, requires |-> Many(Str),
          permissions |-> PermissionGrant, lifecycle |-> LifecyclePolicy,
          metadata |-> Scalars])

RuntimeProfile ==
  Fields([profile_id |-> Str, mode |-> RuntimeProfileMode, enabled_plugins |-> Many(Str),
          bindings |-> ByKey(Str), plugin_deployments |-> ByKey(PluginDeploymentKind),
          observability |-> ObservabilityProfile, allow_dynamic_registration |-> Bool,
          allow_hot_reload |-> Bool])

CapabilityProviderSelection ==
  Fields([capability |-> Str, provider_plugin_id |-> Str,
          provider_version |-> Optional(Str), surface_id |-> Str, reason |-> Str])

PermissionAuditEntry ==
  Fields([plugin_id |-> Str, permission_kind |-> Str, permission |-> Str, granted |-> Bool,
          provider_capability |-> Optional(Str), reason |-> Str])

RuntimeCapabilityGraph ==
  Fields([profile_mode |-> RuntimeProfileMode, provided_capabilities |-> Many(Str),
          required_capabilities |-> Many(Str), active_capabilities |-> Many(Str),
          active_capability_providers |-> Many(CapabilityProviderSelection),
          active_resource_providers |-> Many(Str), active_host_extensions |-> Many(Str),
          active_plugin_backends |-> Many(Str), active_codecs |-> Many(Str),
          active_bridges |-> Many(Str), active_scheduler_policies |-> Many(Str),
          active_workflows |-> Many(Str), permission_audit |-> Many(PermissionAuditEntry)])

RuntimeLoadPlan ==
  Fields([lock_version |-> Whole, core_api_version |-> Str, profile_id |-> Str,
          profile_hash |-> Str, registry_generation |-> Whole,
          plugins |-> Many(PluginManifest), load_order |-> Many(Str),
          runner_bindings |-> ByKey(Str),
          plugin_deployments |-> ByKey(PluginDeploymentKind),
          observability |-> ObservabilityProfile,
          capability_graph |-> RuntimeCapabilityGraph,
          contract_surfaces |-> Many(ContractSurface)])

--------------------------------------------------------------------------------
(* wire/requests.py, with the hello of wire/protocol.py: the payload of each opcode that *)
(* is served.                                                                            *)

WireProtocolVersion == Fields([major |-> Whole, minor |-> Whole])

ProtocolHello ==
  Fields([protocol |-> WireProtocolVersion, codec_id |-> Str, schema_revision |-> Str,
          max_frame_bytes |-> Whole, max_payload_bytes |-> Whole,
          max_in_flight_requests |-> Whole, management_reserved_requests |-> Whole,
          management_channel |-> Bool, feature_flags |-> Many(Str)])

InitializeRequest == Fields([hello |-> ProtocolHello, config |-> Default(Json, Null)])
RunBatchRequest == Fields([runner_id |-> Str, ctx |-> RunnerContext, batch |-> WorkBatch])
CancelRunnerRequest == Fields([runner_id |-> Str, invocation_id |-> Str])
DisposeRunnerRequest == Fields([runner_id |-> Str])

ProviderId == Default(Optional(Str), Null)

ExportPlanRequest == Fields([provider_id |-> ProviderId, plan |-> ExportPlan])
CommandPlanRequest == Fields([provider_id |-> ProviderId, plan |-> CommandPlan])
CommandBatchRequest == Fields([provider_id |-> ProviderId, batch |-> CommandBatch])
SagaPlanRequest == Fields([provider_id |-> ProviderId, saga |-> SagaPlan])

RequestOf == "plugin.initialize" :> InitializeRequest
          @@ "runner.run_batch" :> RunBatchRequest
          @@ "runner.cancel" :> CancelRunnerRequest
          @@ "runner.dispose" :> DisposeRunnerRequest
          @@ "resource.export" :> ExportPlanRequest
          @@ "resource.command" :> CommandPlanRequest
          @@ "resource.command_batch" :> CommandBatchRequest
          @@ "resource.saga" :> SagaPlanRequest
================================================================================
