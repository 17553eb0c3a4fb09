--------------------------- MODULE V1beta1Copies ----------------------------
(***************************************************************************)
(* The types of v1beta1 and the generated functions that copy them. A type *)
(* has the fields that hold references, themselves or further down; a copy *)
(* says what DeepCopyInto does with a field after the assignment of the    *)
(* whole. Types of libraries are named and left to Copying.                *)
(***************************************************************************)
EXTENDS Copying

ClusterTriggerBindingType ==
    [ObjectMeta |-> Val("ObjectMeta"), Spec |-> Val("TriggerBindingSpec"),
     Status |-> Val("TriggerBindingStatus")]
ClusterTriggerBindingCopy == [ObjectMeta |-> Into, Spec |-> Into]

ClusterTriggerBindingListType ==
    [ListMeta |-> Val("ListMeta"), Items |-> Slice("ClusterTriggerBinding")]
ClusterTriggerBindingListCopy == [ListMeta |-> Into, Items |-> Make]

CustomResourceType == [RawExtension |-> Val("RawExtension")]
CustomResourceCopy == [RawExtension |-> Into]

EventListenerType ==
    [ObjectMeta |-> Val("ObjectMeta"), Spec |-> Val("EventListenerSpec"),
     Status |-> Val("EventListenerStatus")]
EventListenerCopy == [ObjectMeta |-> Into, Spec |-> Into, Status |-> Into]

EventListenerConfigType == NoFields
EventListenerConfigCopy == NoFields

EventListenerListType == [ListMeta |-> Val("ListMeta"), Items |-> Slice("EventListener")]
EventListenerListCopy == [ListMeta |-> Into, Items |-> Make]

EventListenerSpecType ==
    [Triggers |-> Slice("EventListenerTrigger"),
     TriggerGroups |-> Slice("EventListenerTriggerGroup"),
     NamespaceSelector |-> Val("NamespaceSelector"), LabelSelector |-> Ptr("LabelSelector"),
     Resources |-> Val("Resources")]

\* Mutant: generated before there were groups
EventListenerSpecCopyStale ==
    [Triggers |-> Make, NamespaceSelector |-> Into, LabelSelector |-> New, Resources |-> Into]

EventListenerSpecCopy ==
    [Triggers |-> Make, TriggerGroups |-> Make, NamespaceSelector |-> Into, LabelSelector |-> New,
     Resources |-> Into]

EventListenerStatusType ==
    [Status |-> Val("DuckStatus"), AddressStatus |-> Val("AddressStatus"),
     Configuration |-> Val("EventListenerConfig")]
EventListenerStatusCopy == [Status |-> Into, AddressStatus |-> Into]

EventListenerTriggerType ==
    [Bindings |-> Ptrs("TriggerSpecBinding"), Template |-> Ptr("TriggerSpecTemplate"),
     Interceptors |-> Ptrs("TriggerInterceptor")]
EventListenerTriggerCopy == [Bindings |-> MakeNew, Template |-> New, Interceptors |-> MakeNew]

EventListenerTriggerGroupType ==
    [Interceptors |-> Ptrs("TriggerInterceptor"),
     TriggerSelector |-> Val("EventListenerTriggerSelector")]
EventListenerTriggerGroupCopy == [Interceptors |-> MakeNew, TriggerSelector |-> Into]

EventListenerTriggerSelectorType ==
    [NamespaceSelector |-> Val("NamespaceSelector"), LabelSelector |-> Ptr("LabelSelector")]
EventListenerTriggerSelectorCopy == [NamespaceSelector |-> Into, LabelSelector |-> New]

InterceptorParamsType == [Value |-> Val("JSON")]
InterceptorParamsCopy == [Value |-> Into]

InterceptorRefType == NoFields
InterceptorRefCopy == NoFields

KubernetesResourceType ==
    [Replicas |-> Ptr(""), ServicePort |-> Ptr(""), ServiceLoadBalancerClass |-> Ptr(""),
     WithPodSpec |-> Val("WithPodSpec")]
KubernetesResourceCopy ==
    [Replicas |-> NewFlat, ServicePort |-> NewFlat, ServiceLoadBalancerClass |-> NewFlat,
     WithPodSpec |-> Into]

NamespaceSelectorType == [MatchNames |-> Slice("")]
NamespaceSelectorCopy == [MatchNames |-> MakeFlat]

ParamType == NoFields
ParamCopy == NoFields

ParamSpecType == [Default |-> Ptr("")]
ParamSpecCopy == [Default |-> NewFlat]

ResourcesType ==
    [KubernetesResource |-> Ptr("KubernetesResource"), CustomResource |-> Ptr("CustomResource")]
ResourcesCopy == [KubernetesResource |-> New, CustomResource |-> New]

TriggerType == [ObjectMeta |-> Val("ObjectMeta"), Spec |-> Val("TriggerSpec")]
TriggerCopy == [ObjectMeta |-> Into, Spec |-> Into]

TriggerBindingType ==
    [ObjectMeta |-> Val("ObjectMeta"), Spec |-> Val("TriggerBindingSpec"),
     Status |-> Val("TriggerBindingStatus")]
TriggerBindingCopy == [ObjectMeta |-> Into, Spec |-> Into]

TriggerBindingListType == [ListMeta |-> Val("ListMeta"), Items |-> Slice("TriggerBinding")]
TriggerBindingListCopy == [ListMeta |-> Into, Items |-> Make]

TriggerBindingSpecType == [Params |-> Slice("Param")]
TriggerBindingSpecCopy == [Params |-> MakeFlat]

TriggerBindingStatusType == NoFields
TriggerBindingStatusCopy == NoFields

TriggerInterceptorType ==
    [Name |-> Ptr(""), Ref |-> Val("InterceptorRef"), Params |-> Slice("InterceptorParams"),
     Webhook |-> Ptr("WebhookInterceptor")]
TriggerInterceptorCopy == [Name |-> NewFlat, Params |-> Make, Webhook |-> New]

TriggerListType == [ListMeta |-> Val("ListMeta"), Items |-> Slice("Trigger")]
TriggerListCopy == [ListMeta |-> Into, Items |-> Make]

TriggerResourceTemplateType == [RawExtension |-> Val("RawExtension")]
TriggerResourceTemplateCopy == [RawExtension |-> Into]

TriggerSpecType ==
    [Bindings |-> Ptrs("TriggerSpecBinding"), Template |-> Val("TriggerSpecTemplate"),
     Interceptors |-> Ptrs("TriggerInterceptor")]
TriggerSpecCopy == [Bindings |-> MakeNew, Template |-> Into, Interceptors |-> MakeNew]

TriggerSpecBindingType == [Value |-> Ptr("")]
TriggerSpecBindingCopy == [Value |-> NewFlat]

TriggerSpecTemplateType == [Ref |-> Ptr(""), Spec |-> Ptr("TriggerTemplateSpec")]
TriggerSpecTemplateCopy == [Ref |-> NewFlat, Spec |-> New]

TriggerTemplateType ==
    [ObjectMeta |-> Val("ObjectMeta"), Spec |-> Val("TriggerTemplateSpec"),
     Status |-> Val("TriggerTemplateStatus")]
TriggerTemplateCopy == [ObjectMeta |-> Into, Spec |-> Into]

TriggerTemplateListType == [ListMeta |-> Val("ListMeta"), Items |-> Slice("TriggerTemplate")]
TriggerTemplateListCopy == [ListMeta |-> Into, Items |-> Make]

TriggerTemplateSpecType ==
    [Params |-> Slice("ParamSpec"), ResourceTemplates |-> Slice("TriggerResourceTemplate")]
TriggerTemplateSpecCopy == [Params |-> Make, ResourceTemplates |-> Make]

TriggerTemplateStatusType == NoFields
TriggerTemplateStatusCopy == NoFields

WebhookInterceptorType ==
    [ObjectRef |-> Ptr(""), URL |-> Ptr("URL"), Header |-> Slice("PipelineParam")]
WebhookInterceptorCopy == [ObjectRef |-> NewFlat, URL |-> New, Header |-> Make]

-----------------------------------------------------------------------------

Types ==
    [ClusterTriggerBinding |-> ClusterTriggerBindingType,
     ClusterTriggerBindingList |-> ClusterTriggerBindingListType,
     CustomResource |-> CustomResourceType, EventListener |-> EventListenerType,
     EventListenerConfig |-> EventListenerConfigType, EventListenerList |-> EventListenerListType,
     EventListenerSpec |-> EventListenerSpecType, EventListenerStatus |-> EventListenerStatusType,
     EventListenerTrigger |-> EventListenerTriggerType,
     EventListenerTriggerGroup |-> EventListenerTriggerGroupType,
     EventListenerTriggerSelector |-> EventListenerTriggerSelectorType,
     InterceptorParams |-> InterceptorParamsType, InterceptorRef |-> InterceptorRefType,
     KubernetesResource |-> KubernetesResourceType, NamespaceSelector |-> NamespaceSelectorType,
     Param |-> ParamType, ParamSpec |-> ParamSpecType, Resources |-> ResourcesType,
     Trigger |-> TriggerType, TriggerBinding |-> TriggerBindingType,
     TriggerBindingList |-> TriggerBindingListType, TriggerBindingSpec |-> TriggerBindingSpecType,
     TriggerBindingStatus |-> TriggerBindingStatusType,
     TriggerInterceptor |-> TriggerInterceptorType, TriggerList |-> TriggerListType,
     TriggerResourceTemplate |-> TriggerResourceTemplateType, TriggerSpec |-> TriggerSpecType,
     TriggerSpecBinding |-> TriggerSpecBindingType,
     TriggerSpecTemplate |-> TriggerSpecTemplateType, TriggerTemplate |-> TriggerTemplateType,
     TriggerTemplateList |-> TriggerTemplateListType,
     TriggerTemplateSpec |-> TriggerTemplateSpecType,
     TriggerTemplateStatus |-> TriggerTemplateStatusType,
     WebhookInterceptor |-> WebhookInterceptorType]

Copies ==
    [ClusterTriggerBinding |-> ClusterTriggerBindingCopy,
     ClusterTriggerBindingList |-> ClusterTriggerBindingListCopy,
     CustomResource |-> CustomResourceCopy, EventListener |-> EventListenerCopy,
     EventListenerConfig |-> EventListenerConfigCopy, EventListenerList |-> EventListenerListCopy,
     EventListenerSpec |-> EventListenerSpecCopy, EventListenerStatus |-> EventListenerStatusCopy,
     EventListenerTrigger |-> EventListenerTriggerCopy,
     EventListenerTriggerGroup |-> EventListenerTriggerGroupCopy,
     EventListenerTriggerSelector |-> EventListenerTriggerSelectorCopy,
     InterceptorParams |-> InterceptorParamsCopy, InterceptorRef |-> InterceptorRefCopy,
     KubernetesResource |-> KubernetesResourceCopy, NamespaceSelector |-> NamespaceSelectorCopy,
     Param |-> ParamCopy, ParamSpec |-> ParamSpecCopy, Resources |-> ResourcesCopy,
     Trigger |-> TriggerCopy, TriggerBinding |-> TriggerBindingCopy,
     TriggerBindingList |-> TriggerBindingListCopy, TriggerBindingSpec |-> TriggerBindingSpecCopy,
     TriggerBindingStatus |-> TriggerBindingStatusCopy,
     TriggerInterceptor |-> TriggerInterceptorCopy, TriggerList |-> TriggerListCopy,
     TriggerResourceTemplate |-> TriggerResourceTemplateCopy, TriggerSpec |-> TriggerSpecCopy,
     TriggerSpecBinding |-> TriggerSpecBindingCopy,
     TriggerSpecTemplate |-> TriggerSpecTemplateCopy, TriggerTemplate |-> TriggerTemplateCopy,
     TriggerTemplateList |-> TriggerTemplateListCopy,
     TriggerTemplateSpec |-> TriggerTemplateSpecCopy,
     TriggerTemplateStatus |-> TriggerTemplateStatusCopy,
     WebhookInterceptor |-> WebhookInterceptorCopy]

\* Those that are objects or lists of the API
Roots ==
    {"ClusterTriggerBinding", "ClusterTriggerBindingList", "EventListener", "EventListenerList",
     "Trigger", "TriggerBinding", "TriggerBindingList", "TriggerList", "TriggerTemplate",
     "TriggerTemplateList"}
=============================================================================
