--------------------------- MODULE V1alpha1Copies ---------------------------
(***************************************************************************)
(* The types of v1alpha1 and the generated functions that copy them. A     *)
(* type has the fields that hold references, themselves or further down; a *)
(* copy says what DeepCopyInto does with a field after the assignment of   *)
(* the whole. Types of libraries are named and left to Copying.            *)
(***************************************************************************)
EXTENDS Copying

BitbucketInterceptorType == [SecretRef |-> Ptr("SecretRef"), EventTypes |-> Slice("")]
BitbucketInterceptorCopy == [SecretRef |-> NewFlat, EventTypes |-> MakeFlat]

CELInterceptorType == [Overlays |-> Slice("CELOverlay")]
CELInterceptorCopy == [Overlays |-> MakeFlat]

CELOverlayType == NoFields
CELOverlayCopy == NoFields

ClientConfigType ==
    [CaBundle |-> Slice(""), URL |-> Ptr("URL"), Service |-> Ptr("ServiceReference")]
ClientConfigCopy == [CaBundle |-> MakeFlat, URL |-> New, Service |-> New]

ClusterInterceptorType ==
    [ObjectMeta |-> Val("ObjectMeta"), Spec |-> Val("ClusterInterceptorSpec"),
     Status |-> Val("ClusterInterceptorStatus")]
ClusterInterceptorCopy == [ObjectMeta |-> Into, Spec |-> Into, Status |-> Into]

ClusterInterceptorListType == [ListMeta |-> Val("ListMeta"), Items |-> Slice("ClusterInterceptor")]
ClusterInterceptorListCopy == [ListMeta |-> Into, Items |-> Make]

ClusterInterceptorSpecType == [ClientConfig |-> Val("ClientConfig")]
ClusterInterceptorSpecCopy == [ClientConfig |-> Into]

ClusterInterceptorStatusType ==
    [Status |-> Val("DuckStatus"), AddressStatus |-> Val("AddressStatus")]
ClusterInterceptorStatusCopy == [Status |-> Into, AddressStatus |-> Into]

ClusterTriggerBindingType ==
    [ObjectMeta |-> Val("ObjectMeta"), Spec |-> Val("TriggerBindingSpec"),
     Status |-> Val("TriggerBindingStatus")]
ClusterTriggerBindingCopy == [ObjectMeta |-> Into, Spec |-> Into]

ClusterTriggerBindingListType ==
    [ListMeta |-> Val("ListMeta"), Items |-> Slice("ClusterTriggerBinding")]
ClusterTriggerBindingListCopy == [ListMeta |-> Into, Items |-> Make]

CustomResourceType == [RawExtension |-> Val("RawExtension")]
CustomResourceCopy == [RawExtension |-> Into]

EventListenerType ==
    [ObjectMeta |-> Val("ObjectMeta"), Spec |-> Val("EventListenerSpec"),
     Status |-> Val("EventListenerStatus")]
EventListenerCopy == [ObjectMeta |-> Into, Spec |-> Into, Status |-> Into]

EventListenerConfigType == NoFields
EventListenerConfigCopy == NoFields

EventListenerListType == [ListMeta |-> Val("ListMeta"), Items |-> Slice("EventListener")]
EventListenerListCopy == [ListMeta |-> Into, Items |-> Make]

EventListenerSpecType ==
    [Triggers |-> Slice("EventListenerTrigger"), NamespaceSelector |-> Val("NamespaceSelector"),
     LabelSelector |-> Ptr("LabelSelector"), Resources |-> Val("Resources")]
EventListenerSpecCopy ==
    [Triggers |-> Make, NamespaceSelector |-> Into, LabelSelector |-> New, Resources |-> Into]

EventListenerStatusType ==
    [Status |-> Val("DuckStatus"), AddressStatus |-> Val("AddressStatus"),
     Configuration |-> Val("EventListenerConfig")]
EventListenerStatusCopy == [Status |-> Into, AddressStatus |-> Into]

EventListenerTriggerType ==
    [Bindings |-> Ptrs("TriggerSpecBinding"), Template |-> Ptr("TriggerSpecTemplate"),
     Interceptors |-> Ptrs("TriggerInterceptor")]
EventListenerTriggerCopy == [Bindings |-> MakeNew, Template |-> New, Interceptors |-> MakeNew]

GitHubInterceptorType == [SecretRef |-> Ptr("SecretRef"), EventTypes |-> Slice("")]
GitHubInterceptorCopy == [SecretRef |-> NewFlat, EventTypes |-> MakeFlat]

GitLabInterceptorType == [SecretRef |-> Ptr("SecretRef"), EventTypes |-> Slice("")]
GitLabInterceptorCopy == [SecretRef |-> NewFlat, EventTypes |-> MakeFlat]

InterceptorType ==
    [ObjectMeta |-> Val("ObjectMeta"), Spec |-> Val("InterceptorSpec"),
     Status |-> Val("InterceptorStatus")]
InterceptorCopy == [ObjectMeta |-> Into, Spec |-> Into, Status |-> Into]

InterceptorListType == [ListMeta |-> Val("ListMeta"), Items |-> Slice("Interceptor")]
InterceptorListCopy == [ListMeta |-> Into, Items |-> Make]

InterceptorParamsType == [Value |-> Val("JSON")]
InterceptorParamsCopy == [Value |-> Into]

InterceptorRefType == NoFields
InterceptorRefCopy == NoFields

InterceptorSpecType == [ClientConfig |-> Val("ClientConfig")]
InterceptorSpecCopy == [ClientConfig |-> Into]

InterceptorStatusType == [Status |-> Val("DuckStatus"), AddressStatus |-> Val("AddressStatus")]
InterceptorStatusCopy == [Status |-> Into, AddressStatus |-> Into]

KubernetesResourceType == [Replicas |-> Ptr(""), WithPodSpec |-> Val("WithPodSpec")]
KubernetesResourceCopy == [Replicas |-> NewFlat, WithPodSpec |-> Into]

NamespaceSelectorType == [MatchNames |-> Slice("")]
NamespaceSelectorCopy == [MatchNames |-> MakeFlat]

ParamType == NoFields
ParamCopy == NoFields

ParamSpecType == [Default |-> Ptr("")]
ParamSpecCopy == [Default |-> NewFlat]

ResourcesType ==
    [KubernetesResource |-> Ptr("KubernetesResource"), CustomResource |-> Ptr("CustomResource")]
ResourcesCopy == [KubernetesResource |-> New, CustomResource |-> New]

SecretRefType == NoFields
SecretRefCopy == NoFields

ServiceReferenceType == [Port |-> Ptr("")]
ServiceReferenceCopy == [Port |-> NewFlat]

TriggerType == [ObjectMeta |-> Val("ObjectMeta"), Spec |-> Val("TriggerSpec")]
TriggerCopy == [ObjectMeta |-> Into, Spec |-> Into]

TriggerBindingType ==
    [ObjectMeta |-> Val("ObjectMeta"), Spec |-> Val("TriggerBindingSpec"),
     Status |-> Val("TriggerBindingStatus")]
TriggerBindingCopy == [ObjectMeta |-> Into, Spec |-> Into]

TriggerBindingListType == [ListMeta |-> Val("ListMeta"), Items |-> Slice("TriggerBinding")]
TriggerBindingListCopy == [ListMeta |-> Into, Items |-> Make]

TriggerBindingSpecType == [Params |-> Slice("Param")]
TriggerBindingSpecCopy == [Params |-> MakeFlat]

TriggerBindingStatusType == NoFields
TriggerBindingStatusCopy == NoFields

TriggerInterceptorType ==
    [Name |-> Ptr(""), Ref |-> Val("InterceptorRef"), Params |-> Slice("InterceptorParams"),
     Webhook |-> Ptr("WebhookInterceptor"), DeprecatedGitHub |-> Ptr("GitHubInterceptor"),
     DeprecatedGitLab |-> Ptr("GitLabInterceptor"), DeprecatedCEL |-> Ptr("CELInterceptor"),
     DeprecatedBitbucket |-> Ptr("BitbucketInterceptor")]
TriggerInterceptorCopy ==
    [Name |-> NewFlat, Params |-> Make, Webhook |-> New, DeprecatedGitHub |-> New,
     DeprecatedGitLab |-> New, DeprecatedCEL |-> New, DeprecatedBitbucket |-> New]

TriggerListType == [ListMeta |-> Val("ListMeta"), Items |-> Slice("Trigger")]
TriggerListCopy == [ListMeta |-> Into, Items |-> Make]

TriggerResourceTemplateType == [RawExtension |-> Val("RawExtension")]
TriggerResourceTemplateCopy == [RawExtension |-> Into]

TriggerSpecType ==
    [Bindings |-> Ptrs("TriggerSpecBinding"), Template |-> Val("TriggerSpecTemplate"),
     Interceptors |-> Ptrs("TriggerInterceptor")]
TriggerSpecCopy == [Bindings |-> MakeNew, Template |-> Into, Interceptors |-> MakeNew]

TriggerSpecBindingType == [Value |-> Ptr("")]
TriggerSpecBindingCopy == [Value |-> NewFlat]

TriggerSpecTemplateType == [Ref |-> Ptr(""), Spec |-> Ptr("TriggerTemplateSpec")]
TriggerSpecTemplateCopy == [Ref |-> NewFlat, Spec |-> New]

TriggerTemplateType ==
    [ObjectMeta |-> Val("ObjectMeta"), Spec |-> Val("TriggerTemplateSpec"),
     Status |-> Val("TriggerTemplateStatus")]
TriggerTemplateCopy == [ObjectMeta |-> Into, Spec |-> Into]

TriggerTemplateListType == [ListMeta |-> Val("ListMeta"), Items |-> Slice("TriggerTemplate")]
TriggerTemplateListCopy == [ListMeta |-> Into, Items |-> Make]

TriggerTemplateSpecType ==
    [Params |-> Slice("ParamSpec"), ResourceTemplates |-> Slice("TriggerResourceTemplate")]
TriggerTemplateSpecCopy == [Params |-> Make, ResourceTemplates |-> Make]

TriggerTemplateStatusType == NoFields
TriggerTemplateStatusCopy == NoFields

WebhookInterceptorType ==
    [ObjectRef |-> Ptr(""), URL |-> Ptr("URL"), Header |-> Slice("PipelineParam")]
WebhookInterceptorCopy == [ObjectRef |-> NewFlat, URL |-> New, Header |-> Make]

-----------------------------------------------------------------------------

Types ==
    [BitbucketInterceptor |-> BitbucketInterceptorType, CELInterceptor |-> CELInterceptorType,
     CELOverlay |-> CELOverlayType, ClientConfig |-> ClientConfigType,
     ClusterInterceptor |-> ClusterInterceptorType,
     ClusterInterceptorList |-> ClusterInterceptorListType,
     ClusterInterceptorSpec |-> ClusterInterceptorSpecType,
     ClusterInterceptorStatus |-> ClusterInterceptorStatusType,
     ClusterTriggerBinding |-> ClusterTriggerBindingType,
     ClusterTriggerBindingList |-> ClusterTriggerBindingListType,
     CustomResource |-> CustomResourceType, EventListener |-> EventListenerType,
     EventListenerConfig |-> EventListenerConfigType, EventListenerList |-> EventListenerListType,
     EventListenerSpec |-> EventListenerSpecType, EventListenerStatus |-> EventListenerStatusType,
     EventListenerTrigger |-> EventListenerTriggerType,
     GitHubInterceptor |-> GitHubInterceptorType, GitLabInterceptor |-> GitLabInterceptorType,
     Interceptor |-> InterceptorType, InterceptorList |-> InterceptorListType,
     InterceptorParams |-> InterceptorParamsType, InterceptorRef |-> InterceptorRefType,
     InterceptorSpec |-> InterceptorSpecType, InterceptorStatus |-> InterceptorStatusType,
     KubernetesResource |-> KubernetesResourceType, NamespaceSelector |-> NamespaceSelectorType,
     Param |-> ParamType, ParamSpec |-> ParamSpecType, Resources |-> ResourcesType,
     SecretRef |-> SecretRefType, ServiceReference |-> ServiceReferenceType,
     Trigger |-> TriggerType, TriggerBinding |-> TriggerBindingType,
     TriggerBindingList |-> TriggerBindingListType, TriggerBindingSpec |-> TriggerBindingSpecType,
     TriggerBindingStatus |-> TriggerBindingStatusType,
     TriggerInterceptor |-> TriggerInterceptorType, TriggerList |-> TriggerListType,
     TriggerResourceTemplate |-> TriggerResourceTemplateType, TriggerSpec |-> TriggerSpecType,
     TriggerSpecBinding |-> TriggerSpecBindingType,
     TriggerSpecTemplate |-> TriggerSpecTemplateType, TriggerTemplate |-> TriggerTemplateType,
     TriggerTemplateList |-> TriggerTemplateListType,
     TriggerTemplateSpec |-> TriggerTemplateSpecType,
     TriggerTemplateStatus |-> TriggerTemplateStatusType,
     WebhookInterceptor |-> WebhookInterceptorType]

Copies ==
    [BitbucketInterceptor |-> BitbucketInterceptorCopy, CELInterceptor |-> CELInterceptorCopy,
     CELOverlay |-> CELOverlayCopy, ClientConfig |-> ClientConfigCopy,
     ClusterInterceptor |-> ClusterInterceptorCopy,
     ClusterInterceptorList |-> ClusterInterceptorListCopy,
     ClusterInterceptorSpec |-> ClusterInterceptorSpecCopy,
     ClusterInterceptorStatus |-> ClusterInterceptorStatusCopy,
     ClusterTriggerBinding |-> ClusterTriggerBindingCopy,
     ClusterTriggerBindingList |-> ClusterTriggerBindingListCopy,
     CustomResource |-> CustomResourceCopy, EventListener |-> EventListenerCopy,
     EventListenerConfig |-> EventListenerConfigCopy, EventListenerList |-> EventListenerListCopy,
     EventListenerSpec |-> EventListenerSpecCopy, EventListenerStatus |-> EventListenerStatusCopy,
     EventListenerTrigger |-> EventListenerTriggerCopy,
     GitHubInterceptor |-> GitHubInterceptorCopy, GitLabInterceptor |-> GitLabInterceptorCopy,
     Interceptor |-> InterceptorCopy, InterceptorList |-> InterceptorListCopy,
     InterceptorParams |-> InterceptorParamsCopy, InterceptorRef |-> InterceptorRefCopy,
     InterceptorSpec |-> InterceptorSpecCopy, InterceptorStatus |-> InterceptorStatusCopy,
     KubernetesResource |-> KubernetesResourceCopy, NamespaceSelector |-> NamespaceSelectorCopy,
     Param |-> ParamCopy, ParamSpec |-> ParamSpecCopy, Resources |-> ResourcesCopy,
     SecretRef |-> SecretRefCopy, ServiceReference |-> ServiceReferenceCopy,
     Trigger |-> TriggerCopy, TriggerBinding |-> TriggerBindingCopy,
     TriggerBindingList |-> TriggerBindingListCopy, TriggerBindingSpec |-> TriggerBindingSpecCopy,
     TriggerBindingStatus |-> TriggerBindingStatusCopy,
     TriggerInterceptor |-> TriggerInterceptorCopy, TriggerList |-> TriggerListCopy,
     TriggerResourceTemplate |-> TriggerResourceTemplateCopy, TriggerSpec |-> TriggerSpecCopy,
     TriggerSpecBinding |-> TriggerSpecBindingCopy,
     TriggerSpecTemplate |-> TriggerSpecTemplateCopy, TriggerTemplate |-> TriggerTemplateCopy,
     TriggerTemplateList |-> TriggerTemplateListCopy,
     TriggerTemplateSpec |-> TriggerTemplateSpecCopy,
     TriggerTemplateStatus |-> TriggerTemplateStatusCopy,
     WebhookInterceptor |-> WebhookInterceptorCopy]

\* Those that are objects or lists of the API
Roots ==
    {"ClusterInterceptor", "ClusterInterceptorList", "ClusterTriggerBinding",
     "ClusterTriggerBindingList", "EventListener", "EventListenerList", "Interceptor",
     "InterceptorList", "Trigger", "TriggerBinding", "TriggerBindingList", "TriggerList",
     "TriggerTemplate", "TriggerTemplateList"}
=============================================================================
