SPECIFICATION Spec
CONSTANTS
    fido = fido
    tom = tom
    Animal = Animal
    Dog = Dog
    Light = Light
    Heavy = Heavy
    Obj <- MCObj
    Class <- MCClass
    Value <- MCValue
    ClassOf <- MCClassOf
    IsA <- MCIsA
    BaseClass = Animal
    Qty <- MCQty
    Bucketizer <- MCBucketizer
    Schemes <- MCSchemes
    None = None
    MaxTags = 2
    MaxAdd = 3
INVARIANTS
    InPlace
    TagsDescribe
PROPERTIES
    SortingKeeps
